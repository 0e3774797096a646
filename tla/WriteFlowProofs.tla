---------------------------- MODULE WriteFlowProofs ----------------------------
(***************************************************************************)
(* Proofs about WriteFlow, for any number of bytes, watermark and first       *)
(* credit: what a program may keep in memory, that nothing is freed which     *)
(* may be sent again, that the FIN is last, and that a program which is told  *)
(* that everything was acknowledged is told the truth.                        *)
(***************************************************************************)
EXTENDS WriteFlow, SequenceTheorems, WellFoundedInduction, TLAPS

Operation == [type : {"APISend", "FlushSend"}, size : 0..MaxWrite, fin : BOOLEAN]
Chunk == [offset : Nat, size : 1..MaxWrite, submitted : 0..MaxWrite]
Frame == [from : Nat, to : Nat, fin : BOOLEAN]

IsSend(op) == op.type = "APISend"
Bytes(op) == IF IsSend(op) THEN op.size ELSE 0
Ends(op) == IsSend(op) /\ op.fin

HasSend(queue) == \E i \in DOMAIN queue : IsSend(queue[i])
HasEnd(queue) == \E i \in DOMAIN queue : Ends(queue[i])

\* Nothing is queued behind the write that ends the stream.
EndIsLast(queue) ==
  \A i, j \in DOMAIN queue : Ends(queue[i]) /\ IsSend(queue[j]) => j <= i

\* The writes in a queue lead from the offset `start` to `total`, but for the
\* last `rest` bytes; f[i] is the offset behind the i-th operation.
Fits(queue, start, rest, total) ==
  \E f \in [0..Len(queue) -> Nat] :
    /\ f[0] = start
    /\ \A i \in 1..Len(queue) : f[i] = f[i - 1] + Bytes(queue[i])
    /\ f[Len(queue)] + rest = total
    /\ \A i \in 0..Len(queue) : f[i] <= total
    /\ \A i \in 1..Len(queue) : Ends(queue[i]) => f[i] = total

-----------------------------------------------------------------------------
(* Queues.                                                                   *)

LEMMA AppendParts ==
  ASSUME NEW queue \in Seq(Operation), NEW op \in Operation
  PROVE  /\ Append(queue, op) \in Seq(Operation) /\ Append(queue, op) # <<>>
         /\ Len(queue) \in Nat /\ Len(Append(queue, op)) = Len(queue) + 1
         /\ DOMAIN queue = 1..Len(queue) /\ DOMAIN Append(queue, op) = 1..(Len(queue) + 1)
         /\ \A i \in 1..Len(queue) : Append(queue, op)[i] = queue[i]
         /\ Append(queue, op)[Len(queue) + 1] = op
         /\ \A i \in 1..(Len(queue) + 1) : i \in 1..Len(queue) \/ i = Len(queue) + 1
OBVIOUS

LEMMA TailParts ==
  ASSUME NEW queue \in Seq(Operation), queue # <<>>
  PROVE  /\ Tail(queue) \in Seq(Operation) /\ Head(queue) \in Operation /\ Head(queue) = queue[1]
         /\ Len(queue) \in Nat \ {0} /\ Len(Tail(queue)) = Len(queue) - 1
         /\ DOMAIN queue = 1..Len(queue) /\ DOMAIN Tail(queue) = 1..(Len(queue) - 1)
         /\ \A i \in 1..(Len(queue) - 1) : /\ Tail(queue)[i] = queue[i + 1]
                                          /\ i + 1 \in 1..Len(queue) /\ ~(i + 1 <= 1)
<1>1. /\ Tail(queue) \in Seq(Operation) /\ Head(queue) = queue[1]
      /\ Len(queue) \in Nat \ {0} /\ Len(Tail(queue)) = Len(queue) - 1
      /\ DOMAIN queue = 1..Len(queue) /\ DOMAIN Tail(queue) = 1..(Len(queue) - 1)
      /\ \A i \in 1..(Len(queue) - 1) : Tail(queue)[i] = queue[i + 1]
  OBVIOUS
<1>2. \A i \in 1..(Len(queue) - 1) : i + 1 \in 1..Len(queue) /\ ~(i + 1 <= 1)
  BY <1>1
<1>3. queue[1] \in Operation
  BY <1>1, ElementOfSeq
<1> QED
  BY <1>1, <1>2, <1>3

\* What an operation behind the others changes, and taking the first.
LEMMA AppendOrder ==
  ASSUME NEW queue \in Seq(Operation), NEW op \in Operation
  PROVE  /\ HasSend(Append(queue, op)) <=> HasSend(queue) \/ IsSend(op)
         /\ HasEnd(Append(queue, op)) <=> HasEnd(queue) \/ Ends(op)
         /\ EndIsLast(queue) /\ (IsSend(op) => ~HasEnd(queue)) => EndIsLast(Append(queue, op))
<1> DEFINE more == Append(queue, op)
<1>1. /\ Len(queue) \in Nat
      /\ DOMAIN queue = 1..Len(queue) /\ DOMAIN more = 1..(Len(queue) + 1)
      /\ \A i \in 1..Len(queue) : more[i] = queue[i]
      /\ more[Len(queue) + 1] = op
      /\ \A i \in 1..(Len(queue) + 1) : i \in 1..Len(queue) \/ i = Len(queue) + 1
      /\ \A i \in 1..Len(queue) : i \in 1..(Len(queue) + 1)
      /\ Len(queue) + 1 \in 1..(Len(queue) + 1)
  <2>1. /\ Len(queue) \in Nat
        /\ DOMAIN queue = 1..Len(queue) /\ DOMAIN more = 1..(Len(queue) + 1)
        /\ \A i \in 1..Len(queue) : more[i] = queue[i]
        /\ more[Len(queue) + 1] = op
        /\ \A i \in 1..(Len(queue) + 1) : i \in 1..Len(queue) \/ i = Len(queue) + 1
    BY AppendParts
  <2>2. /\ \A i \in 1..Len(queue) : i \in 1..(Len(queue) + 1)
        /\ Len(queue) + 1 \in 1..(Len(queue) + 1)
    BY <2>1
  <2> QED
    BY <2>1, <2>2
<1> HIDE DEF more
<1>2. HasSend(more) <=> HasSend(queue) \/ IsSend(op)
  BY <1>1, Zenon DEF HasSend
<1>3. HasEnd(more) <=> HasEnd(queue) \/ Ends(op)
  BY <1>1, Zenon DEF HasEnd
<1>4. ASSUME EndIsLast(queue), IsSend(op) => ~HasEnd(queue)
      PROVE  EndIsLast(more)
  <2> SUFFICES ASSUME NEW i \in 1..(Len(queue) + 1), NEW j \in 1..(Len(queue) + 1),
                      Ends(more[i]), IsSend(more[j])
               PROVE  j <= i
    BY <1>1 DEF EndIsLast
  <2>1. CASE i = Len(queue) + 1
    BY <1>1, <2>1
  <2>2. CASE i \in 1..Len(queue) /\ j \in 1..Len(queue)
    BY <1>1, <1>4, <2>2 DEF EndIsLast
  <2>3. CASE i \in 1..Len(queue) /\ j = Len(queue) + 1
    <3>1. Ends(queue[i]) /\ IsSend(op)
      BY <1>1, <2>3
    <3> QED
      BY <1>1, <1>4, <2>3, <3>1 DEF HasEnd
  <2> QED
    BY <1>1, <2>1, <2>2, <2>3
<1> QED
  BY <1>2, <1>3, <1>4 DEF more

LEMMA TailOrder ==
  ASSUME NEW queue \in Seq(Operation), queue # <<>>
  PROVE  /\ HasSend(Tail(queue)) => HasSend(queue)
         /\ HasEnd(Tail(queue)) => HasEnd(queue)
         /\ IsSend(Head(queue)) => HasSend(queue)
         /\ Ends(Head(queue)) => HasEnd(queue)
         /\ EndIsLast(queue) => EndIsLast(Tail(queue))
         /\ EndIsLast(queue) /\ Ends(Head(queue)) => ~HasSend(Tail(queue))
<1> DEFINE less == Tail(queue)
<1>1. /\ Len(queue) \in Nat \ {0} /\ Head(queue) = queue[1] /\ 1 \in 1..Len(queue)
      /\ DOMAIN queue = 1..Len(queue) /\ DOMAIN less = 1..(Len(queue) - 1)
      /\ \A i \in 1..(Len(queue) - 1) : /\ less[i] = queue[i + 1]
                                       /\ i + 1 \in 1..Len(queue) /\ ~(i + 1 <= 1)
  BY TailParts
<1> HIDE DEF less
<1>2. /\ HasSend(less) => HasSend(queue)
      /\ IsSend(Head(queue)) => HasSend(queue)
  BY <1>1, Zenon DEF HasSend
<1>3. /\ HasEnd(less) => HasEnd(queue)
      /\ Ends(Head(queue)) => HasEnd(queue)
  BY <1>1, Zenon DEF HasEnd
<1>4. ASSUME EndIsLast(queue)
      PROVE  EndIsLast(less)
  <2> SUFFICES ASSUME NEW i \in 1..(Len(queue) - 1), NEW j \in 1..(Len(queue) - 1),
                      Ends(less[i]), IsSend(less[j])
               PROVE  j <= i
    BY <1>1 DEF EndIsLast
  <2>1. j + 1 <= i + 1
    BY <1>1, <1>4 DEF EndIsLast
  <2> QED
    BY <1>1, <2>1
<1>5. EndIsLast(queue) /\ Ends(Head(queue)) => ~HasSend(less)
  BY <1>1, Zenon DEF EndIsLast, HasSend
<1> QED
  BY <1>2, <1>3, <1>4, <1>5 DEF less

LEMMA BytesInNat ==
  ASSUME WriteAssumption, NEW op \in Operation
  PROVE  Bytes(op) \in Nat /\ Bytes(op) <= MaxWrite /\ op.fin \in BOOLEAN
BY DEF Operation, Bytes, WriteAssumption

LEMMA FitsNothing ==
  ASSUME NEW n \in Nat
  PROVE  Fits(<<>>, n, 0, n)
<1> DEFINE f == [i \in 0..0 |-> n]
<1>1. /\ f \in [0..0 -> Nat] /\ f[0] = n /\ Len(<<>>) = 0 /\ n + 0 = n /\ n <= n
      /\ \A i \in 0..0 : f[i] = n
      /\ \A i \in 1..0 : FALSE
  OBVIOUS
<1> HIDE DEF f
<1>2. /\ f \in [0..Len(<<>>) -> Nat]
      /\ f[0] = n
      /\ f[Len(<<>>)] + 0 = n
      /\ \A i \in 0..Len(<<>>) : f[i] <= n
      /\ \A i \in 1..Len(<<>>) : FALSE
  BY <1>1
<1> QED
  BY <1>2, Zenon DEF Fits

\* An operation of no more bytes than there are left joins the queue.
LEMMA FitsAppend ==
  ASSUME WriteAssumption, NEW queue \in Seq(Operation), NEW op \in Operation,
         NEW start \in Nat, NEW rest \in Nat, NEW total \in Nat,
         Fits(queue, start, rest, total),
         Bytes(op) <= rest, Ends(op) => Bytes(op) = rest
  PROVE  Fits(Append(queue, op), start, rest - Bytes(op), total)
<1> DEFINE more == Append(queue, op)
           last == Len(queue) + 1
<1>1. PICK f \in [0..Len(queue) -> Nat] :
        /\ f[0] = start
        /\ \A i \in 1..Len(queue) : f[i] = f[i - 1] + Bytes(queue[i])
        /\ f[Len(queue)] + rest = total
        /\ \A i \in 0..Len(queue) : f[i] <= total
        /\ \A i \in 1..Len(queue) : Ends(queue[i]) => f[i] = total
  BY DEF Fits
<1>2. /\ Len(queue) \in Nat /\ Len(more) = last
      /\ \A i \in 1..Len(queue) : more[i] = queue[i]
      /\ more[last] = op
  BY AppendParts
<1>3. Bytes(op) \in Nat
  BY BytesInNat
<1> DEFINE g == [i \in 0..last |-> IF i = last THEN f[Len(queue)] + Bytes(op) ELSE f[i]]
<1>4. f[Len(queue)] \in Nat /\ \A i \in 0..Len(queue) : f[i] \in Nat
  <2>1. \A i \in 0..Len(queue) : f[i] \in Nat
    BY <1>1
  <2>2. Len(queue) \in 0..Len(queue)
    BY <1>2
  <2> QED
    BY <2>1, <2>2
<1>5. /\ last \in Nat /\ last # 0 /\ last - 1 = Len(queue)
      /\ \A i \in 0..last : i = last \/ i \in 0..Len(queue)
      /\ \A i \in 1..last : i = last \/ i \in 1..Len(queue)
      /\ \A i \in 0..Len(queue) : i # last /\ i \in 0..last
      /\ \A i \in 1..Len(queue) : i - 1 \in 0..Len(queue) /\ i \in 0..Len(queue)
      /\ 0 \in 0..Len(queue) /\ Len(queue) \in 0..Len(queue) /\ last \in 0..last
  BY <1>2
<1>6. g \in [0..last -> Nat]
  BY <1>3, <1>4, <1>5
<1>7. /\ g[last] = f[Len(queue)] + Bytes(op)
      /\ \A i \in 0..Len(queue) : g[i] = f[i]
  BY <1>5
<1> HIDE DEF g, more, last
<1>8. g[0] = start
  BY <1>1, <1>5, <1>7
<1>9. \A i \in 1..last : g[i] = g[i - 1] + Bytes(more[i])
  <2>1. g[last] = g[last - 1] + Bytes(more[last])
    BY <1>2, <1>5, <1>7
  <2>2. ASSUME NEW i \in 1..Len(queue) PROVE g[i] = g[i - 1] + Bytes(more[i])
    <3>1. g[i] = f[i] /\ g[i - 1] = f[i - 1] /\ more[i] = queue[i]
      BY <1>2, <1>5, <1>7
    <3> QED
      BY <1>1, <3>1
  <2> QED
    BY <1>5, <2>1, <2>2
<1>10. g[last] + (rest - Bytes(op)) = total
  BY <1>1, <1>3, <1>4, <1>7
<1>11. \A i \in 0..last : g[i] <= total
  <2>1. g[last] <= total
    BY <1>1, <1>3, <1>4, <1>7
  <2>2. \A i \in 0..Len(queue) : g[i] <= total
    BY <1>1, <1>7
  <2> QED
    BY <1>5, <2>1, <2>2
<1>12. \A i \in 1..last : Ends(more[i]) => g[i] = total
  <2>1. Ends(more[last]) => g[last] = total
    BY <1>1, <1>2, <1>3, <1>4, <1>7
  <2>2. \A i \in 1..Len(queue) : Ends(more[i]) => g[i] = total
    BY <1>1, <1>2, <1>5, <1>7
  <2> QED
    BY <1>5, <2>1, <2>2
<1>13. /\ g \in [0..Len(more) -> Nat]
       /\ \A i \in 1..Len(more) : g[i] = g[i - 1] + Bytes(more[i])
       /\ g[Len(more)] + (rest - Bytes(op)) = total
       /\ \A i \in 0..Len(more) : g[i] <= total
       /\ \A i \in 1..Len(more) : Ends(more[i]) => g[i] = total
  BY <1>2, <1>6, <1>9, <1>10, <1>11, <1>12
<1>14. Fits(more, start, rest - Bytes(op), total)
  BY <1>8, <1>13, Zenon DEF Fits
<1> QED
  BY <1>14 DEF more

\* The first operation is taken.
LEMMA FitsTail ==
  ASSUME WriteAssumption, NEW queue \in Seq(Operation), queue # <<>>,
         NEW start \in Nat, NEW rest \in Nat, NEW total \in Nat,
         Fits(queue, start, rest, total)
  PROVE  /\ Fits(Tail(queue), start + Bytes(Head(queue)), rest, total)
         /\ start + Bytes(Head(queue)) <= total
         /\ Ends(Head(queue)) => start + Bytes(Head(queue)) = total
<1> DEFINE less == Tail(queue)
           n == Len(queue) - 1
<1>1. PICK f \in [0..Len(queue) -> Nat] :
        /\ f[0] = start
        /\ \A i \in 1..Len(queue) : f[i] = f[i - 1] + Bytes(queue[i])
        /\ f[Len(queue)] + rest = total
        /\ \A i \in 0..Len(queue) : f[i] <= total
        /\ \A i \in 1..Len(queue) : Ends(queue[i]) => f[i] = total
  BY DEF Fits
<1>2. /\ Len(queue) \in Nat \ {0} /\ Head(queue) = queue[1] /\ Len(less) = n
      /\ \A i \in 1..n : less[i] = queue[i + 1]
  BY TailParts
<1> DEFINE g == [i \in 0..n |-> f[i + 1]]
<1>3. /\ n \in Nat /\ n + 1 = Len(queue) /\ 0 + 1 = 1 /\ 1 - 1 = 0
      /\ \A i \in 0..n : i + 1 \in 0..Len(queue) /\ i + 1 \in 1..Len(queue)
      /\ \A i \in 1..n : i \in 0..n /\ i - 1 \in 0..n /\ (i - 1) + 1 = i /\ (i + 1) - 1 = i
      /\ 0 \in 0..n /\ n \in 0..n /\ 1 \in 1..Len(queue) /\ 1 \in 0..Len(queue)
  BY <1>2
<1>4. g \in [0..n -> Nat] /\ \A i \in 0..n : g[i] = f[i + 1]
  BY <1>3
<1> HIDE DEF g, less, n
<1>5. f[1] = start + Bytes(Head(queue)) /\ f[1] <= total /\ (Ends(Head(queue)) => f[1] = total)
  <2>1. f[1] = f[1 - 1] + Bytes(queue[1]) /\ f[1] <= total /\ (Ends(queue[1]) => f[1] = total)
    BY <1>1, <1>3
  <2>2. f[1 - 1] = start
    BY <1>1, <1>3
  <2> QED
    BY <1>2, <2>1, <2>2
<1>6. g[0] = start + Bytes(Head(queue)) /\ g[n] + rest = total
  <2>1. g[0] = f[0 + 1] /\ g[n] = f[n + 1]
    BY <1>3, <1>4
  <2> QED
    BY <1>1, <1>3, <1>5, <2>1
<1>7. ASSUME NEW i \in 1..n
      PROVE  /\ g[i] = g[i - 1] + Bytes(less[i])
             /\ Ends(less[i]) => g[i] = total
  <2>1. g[i] = f[i + 1] /\ g[i - 1] = f[i] /\ less[i] = queue[i + 1]
    BY <1>2, <1>3, <1>4
  <2>2. i + 1 \in 1..Len(queue) /\ (i + 1) - 1 = i
    BY <1>3
  <2>3. f[i + 1] = f[(i + 1) - 1] + Bytes(queue[i + 1]) /\ (Ends(queue[i + 1]) => f[i + 1] = total)
    BY <1>1, <2>2
  <2> QED
    BY <2>1, <2>2, <2>3
<1>8. \A i \in 0..n : g[i] <= total
  BY <1>1, <1>3, <1>4
<1>9. /\ g \in [0..Len(less) -> Nat]
      /\ \A i \in 1..Len(less) : g[i] = g[i - 1] + Bytes(less[i])
      /\ g[Len(less)] + rest = total
      /\ \A i \in 0..Len(less) : g[i] <= total
      /\ \A i \in 1..Len(less) : Ends(less[i]) => g[i] = total
  BY <1>2, <1>4, <1>6, <1>7, <1>8
<1>10. Fits(less, start + Bytes(Head(queue)), rest, total)
  BY <1>6, <1>9, Zenon DEF Fits
<1> QED
  BY <1>5, <1>10 DEF less

\* The writer counts a write before it is queued, unless it ended the stream.
LEMMA FitsMore ==
  ASSUME WriteAssumption, NEW queue \in Seq(Operation), ~HasEnd(queue),
         NEW start \in Nat, NEW total \in Nat, NEW size \in Nat,
         Fits(queue, start, 0, total)
  PROVE  Fits(queue, start, size, total + size)
<1>1. PICK f \in [0..Len(queue) -> Nat] :
        /\ f[0] = start
        /\ \A i \in 1..Len(queue) : f[i] = f[i - 1] + Bytes(queue[i])
        /\ f[Len(queue)] + 0 = total
        /\ \A i \in 0..Len(queue) : f[i] <= total
  BY DEF Fits
<1>2. Len(queue) \in Nat /\ DOMAIN queue = 1..Len(queue) /\ Len(queue) \in 0..Len(queue)
  OBVIOUS
<1>3. \A i \in 0..Len(queue) : f[i] \in Nat
  BY <1>1
<1>4. f[Len(queue)] + size = total + size
  <2>1. f[Len(queue)] \in Nat
    BY <1>2, <1>3
  <2>2. f[Len(queue)] = total
    BY <1>1, <2>1
  <2> QED
    BY <2>2
<1>5. \A i \in 0..Len(queue) : f[i] <= total + size
  BY <1>1, <1>3
<1>6. \A i \in 1..Len(queue) : Ends(queue[i]) => f[i] = total + size
  BY <1>2 DEF HasEnd
<1> QED
  BY <1>1, <1>4, <1>5, <1>6 DEF Fits

\* What fits begins no later than it ends.
LEMMA FitsBelow ==
  ASSUME NEW queue \in Seq(Operation), NEW start \in Nat, NEW rest \in Nat, NEW total \in Nat,
         Fits(queue, start, rest, total)
  PROVE  start <= total
<1>1. 0 \in 0..Len(queue)
  OBVIOUS
<1> QED
  BY <1>1 DEF Fits

-----------------------------------------------------------------------------
(* The inductive invariant.                                                  *)

Before == {"idle", "measure", "remeasure", "wait", "count"}
Ending == {"askAcked", "waitAcked", "acked", "waitClosed", "closed"}
Over == {"failed", "timedOut"}

Bound == Max({HighWatermark, LowWatermark + MaxWrite})

Typed ==
  /\ wpc \in Before \cup {"queue"} \cup Ending \cup Over
  /\ writing \in [size : 0..MaxWrite, fin : BOOLEAN]
  /\ buffered \in Nat /\ appOffset \in Nat /\ pubAcked \in Nat
  /\ txNext \in Nat /\ txSubmitted \in Nat /\ txAcked \in Nat
  /\ operations \in Seq(Operation)
  /\ chunks \in Seq(Chunk)
  /\ frames \subseteq Frame
  /\ appFin \in BOOLEAN /\ finRequested \in BOOLEAN /\ finSubmitted \in BOOLEAN
  /\ finAcked \in BOOLEAN /\ pubFinAcked \in BOOLEAN /\ stopped \in BOOLEAN

\* A writer that ended the stream writes no more, and what it measured, however
\* late, bounds what it adds.
Writer ==
  /\ wpc \in Before => ~appFin
  /\ wpc \in Ending => appFin
  /\ wpc = "queue" => appFin = writing.fin
  /\ pubAcked <= txAcked
  /\ appOffset <= txAcked + Bound
  /\ wpc = "count" => appOffset + writing.size <= txAcked + Bound

\* What the writer counted is with ngtcp2, queued or about to be queued, and the
\* write that ends the stream is the last of it.
Queued ==
  /\ EndIsLast(operations)
  /\ HasEnd(operations) => appFin /\ wpc # "queue"
  /\ ~stopped => Fits(operations, txNext, IF wpc = "queue" THEN writing.size ELSE 0, appOffset)
  /\ stopped => operations = <<>>
  /\ txNext <= appOffset
  /\ finRequested => appFin /\ wpc # "queue" /\ txNext = appOffset /\ ~HasSend(operations)

HasData(frame) == frame.from < frame.to

\* `offset` is where the first frame with data begins, or `end` without one.
FirstGap(outstanding, end, offset) ==
  /\ \A frame \in outstanding : HasData(frame) => offset <= frame.from
  /\ \/ offset = end /\ \A frame \in outstanding : ~HasData(frame)
     \/ \E frame \in outstanding : HasData(frame) /\ offset = frame.from

\* The outstanding frames are what is between the acknowledged offset and the
\* submitted one; the FIN is in one of them, at the end of the stream.
Outstanding ==
  /\ txSubmitted <= txNext
  /\ FirstGap(frames, txSubmitted, txAcked)
  /\ \A frame \in frames : frame.from <= frame.to /\ frame.to <= txSubmitted
  /\ \A frame \in frames : frame.fin => finSubmitted /\ frame.to = txNext
  /\ \A frame \in frames : ~HasData(frame) => frame.fin
  /\ \A f, g \in frames : f.fin /\ g.fin => f = g
  /\ finSubmitted => finRequested /\ txSubmitted = txNext
  /\ finAcked => finSubmitted /\ frames = {} /\ txAcked = txNext
  /\ pubFinAcked => finAcked

Holds(i, byte) == chunks[i].offset <= byte /\ byte < chunks[i].offset + chunks[i].size

\* The chunks hold every byte that is not acknowledged.
Kept ==
  /\ \A i \in DOMAIN chunks : /\ chunks[i].submitted <= chunks[i].size
                              /\ chunks[i].offset + chunks[i].size <= txNext
  /\ \A byte \in txAcked..(txNext - 1) : \E i \in DOMAIN chunks : Holds(i, byte)

\* The writer is told the truth.
Told == wpc \in {"acked", "waitClosed", "closed"} => finAcked /\ txAcked = appOffset

InductiveInv == Typed /\ Writer /\ Queued /\ Outstanding /\ Kept /\ Told

-----------------------------------------------------------------------------
(* Numbers.                                                                  *)

LEMMA MinOf ==
  ASSUME NEW S, S \subseteq Nat, S # {}
  PROVE  Min(S) \in S /\ \A n \in S : Min(S) <= n
<1> DEFINE R == OpToRel(<, Nat)
<1>1. \A x, y \in Nat : <<x, y>> \in R <=> x < y
  BY DEF OpToRel
<1>2. IsWellFoundedOn(R, Nat)
  BY NatLessThanWellFounded
<1> HIDE DEF R
<1>3. PICK n \in S : \A m \in S : <<m, n>> \notin R
  BY <1>2, WFMin
<1>4. \A m \in S : ~(m < n)
  BY <1>1, <1>3, Zenon
<1>5. n \in Nat /\ \A m \in S : m \in Nat
  OBVIOUS
<1>6. \E x \in S : \A y \in S : x <= y
  BY <1>4, <1>5
<1> QED
  BY <1>6 DEF Min

LEMMA MaxOf ==
  ASSUME NEW a \in Nat, NEW b \in Nat
  PROVE  Max({a, b}) \in Nat /\ a <= Max({a, b}) /\ b <= Max({a, b})
<1>1. \E x \in {a, b} : \A y \in {a, b} : x >= y
  OBVIOUS
<1>2. Max({a, b}) \in {a, b} /\ \A y \in {a, b} : Max({a, b}) >= y
  BY <1>1 DEF Max
<1> QED
  BY <1>2

LEMMA Constants ==
  ASSUME WriteAssumption
  PROVE  /\ MaxWrite \in Nat \ {0} /\ HighWatermark \in Nat /\ LowWatermark \in Nat
         /\ Bound \in Nat /\ HighWatermark <= Bound /\ LowWatermark + MaxWrite <= Bound
<1>1. MaxWrite \in Nat \ {0} /\ HighWatermark \in Nat
  BY DEF WriteAssumption
<1>2. LowWatermark \in Nat
  <2>1. HighWatermark \div 2 \in Nat
    BY <1>1
  <2> QED
    BY <2>1, MaxOf DEF LowWatermark
<1>3. LowWatermark + MaxWrite \in Nat
  BY <1>1, <1>2
<1> QED
  BY <1>1, <1>2, <1>3, MaxOf DEF Bound

\* What ngtcp2 reports acknowledged is where the first gap is.
LEMMA GapFound ==
  ASSUME NEW F, F \subseteq Frame, txSubmitted \in Nat,
         \A frame \in F : HasData(frame) => frame.from <= txSubmitted
  PROVE  /\ AckedWithoutGap(F) \in Nat /\ AckedWithoutGap(F) <= txSubmitted
         /\ FirstGap(F, txSubmitted, AckedWithoutGap(F))
<1> DEFINE gaps == {f.from : f \in {g \in F : g.from < g.to}}
<1>1. \A frame \in F : HasData(frame) => frame.from \in gaps
  BY DEF HasData
<1>2. \A n \in gaps : \E frame \in F : HasData(frame) /\ n = frame.from
  BY DEF HasData
<1>3. AckedWithoutGap(F) = IF gaps = {} THEN txSubmitted ELSE Min(gaps)
  BY DEF AckedWithoutGap
<1>4. gaps \subseteq Nat
  BY <1>2 DEF Frame
<1> HIDE DEF gaps
<1>5. CASE gaps = {}
  BY <1>1, <1>3, <1>5 DEF FirstGap
<1>6. CASE gaps # {}
  <2>1. Min(gaps) \in gaps /\ \A n \in gaps : Min(gaps) <= n
    BY <1>4, <1>6, MinOf
  <2>2. PICK frame \in F : HasData(frame) /\ Min(gaps) = frame.from
    BY <1>2, <2>1
  <2> QED
    BY <1>1, <1>3, <1>4, <1>6, <2>1, <2>2 DEF FirstGap
<1> QED
  BY <1>5, <1>6

LEMMA Initially == WriteAssumption /\ Init => InductiveInv
<1> SUFFICES ASSUME WriteAssumption, Init PROVE InductiveInv
  OBVIOUS
<1>1. /\ wpc = "idle" /\ writing = [size |-> 0, fin |-> FALSE] /\ buffered = 0
      /\ appOffset = 0 /\ appFin = FALSE /\ operations = <<>> /\ chunks = <<>>
      /\ txNext = 0 /\ txSubmitted = 0 /\ txAcked = 0 /\ pubAcked = 0
      /\ finRequested = FALSE /\ finSubmitted = FALSE /\ finAcked = FALSE /\ stopped = FALSE
      /\ pubFinAcked = FALSE /\ frames = {}
  BY DEF Init
<1>2. Typed
  <2>1. writing \in [size : 0..MaxWrite, fin : BOOLEAN]
    BY <1>1, Constants
  <2>2. operations \in Seq(Operation) /\ chunks \in Seq(Chunk)
    BY <1>1
  <2> QED
    BY <1>1, <2>1, <2>2 DEF Typed, Before
<1>3. Writer
  BY <1>1, Constants DEF Writer, Before, Ending
<1>4. Queued
  <2>1. ~HasEnd(operations) /\ EndIsLast(operations)
    BY <1>1 DEF HasEnd, EndIsLast
  <2>2. Fits(operations, txNext, 0, appOffset)
    BY <1>1, FitsNothing
  <2> QED
    BY <1>1, <2>1, <2>2 DEF Queued
<1>5. Outstanding
  BY <1>1 DEF Outstanding, FirstGap
<1>6. Kept
  BY <1>1 DEF Kept
<1>7. Told
  BY <1>1 DEF Told
<1> QED
  BY <1>2, <1>3, <1>4, <1>5, <1>6, <1>7 DEF InductiveInv

-----------------------------------------------------------------------------
(* The writer's steps.                                                       *)

\* A step of the writer that neither counts nor queues.
LEMMA WriterMoves ==
  ASSUME InductiveInv,
         UNCHANGED <<appOffset, appFin, operations, offsetVars, finVars, stopped, pubVars,
                     externalVars>>,
         wpc # "queue",
         wpc' \in Before \cup Ending \cup Over,
         writing' \in [size : 0..MaxWrite, fin : BOOLEAN],
         buffered' \in Nat,
         wpc' \in Before => ~appFin,
         wpc' \in Ending => appFin,
         wpc' = "count" => appOffset + writing'.size <= txAcked + Bound,
         wpc' \in {"acked", "waitClosed", "closed"} => finAcked /\ txAcked = appOffset
  PROVE  InductiveInv'
<1>1. wpc' # "queue"
  BY DEF Before, Ending, Over
<1>2. UNCHANGED <<chunks, txNext, txSubmitted, txAcked, finRequested, finSubmitted, finAcked,
                  pubAcked, pubFinAcked, frames>>
  BY DEF offsetVars, finVars, pubVars, externalVars
<1>3. Typed'
  BY <1>2 DEF InductiveInv, Typed
<1>4. Writer'
  BY <1>1, <1>2 DEF InductiveInv, Writer
<1>5. Queued'
  BY <1>1, <1>2 DEF InductiveInv, Queued
<1>6. Outstanding'
  BY <1>2 DEF InductiveInv, Outstanding
<1>7. Kept'
  BY <1>2 DEF InductiveInv, Kept, Holds
<1>8. Told'
  BY <1>2 DEF Told
<1> QED
  BY <1>3, <1>4, <1>5, <1>6, <1>7, <1>8 DEF InductiveInv

LEMMA BeginKeeps ==
  ASSUME WriteAssumption, InductiveInv, BeginWrite \/ BeginFinish
  PROVE  InductiveInv'
<1>1. /\ UNCHANGED <<appOffset, appFin, operations, offsetVars, finVars, stopped, pubVars,
                     externalVars, buffered>>
      /\ wpc = "idle" /\ wpc' \in {"measure", "count"}
      /\ wpc' = "count" => writing'.size = 0
  BY DEF BeginWrite, BeginFinish, Goto
<1>2. writing' \in [size : 0..MaxWrite, fin : BOOLEAN]
  <2>1. CASE BeginWrite
    <3>1. PICK size \in 1..MaxWrite, fin \in BOOLEAN : writing' = [size |-> size, fin |-> fin]
      BY <2>1 DEF BeginWrite
    <3>2. size \in 0..MaxWrite
      BY Constants
    <3> QED
      BY <3>1, <3>2
  <2>2. CASE BeginFinish
    <3>1. writing' = [size |-> 0, fin |-> TRUE] /\ 0 \in 0..MaxWrite
      BY <2>2, Constants DEF BeginFinish
    <3> QED
      BY <3>1
  <2> QED
    BY <2>1, <2>2
<1>3. wpc # "queue" /\ wpc' \in Before \cup Ending \cup Over /\ ~appFin /\ wpc' \notin Ending
  BY <1>1 DEF Before, Ending, Over, InductiveInv, Writer
<1>4. wpc' = "count" => appOffset + writing'.size <= txAcked + Bound
  BY <1>1 DEF InductiveInv, Writer, Typed
<1>5. buffered' \in Nat /\ wpc' \notin {"acked", "waitClosed", "closed"}
  BY <1>1 DEF InductiveInv, Typed
<1> QED
  BY <1>1, <1>2, <1>3, <1>4, <1>5, WriterMoves

LEMMA MeasureKeeps ==
  ASSUME WriteAssumption, InductiveInv, Measure
  PROVE  InductiveInv'
<1>1. /\ UNCHANGED <<appOffset, appFin, operations, offsetVars, finVars, stopped, pubVars,
                     externalVars, writing>>
      /\ wpc \in {"measure", "remeasure"} /\ wpc' \in {"count", "wait"}
      /\ buffered' = BufferedWriteBytes
      /\ wpc' = "count" => \/ HasCapacity(BufferedWriteBytes, writing.size)
                           \/ BufferedWriteBytes <= LowWatermark
  BY DEF Measure, Goto
<1>2. /\ appOffset \in Nat /\ pubAcked \in Nat /\ txAcked \in Nat /\ pubAcked <= txAcked
      /\ writing.size \in 0..MaxWrite
  BY DEF InductiveInv, Typed, Writer
<1>3. BufferedWriteBytes \in Nat /\ appOffset <= txAcked + BufferedWriteBytes
  BY <1>2 DEF BufferedWriteBytes
<1>4. wpc' = "count" => appOffset + writing.size <= txAcked + Bound
  <2> SUFFICES ASSUME wpc' = "count" PROVE appOffset + writing.size <= txAcked + Bound
    OBVIOUS
  <2>1. \/ BufferedWriteBytes = 0
        \/ BufferedWriteBytes + writing.size <= HighWatermark
        \/ BufferedWriteBytes <= LowWatermark
    BY <1>1 DEF HasCapacity
  <2>2. BufferedWriteBytes + writing.size <= Bound
    BY <1>2, <1>3, <2>1, Constants
  <2> QED
    BY <1>2, <1>3, <2>2, Constants
<1>5. wpc # "queue" /\ wpc' \in Before \cup Ending \cup Over /\ ~appFin /\ wpc' \notin Ending
  BY <1>1 DEF Before, Ending, Over, InductiveInv, Writer
<1>6. /\ writing' \in [size : 0..MaxWrite, fin : BOOLEAN] /\ buffered' \in Nat
      /\ wpc' \notin {"acked", "waitClosed", "closed"}
      /\ wpc' = "count" => appOffset + writing'.size <= txAcked + Bound
  BY <1>1, <1>3, <1>4 DEF InductiveInv, Typed
<1> QED
  BY <1>1, <1>5, <1>6, WriterMoves

\* What the published offsets tell the writer.
LEMMA AcknowledgedIsTrue ==
  ASSUME InductiveInv, appFin, WriteAcknowledged
  PROVE  finAcked /\ txAcked = appOffset
<1>1. finAcked /\ pubAcked = appOffset /\ pubAcked <= txAcked /\ txAcked = txNext /\ txNext <= appOffset
  BY DEF InductiveInv, Outstanding, Queued, Writer, WriteAcknowledged
<1>2. pubAcked \in Nat /\ txAcked \in Nat /\ txNext \in Nat /\ appOffset \in Nat
  BY DEF InductiveInv, Typed
<1> QED
  BY <1>1, <1>2

LEMMA WaitingKeeps ==
  ASSUME WriteAssumption, InductiveInv,
         \/ Wait("wait", "remeasure") \/ Wait("waitAcked", "askAcked") \/ Wait("waitClosed", "acked")
         \/ AskAcked \/ AskClosed \/ TimeOut
  PROVE  InductiveInv'
<1>1. /\ UNCHANGED <<appOffset, appFin, operations, offsetVars, finVars, stopped, pubVars,
                     externalVars, writing, buffered>>
      /\ \/ wpc = "wait" /\ wpc' \in {"failed", "remeasure", "timedOut"}
         \/ wpc = "waitAcked" /\ wpc' \in {"failed", "askAcked", "timedOut"}
         \/ wpc = "waitClosed" /\ wpc' \in {"failed", "acked", "timedOut", "closed"}
         \/ wpc = "askAcked" /\ wpc' = "waitAcked"
         \/ wpc = "acked" /\ wpc' \in {"closed", "waitClosed"}
         \/ wpc \in {"askAcked", "waitAcked"} /\ wpc' = "acked" /\ WriteAcknowledged
  BY DEF Wait, AskAcked, AskClosed, TimeOut, Goto
<1>2. /\ wpc # "queue" /\ wpc' \in Before \cup Ending \cup Over
      /\ wpc' \in Before => wpc \in Before
      /\ wpc' \in Ending => wpc \in Ending
      /\ wpc' # "count"
  BY <1>1 DEF Before, Ending, Over
<1>3. wpc' \in {"acked", "waitClosed", "closed"} =>
        \/ wpc \in {"acked", "waitClosed", "closed"}
        \/ wpc \in Ending /\ WriteAcknowledged
  BY <1>1 DEF Ending
<1>4. wpc' \in {"acked", "waitClosed", "closed"} => finAcked /\ txAcked = appOffset
  BY <1>3, AcknowledgedIsTrue DEF InductiveInv, Told, Writer
<1>5. (wpc' \in Before => ~appFin) /\ (wpc' \in Ending => appFin)
  BY <1>2 DEF InductiveInv, Writer
<1>6. writing' \in [size : 0..MaxWrite, fin : BOOLEAN] /\ buffered' \in Nat
  BY <1>1 DEF InductiveInv, Typed
<1> QED
  BY <1>1, <1>2, <1>4, <1>5, <1>6, WriterMoves

LEMMA CountWriteKeeps ==
  ASSUME WriteAssumption, InductiveInv, CountWrite
  PROVE  InductiveInv'
<1>1. /\ UNCHANGED <<operations, offsetVars, finVars, stopped, pubVars, externalVars, writing, buffered>>
      /\ wpc = "count"
  BY DEF CountWrite
<1>2. CASE stopped
  <2>1. UNCHANGED <<appOffset, appFin>> /\ wpc' = "failed"
    BY <1>2 DEF CountWrite, Goto
  <2>2. /\ wpc' \in Before \cup Ending \cup Over /\ wpc' \notin Before /\ wpc' \notin Ending
        /\ writing' \in [size : 0..MaxWrite, fin : BOOLEAN] /\ buffered' \in Nat
    BY <1>1, <2>1 DEF Before, Ending, Over, InductiveInv, Typed
  <2> QED
    BY <1>1, <2>1, <2>2, WriterMoves
<1>3. CASE ~stopped
  <2>1. wpc' = "queue" /\ appOffset' = appOffset + writing.size /\ appFin' = writing.fin
    BY <1>3 DEF CountWrite, Goto
  <2>2. UNCHANGED <<chunks, txNext, txSubmitted, txAcked, finRequested, finSubmitted, finAcked,
                    pubAcked, pubFinAcked, frames, operations, stopped, writing, buffered>>
    BY <1>1 DEF offsetVars, finVars, pubVars, externalVars
  <2>3. /\ writing.size \in Nat /\ writing.fin \in BOOLEAN /\ appOffset \in Nat /\ txNext \in Nat
        /\ operations \in Seq(Operation)
    BY Constants DEF InductiveInv, Typed
  <2>4. ~appFin /\ ~HasEnd(operations) /\ ~finRequested /\ txNext <= appOffset
    BY <1>1 DEF InductiveInv, Writer, Queued, Before
  <2>5. Typed'
    <3>1. appOffset' \in Nat /\ appFin' \in BOOLEAN
      BY <2>1, <2>3
    <3> QED
      BY <2>1, <2>2, <3>1 DEF InductiveInv, Typed
  <2>6. Writer'
    BY <1>1, <2>1, <2>2 DEF InductiveInv, Writer, Before, Ending
  <2>7. Queued'
    <3>1. Fits(operations, txNext, 0, appOffset)
      BY <1>1, <1>3 DEF InductiveInv, Queued
    <3>2. Fits(operations, txNext, writing.size, appOffset + writing.size)
      BY <2>3, <2>4, <3>1, FitsMore
    <3>3. txNext <= appOffset + writing.size
      BY <2>3, <2>4
    <3> QED
      BY <1>3, <2>1, <2>2, <2>4, <3>2, <3>3 DEF InductiveInv, Queued
  <2>8. Outstanding'
    BY <2>2 DEF InductiveInv, Outstanding
  <2>9. Kept'
    BY <2>2 DEF InductiveInv, Kept, Holds
  <2>10. Told'
    BY <2>1 DEF Told
  <2> QED
    BY <2>5, <2>6, <2>7, <2>8, <2>9, <2>10 DEF InductiveInv
<1> QED
  BY <1>2, <1>3

LEMMA QueueWriteKeeps ==
  ASSUME WriteAssumption, InductiveInv, QueueWrite
  PROVE  InductiveInv'
<1>1. /\ wpc = "queue" /\ wpc' = IF appFin THEN "askAcked" ELSE "idle"
      /\ operations' = IF stopped THEN operations ELSE Append(operations, Send(writing))
  BY DEF QueueWrite, Goto
<1>2. UNCHANGED <<chunks, txNext, txSubmitted, txAcked, finRequested, finSubmitted, finAcked,
                  pubAcked, pubFinAcked, frames, stopped, writing, buffered, appOffset, appFin>>
  BY DEF QueueWrite, offsetVars, finVars, pubVars, externalVars
<1>3. /\ writing \in [size : 0..MaxWrite, fin : BOOLEAN] /\ appFin = writing.fin
      /\ appOffset \in Nat /\ txNext \in Nat /\ operations \in Seq(Operation)
      /\ ~HasEnd(operations) /\ ~finRequested
  BY <1>1 DEF InductiveInv, Typed, Writer, Queued
<1>4. /\ Send(writing) \in Operation /\ IsSend(Send(writing))
      /\ Bytes(Send(writing)) = writing.size /\ (Ends(Send(writing)) <=> appFin)
      /\ writing.size \in Nat
  BY <1>3, Constants DEF Send, Operation, IsSend, Bytes, Ends
<1>5. /\ operations' \in Seq(Operation) /\ EndIsLast(operations')
      /\ HasEnd(operations') => appFin
      /\ stopped => operations' = operations
  <2>1. EndIsLast(operations)
    BY DEF InductiveInv, Queued
  <2> QED
    BY <1>1, <1>3, <1>4, <2>1, AppendParts, AppendOrder
<1>6. ~stopped => Fits(operations', txNext, 0, appOffset)
  <2> SUFFICES ASSUME ~stopped PROVE Fits(operations', txNext, 0, appOffset)
    OBVIOUS
  <2>1. Fits(operations, txNext, writing.size, appOffset)
    BY <1>1 DEF InductiveInv, Queued
  <2>2. writing.size <= writing.size /\ writing.size - writing.size = 0
    BY <1>4
  <2>3. Fits(Append(operations, Send(writing)), txNext, writing.size - Bytes(Send(writing)), appOffset)
    BY <1>3, <1>4, <2>1, <2>2, FitsAppend
  <2> QED
    BY <1>1, <1>4, <2>2, <2>3
<1>7. Typed'
  BY <1>1, <1>2, <1>5 DEF InductiveInv, Typed, Before, Ending
<1>8. Writer'
  BY <1>1, <1>2 DEF InductiveInv, Writer, Before, Ending
<1>9. Queued'
  BY <1>1, <1>2, <1>3, <1>5, <1>6 DEF InductiveInv, Queued
<1>10. Outstanding'
  BY <1>2 DEF InductiveInv, Outstanding
<1>11. Kept'
  BY <1>2 DEF InductiveInv, Kept, Holds
<1>12. Told'
  BY <1>1 DEF Told
<1> QED
  BY <1>7, <1>8, <1>9, <1>10, <1>11, <1>12 DEF InductiveInv

-----------------------------------------------------------------------------
(* The Worker's steps.                                                       *)

\* A flush leaves the writes in the queue as they are.
LEMMA FlushQueued ==
  ASSUME WriteAssumption, NEW queue \in Seq(Operation), QueueSendFlush(queue)
  PROVE  /\ operations' \in Seq(Operation)
         /\ HasSend(operations') <=> HasSend(queue)
         /\ HasEnd(operations') <=> HasEnd(queue)
         /\ EndIsLast(queue) => EndIsLast(operations')
         /\ \A start, rest, total \in Nat :
              Fits(queue, start, rest, total) => Fits(operations', start, rest, total)
<1>1. CASE sendPending
  BY <1>1 DEF QueueSendFlush
<1>2. CASE ~sendPending
  <2>1. operations' = Append(queue, Flush)
    BY <1>2 DEF QueueSendFlush
  <2>2. Flush \in Operation /\ ~IsSend(Flush) /\ ~Ends(Flush) /\ Bytes(Flush) = 0
    BY Constants DEF Flush, Operation, IsSend, Ends, Bytes
  <2>3. ASSUME NEW start \in Nat, NEW rest \in Nat, NEW total \in Nat, Fits(queue, start, rest, total)
        PROVE  Fits(operations', start, rest, total)
    <3>1. Bytes(Flush) <= rest /\ rest - Bytes(Flush) = rest
      BY <2>2
    <3>2. Fits(Append(queue, Flush), start, rest - Bytes(Flush), total)
      BY <2>2, <2>3, <3>1, FitsAppend
    <3> QED
      BY <2>1, <3>1, <3>2
  <2>4. /\ operations' \in Seq(Operation)
        /\ HasSend(operations') <=> HasSend(queue)
        /\ HasEnd(operations') <=> HasEnd(queue)
        /\ EndIsLast(queue) => EndIsLast(operations')
    BY <2>1, <2>2, AppendParts, AppendOrder
  <2> QED
    BY <2>3, <2>4
<1> QED
  BY <1>1, <1>2

\* A step that leaves the writer alone, the end of the stream and what is in
\* front of the queue, and queues a flush.
LEMMA QueuedByFlush ==
  ASSUME WriteAssumption, InductiveInv, ~stopped, QueueSendFlush(operations),
         UNCHANGED <<wpc, writing, appOffset, appFin, txNext, finRequested, stopped>>
  PROVE  operations' \in Seq(Operation) /\ Queued'
<1>1. operations \in Seq(Operation)
  BY DEF InductiveInv, Typed
<1>2. /\ operations' \in Seq(Operation)
      /\ HasSend(operations') <=> HasSend(operations)
      /\ HasEnd(operations') <=> HasEnd(operations)
      /\ EndIsLast(operations) => EndIsLast(operations')
      /\ \A start, rest, total \in Nat :
           Fits(operations, start, rest, total) => Fits(operations', start, rest, total)
  BY <1>1, FlushQueued
<1>3. txNext \in Nat /\ appOffset \in Nat /\ (IF wpc = "queue" THEN writing.size ELSE 0) \in Nat
  BY Constants DEF InductiveInv, Typed
<1>4. Fits(operations, txNext, IF wpc = "queue" THEN writing.size ELSE 0, appOffset)
  BY DEF InductiveInv, Queued
<1>5. Fits(operations', txNext, IF wpc = "queue" THEN writing.size ELSE 0, appOffset)
  BY <1>2, <1>3, <1>4
<1> QED
  BY <1>2, <1>5 DEF InductiveInv, Queued

LEMMA ProcessSendKeeps ==
  ASSUME WriteAssumption, InductiveInv, ProcessSend
  PROVE  InductiveInv'
<1> DEFINE op == Head(operations)
           less == Tail(operations)
           inProgress == IF wpc = "queue" THEN writing.size ELSE 0
<1>1. /\ operations # <<>> /\ IsSend(op) /\ ~finRequested
      /\ chunks' = IF op.size = 0 THEN chunks
                   ELSE Append(chunks, [offset |-> txNext, size |-> op.size, submitted |-> 0])
      /\ txNext' = txNext + op.size /\ finRequested' = op.fin
      /\ QueueSendFlush(less)
      /\ pubAcked' = txAcked /\ pubFinAcked' = finAcked
  BY DEF ProcessSend, Begin, Publish, IsSend
<1>2. UNCHANGED <<wpc, writing, buffered, appOffset, appFin, txSubmitted, txAcked, finSubmitted,
                  finAcked, stopped, frames>>
  BY DEF ProcessSend, writerVars, externalVars
<1>3. /\ operations \in Seq(Operation) /\ txNext \in Nat /\ appOffset \in Nat /\ txAcked \in Nat
      /\ txSubmitted \in Nat /\ chunks \in Seq(Chunk) /\ inProgress \in Nat /\ finAcked \in BOOLEAN
  BY Constants DEF InductiveInv, Typed
<1>4. op \in Operation /\ less \in Seq(Operation)
  BY <1>1, <1>3, TailParts
<1>5. op.size \in 0..MaxWrite /\ op.size \in Nat /\ op.fin \in BOOLEAN /\ Bytes(op) = op.size
  BY <1>1, <1>4, Constants DEF Operation, Bytes
<1>6. ~stopped
  BY <1>1 DEF InductiveInv, Queued
<1> HIDE DEF op, less, inProgress
<1>7. /\ operations' \in Seq(Operation)
      /\ HasSend(operations') <=> HasSend(less)
      /\ HasEnd(operations') <=> HasEnd(less)
      /\ EndIsLast(less) => EndIsLast(operations')
      /\ \A start, rest, total \in Nat :
           Fits(less, start, rest, total) => Fits(operations', start, rest, total)
  BY <1>1, <1>4, FlushQueued
<1>8. /\ Fits(less, txNext + Bytes(op), inProgress, appOffset)
      /\ txNext + Bytes(op) <= appOffset
      /\ Ends(op) => txNext + Bytes(op) = appOffset
  <2>1. Fits(operations, txNext, inProgress, appOffset)
    BY <1>6 DEF InductiveInv, Queued, inProgress
  <2> QED
    BY <1>1, <1>3, <2>1, FitsTail DEF op, less
<1>9. txNext' \in Nat /\ txNext' = txNext + Bytes(op) /\ txNext <= txNext'
  BY <1>1, <1>3, <1>5
<1>10. Typed'
  <2>1. chunks' \in Seq(Chunk)
    <3>1. op.size # 0 => [offset |-> txNext, size |-> op.size, submitted |-> 0] \in Chunk
      BY <1>3, <1>5, Constants DEF Chunk
    <3> QED
      BY <1>1, <1>3, <3>1
  <2> QED
    BY <1>1, <1>2, <1>3, <1>5, <1>7, <1>9, <2>1 DEF InductiveInv, Typed
<1>11. Writer'
  BY <1>1, <1>2, <1>3 DEF InductiveInv, Writer
<1>12. Queued'
  <2>1. /\ HasEnd(less) => HasEnd(operations)
        /\ Ends(op) => HasEnd(operations)
        /\ EndIsLast(operations) => EndIsLast(less)
        /\ EndIsLast(operations) /\ Ends(op) => ~HasSend(less)
    BY <1>1, <1>3, TailOrder DEF op, less
  <2>2. /\ EndIsLast(operations)
        /\ HasEnd(operations) => appFin /\ wpc # "queue"
    BY DEF InductiveInv, Queued
  <2>3. Fits(operations', txNext', inProgress, appOffset)
    BY <1>3, <1>7, <1>8, <1>9
  <2>4. finRequested' => Ends(op)
    BY <1>1 DEF Ends
  <2>5. finRequested' => appFin /\ wpc # "queue" /\ txNext' = appOffset /\ ~HasSend(operations')
    BY <1>7, <1>8, <1>9, <2>1, <2>2, <2>4
  <2>6. EndIsLast(operations') /\ (HasEnd(operations') => appFin /\ wpc # "queue")
    BY <1>7, <2>1, <2>2
  <2> QED
    BY <1>2, <1>6, <1>8, <1>9, <2>3, <2>5, <2>6 DEF Queued, inProgress
<1>13. Outstanding'
  <2>1. /\ txSubmitted <= txNext' /\ ~finSubmitted /\ ~finAcked
        /\ \A frame \in frames : ~frame.fin
    <3>1. txSubmitted <= txNext /\ ~finSubmitted
      BY <1>1 DEF InductiveInv, Outstanding
    <3> QED
      BY <1>3, <1>9, <3>1 DEF InductiveInv, Outstanding
  <2> QED
    BY <1>1, <1>2, <2>1 DEF InductiveInv, Outstanding
<1>14. Kept'
  <2>1. CASE op.size = 0
    <3>1. chunks' = chunks /\ txNext' = txNext
      BY <1>1, <1>3, <2>1
    <3> QED
      BY <1>2, <3>1 DEF InductiveInv, Kept, Holds
  <2>2. CASE op.size # 0
    <3> DEFINE new == [offset |-> txNext, size |-> op.size, submitted |-> 0]
               last == Len(chunks) + 1
    <3>1. chunks' = Append(chunks, new)
      BY <1>1, <2>2
    <3>2. /\ Len(chunks) \in Nat /\ DOMAIN chunks = 1..Len(chunks) /\ DOMAIN chunks' = 1..last
          /\ \A i \in 1..Len(chunks) : chunks'[i] = chunks[i] /\ i \in 1..last
          /\ chunks'[last] = new /\ last \in 1..last
          /\ \A i \in 1..last : i = last \/ i \in 1..Len(chunks)
      <4>1. new \in Chunk
        BY <1>3, <1>5, <2>2, Constants DEF Chunk
      <4> HIDE DEF new
      <4>2. /\ Len(chunks) \in Nat /\ DOMAIN chunks = 1..Len(chunks) /\ DOMAIN chunks' = 1..last
            /\ \A i \in 1..Len(chunks) : chunks'[i] = chunks[i]
            /\ chunks'[last] = new
        BY <1>3, <3>1, <4>1
      <4>3. \A i \in 1..last : i = last \/ i \in 1..Len(chunks)
        BY <4>2
      <4>4. last \in 1..last /\ \A i \in 1..Len(chunks) : i \in 1..last
        BY <4>2
      <4> QED
        BY <4>2, <4>3, <4>4
    <3>3. new.offset = txNext /\ new.size = op.size /\ new.submitted = 0
      OBVIOUS
    <3> HIDE DEF new, last
    <3>4. ASSUME NEW i \in 1..last
          PROVE  /\ chunks'[i].submitted <= chunks'[i].size
                 /\ chunks'[i].offset + chunks'[i].size <= txNext'
      <4>1. CASE i = last
        BY <1>1, <1>3, <1>5, <3>2, <3>3, <4>1
      <4>2. CASE i \in 1..Len(chunks)
        <5>1. chunks[i] \in Chunk /\ chunks'[i] = chunks[i]
          BY <1>3, <3>2, <4>2, ElementOfSeq
        <5>2. chunks[i].submitted <= chunks[i].size /\ chunks[i].offset + chunks[i].size <= txNext
          BY <3>2, <4>2 DEF InductiveInv, Kept
        <5>3. chunks[i].offset + chunks[i].size \in Nat
          BY <5>1, Constants DEF Chunk
        <5> QED
          BY <1>3, <1>9, <5>1, <5>2, <5>3
      <4> QED
        BY <3>2, <4>1, <4>2
    <3>5. ASSUME NEW byte \in txAcked..(txNext' - 1)
          PROVE  \E i \in 1..last : /\ chunks'[i].offset <= byte
                                    /\ byte < chunks'[i].offset + chunks'[i].size
      <4>1. CASE byte < txNext
        <5>1. byte \in txAcked..(txNext - 1)
          BY <1>3, <4>1
        <5>2. PICK i \in 1..Len(chunks) : Holds(i, byte)
          BY <3>2, <5>1 DEF InductiveInv, Kept
        <5> QED
          BY <3>2, <5>2 DEF Holds
      <4>2. CASE byte >= txNext
        <5>1. txNext <= byte /\ byte < txNext + op.size
          BY <1>1, <1>3, <1>5, <4>2
        <5> QED
          BY <3>2, <3>3, <5>1
      <4> QED
        BY <1>3, <4>1, <4>2
    <3> QED
      BY <1>2, <3>2, <3>4, <3>5 DEF Kept, Holds
  <2> QED
    BY <2>1, <2>2
<1>15. Told'
  <2>1. ~finAcked
    BY <1>1 DEF InductiveInv, Outstanding
  <2> QED
    BY <1>2, <2>1 DEF InductiveInv, Told
<1> QED
  BY <1>10, <1>11, <1>12, <1>13, <1>14, <1>15 DEF InductiveInv

\* A flush is taken from the queue, and perhaps queued again.
LEMMA FlushTaken ==
  ASSUME WriteAssumption, InductiveInv, Begin("FlushSend"),
         operations' \in {Tail(operations), Append(Tail(operations), Flush)},
         UNCHANGED <<wpc, writing, appOffset, appFin, txNext, finRequested, stopped>>
  PROVE  operations' \in Seq(Operation) /\ Queued'
<1> DEFINE less == Tail(operations)
           inProgress == IF wpc = "queue" THEN writing.size ELSE 0
<1>1. /\ operations \in Seq(Operation) /\ operations # <<>> /\ txNext \in Nat /\ appOffset \in Nat
      /\ inProgress \in Nat
  BY Constants DEF InductiveInv, Typed, Begin
<1>2. ~stopped
  BY <1>1 DEF InductiveInv, Queued
<1>3. less \in Seq(Operation) /\ ~IsSend(Head(operations)) /\ Bytes(Head(operations)) = 0
  BY <1>1, TailParts DEF Begin, IsSend, Bytes
<1> HIDE DEF less, inProgress
<1>4. /\ HasSend(less) => HasSend(operations)
      /\ HasEnd(less) => HasEnd(operations)
      /\ EndIsLast(less)
  <2>1. EndIsLast(operations)
    BY DEF InductiveInv, Queued
  <2> QED
    BY <1>1, <2>1, TailOrder DEF less
<1>5. Fits(less, txNext, inProgress, appOffset)
  <2>1. Fits(operations, txNext, inProgress, appOffset)
    BY <1>2 DEF InductiveInv, Queued, inProgress
  <2>2. Fits(less, txNext + Bytes(Head(operations)), inProgress, appOffset)
    BY <1>1, <2>1, FitsTail DEF less
  <2>3. txNext + Bytes(Head(operations)) = txNext
    BY <1>1, <1>3
  <2> QED
    BY <2>2, <2>3
<1>6. /\ operations' \in Seq(Operation)
      /\ HasSend(operations') => HasSend(less)
      /\ HasEnd(operations') => HasEnd(less)
      /\ EndIsLast(operations')
      /\ Fits(operations', txNext, inProgress, appOffset)
  <2>1. CASE operations' = less
    BY <1>3, <1>4, <1>5, <2>1
  <2>2. CASE operations' = Append(less, Flush)
    <3>1. Flush \in Operation /\ ~IsSend(Flush) /\ ~Ends(Flush) /\ Bytes(Flush) = 0
      BY Constants DEF Flush, Operation, IsSend, Ends, Bytes
    <3>2. Bytes(Flush) <= inProgress /\ inProgress - Bytes(Flush) = inProgress
      BY <1>1, <3>1
    <3>3. Fits(operations', txNext, inProgress - Bytes(Flush), appOffset)
      BY <1>1, <1>3, <1>5, <2>2, <3>1, <3>2, FitsAppend
    <3> QED
      BY <1>3, <1>4, <2>2, <3>1, <3>2, <3>3, AppendParts, AppendOrder
  <2> QED
    BY <2>1, <2>2 DEF less
<1>7. /\ HasEnd(operations) => appFin /\ wpc # "queue"
      /\ txNext <= appOffset
      /\ finRequested => appFin /\ wpc # "queue" /\ txNext = appOffset /\ ~HasSend(operations)
  BY DEF InductiveInv, Queued
<1> QED
  BY <1>2, <1>4, <1>6, <1>7 DEF Queued, inProgress

\* What a step that leaves the writer and what it reads alone keeps of it.
LEMMA WriterKept ==
  ASSUME InductiveInv, UNCHANGED <<wpc, writing, appOffset, appFin, pubAcked, txAcked>>
  PROVE  Writer'
BY DEF InductiveInv, Writer

\* A packet with some of a chunk is written.
LEMMA WriteDataKeeps ==
  ASSUME WriteAssumption, InductiveInv, HasPendingWrite,
         NEW i \in NextTransmitChunk, NEW accepted \in 1..Remaining(i), WriteData(i, accepted),
         operations' \in Seq(Operation), Queued',
         UNCHANGED <<writerVars, txNext, txAcked, finRequested, finAcked, stopped, pubVars>>
  PROVE  InductiveInv'
<1> DEFINE fin == SendingFin(i) /\ accepted = Remaining(i)
           new == [from |-> txSubmitted, to |-> txSubmitted + accepted, fin |-> fin]
<1>1. /\ chunks' = [chunks EXCEPT ![i].submitted = @ + accepted]
      /\ txSubmitted' = txSubmitted + accepted
      /\ finSubmitted' = (finSubmitted \/ fin)
      /\ frames' = frames \cup {new}
  BY DEF WriteData
<1>2. UNCHANGED <<wpc, writing, buffered, appOffset, appFin, pubAcked, pubFinAcked, txNext, txAcked,
                  finRequested, finAcked, stopped>>
  BY DEF writerVars, pubVars
<1>3. /\ i \in 1..Len(chunks) /\ DOMAIN chunks = 1..Len(chunks) /\ Len(chunks) \in Nat
      /\ chunks[i] \in Chunk /\ chunks \in Seq(Chunk)
      /\ chunks[i].offset + chunks[i].submitted = txSubmitted
      /\ chunks[i].submitted <= chunks[i].size
      /\ chunks[i].offset + chunks[i].size <= txNext
  <2>1. chunks \in Seq(Chunk) /\ i \in DOMAIN chunks /\ chunks[i].offset + chunks[i].submitted = txSubmitted
    BY DEF InductiveInv, Typed, NextTransmitChunk
  <2>2. DOMAIN chunks = 1..Len(chunks) /\ Len(chunks) \in Nat /\ chunks[i] \in Chunk
    BY <2>1, LenProperties, ElementOfSeq
  <2> QED
    BY <2>1, <2>2 DEF InductiveInv, Kept
<1>4. /\ chunks[i].offset \in Nat /\ chunks[i].size \in 1..MaxWrite /\ chunks[i].submitted \in 0..MaxWrite
      /\ MaxWrite \in Nat /\ Remaining(i) = chunks[i].size - chunks[i].submitted
  BY <1>3, Constants DEF Chunk, Remaining
<1>5. /\ txSubmitted \in Nat /\ txNext \in Nat /\ txAcked \in Nat /\ frames \subseteq Frame
      /\ finSubmitted \in BOOLEAN /\ fin \in BOOLEAN
  BY DEF InductiveInv, Typed, SendingFin
<1>6. /\ accepted \in Nat \ {0} /\ accepted <= chunks[i].size - chunks[i].submitted
      /\ txSubmitted + accepted <= txNext
      /\ chunks[i].submitted + accepted \in 0..MaxWrite
      /\ chunks[i].submitted + accepted <= chunks[i].size
  <2>1. accepted \in 1..(chunks[i].size - chunks[i].submitted)
    BY <1>4
  <2>2. accepted \in Nat \ {0} /\ accepted <= chunks[i].size - chunks[i].submitted
    BY <1>4, <2>1
  <2>3. chunks[i].submitted + accepted \in 0..MaxWrite /\ chunks[i].submitted + accepted <= chunks[i].size
    BY <1>4, <2>2
  <2>4. txSubmitted + accepted <= chunks[i].offset + chunks[i].size
    BY <1>3, <1>4, <2>2
  <2>5. txSubmitted + accepted <= txNext
    BY <1>3, <1>4, <1>5, <2>2, <2>4
  <2> QED
    BY <2>2, <2>3, <2>5
<1>7. fin => finRequested /\ ~finSubmitted /\ txSubmitted + accepted = txNext
  BY DEF SendingFin
<1>8. ~finSubmitted
  <2>1. finSubmitted => txSubmitted = txNext
    BY DEF InductiveInv, Outstanding
  <2> QED
    BY <1>5, <1>6, <2>1
<1>9. new \in Frame /\ new.from = txSubmitted /\ new.to = txSubmitted + accepted /\ new.fin = fin
  BY <1>5, <1>6 DEF Frame
<1> HIDE DEF new, fin
<1>10. /\ chunks' \in Seq(Chunk) /\ DOMAIN chunks' = 1..Len(chunks)
       /\ \A j \in 1..Len(chunks) :
            /\ chunks'[j].offset = chunks[j].offset /\ chunks'[j].size = chunks[j].size
            /\ j # i => chunks'[j] = chunks[j]
       /\ chunks'[i].submitted = chunks[i].submitted + accepted
  <2> DEFINE moved == [chunks[i] EXCEPT !.submitted = @ + accepted]
  <2>1. /\ moved \in Chunk /\ moved.offset = chunks[i].offset /\ moved.size = chunks[i].size
        /\ moved.submitted = chunks[i].submitted + accepted
    BY <1>3, <1>4, <1>6 DEF Chunk
  <2>2. chunks' = [chunks EXCEPT ![i] = moved]
    BY <1>1
  <2> HIDE DEF moved
  <2>3. chunks' \in Seq(Chunk) /\ DOMAIN chunks' = 1..Len(chunks)
    BY <1>3, <2>1, <2>2
  <2>4. chunks'[i] = moved /\ \A j \in 1..Len(chunks) : j # i => chunks'[j] = chunks[j]
    BY <1>3, <2>2
  <2> QED
    BY <2>1, <2>3, <2>4
<1>11. Typed'
  <2>1. txSubmitted' \in Nat
    BY <1>1, <1>5, <1>6
  <2>2. frames' \subseteq Frame
    BY <1>1, <1>5, <1>9
  <2>3. finSubmitted' \in BOOLEAN
    BY <1>1
  <2> QED
    BY <1>2, <1>10, <2>1, <2>2, <2>3 DEF InductiveInv, Typed
<1>12. Writer'
  BY <1>2, WriterKept
<1>13. Outstanding'
  <2>1. /\ txSubmitted' <= txNext
        /\ \A frame \in frames : /\ frame.from <= frame.to /\ frame.to <= txSubmitted
                                 /\ ~frame.fin /\ HasData(frame)
        /\ txAcked <= txSubmitted /\ ~finAcked /\ ~pubFinAcked
    <3>1. /\ \A frame \in frames : frame.from <= frame.to /\ frame.to <= txSubmitted /\ ~frame.fin
          /\ ~finAcked /\ ~pubFinAcked
      BY <1>8 DEF InductiveInv, Outstanding
    <3>2. \A frame \in frames : HasData(frame)
      BY <3>1 DEF InductiveInv, Outstanding
    <3>3. txAcked <= txSubmitted
      <4>1. FirstGap(frames, txSubmitted, txAcked)
        BY DEF InductiveInv, Outstanding
      <4>2. \A frame \in frames : frame.from \in Nat /\ frame.to \in Nat
        BY <1>5 DEF Frame
      <4> QED
        BY <1>5, <3>1, <4>1, <4>2 DEF FirstGap
    <3> QED
      BY <1>1, <1>6, <3>1, <3>2, <3>3
  <2>2. HasData(new) /\ txAcked <= new.from
    BY <1>5, <1>6, <1>9, <2>1 DEF HasData
  <2>3. FirstGap(frames', txSubmitted', txAcked)
    <3>1. FirstGap(frames, txSubmitted, txAcked)
      BY DEF InductiveInv, Outstanding
    <3>2. CASE txAcked = txSubmitted
      BY <1>1, <1>9, <2>2, <3>1, <3>2 DEF FirstGap
    <3>3. CASE txAcked # txSubmitted
      BY <1>1, <2>2, <3>1, <3>3 DEF FirstGap
    <3> QED
      BY <3>2, <3>3
  <2>4. \A frame \in frames' : frame.from <= frame.to /\ frame.to <= txSubmitted'
    <3>1. new.from <= new.to /\ new.to <= txSubmitted'
      BY <1>1, <1>5, <1>6, <1>9
    <3>2. \A frame \in frames : frame.to <= txSubmitted'
      BY <1>1, <1>5, <1>6, <2>1 DEF Frame
    <3> QED
      BY <1>1, <2>1, <3>1, <3>2
  <2>5. \A frame \in frames' : frame.fin => frame = new /\ fin
    BY <1>1, <1>9, <2>1
  <2>6. fin => finSubmitted' /\ new.to = txNext
    BY <1>1, <1>7, <1>9
  <2>7. \A frame \in frames' : HasData(frame)
    BY <1>1, <2>1, <2>2
  <2>8. finSubmitted' => finRequested /\ txSubmitted' = txNext
    BY <1>1, <1>7, <1>8
  <2> QED
    BY <1>2, <2>1, <2>3, <2>4, <2>5, <2>6, <2>7, <2>8 DEF Outstanding
<1>14. Kept'
  <2>1. \A j \in 1..Len(chunks) : chunks[j].submitted <= chunks[j].size /\ chunks[j].offset + chunks[j].size <= txNext
    BY <1>3 DEF InductiveInv, Kept
  <2>2. \A j \in 1..Len(chunks) : chunks'[j].submitted <= chunks'[j].size
    BY <1>6, <1>10, <2>1
  <2>3. \A byte \in txAcked..(txNext - 1) : \E j \in 1..Len(chunks) : Holds(j, byte)
    BY <1>3 DEF InductiveInv, Kept
  <2> QED
    BY <1>2, <1>10, <2>1, <2>2, <2>3 DEF Kept, Holds
<1>15. Told'
  BY <1>2 DEF InductiveInv, Told
<1> QED
  BY <1>11, <1>12, <1>13, <1>14, <1>15 DEF InductiveInv

\* A packet with nothing but the FIN is written.
LEMMA WriteFinKeeps ==
  ASSUME WriteAssumption, InductiveInv, WriteFin,
         operations' \in Seq(Operation), Queued',
         UNCHANGED <<writerVars, txNext, txAcked, finRequested, finAcked, stopped, pubVars>>
  PROVE  InductiveInv'
<1> DEFINE new == [from |-> txNext, to |-> txNext, fin |-> TRUE]
<1>1. /\ finRequested /\ ~finSubmitted /\ txSubmitted = txNext
      /\ finSubmitted' = TRUE /\ frames' = frames \cup {new}
      /\ chunks' = chunks /\ txSubmitted' = txSubmitted
  BY DEF WriteFin
<1>2. UNCHANGED <<wpc, writing, buffered, appOffset, appFin, pubAcked, pubFinAcked, txNext, txAcked,
                  finRequested, finAcked, stopped>>
  BY DEF writerVars, pubVars
<1>3. txNext \in Nat /\ frames \subseteq Frame
  BY DEF InductiveInv, Typed
<1>4. /\ new \in Frame /\ new.from = txNext /\ new.to = txNext /\ new.fin = TRUE
      /\ ~HasData(new) /\ txNext <= txNext
  BY <1>3 DEF Frame, HasData
<1> HIDE DEF new
<1>5. Typed'
  BY <1>1, <1>2, <1>4 DEF InductiveInv, Typed
<1>6. Writer'
  BY <1>2, WriterKept
<1>7. Outstanding'
  <2>1. /\ \A frame \in frames : ~frame.fin /\ frame.from <= frame.to /\ frame.to <= txSubmitted
        /\ ~finAcked /\ ~pubFinAcked
    BY <1>1 DEF InductiveInv, Outstanding
  <2>2. FirstGap(frames', txSubmitted, txAcked)
    <3>1. FirstGap(frames, txSubmitted, txAcked)
      BY DEF InductiveInv, Outstanding
    <3> QED
      BY <1>1, <1>4, <3>1 DEF FirstGap
  <2>3. \A frame \in frames' : frame.fin => frame = new
    BY <1>1, <2>1
  <2>4. \A frame \in frames' : frame.from <= frame.to /\ frame.to <= txSubmitted
    BY <1>1, <1>4, <2>1
  <2>5. \A frame \in frames' : ~HasData(frame) => frame.fin
    BY <1>1, <1>4 DEF InductiveInv, Outstanding
  <2> QED
    BY <1>1, <1>2, <1>4, <2>1, <2>2, <2>3, <2>4, <2>5 DEF Outstanding
<1>8. Kept'
  BY <1>1, <1>2 DEF InductiveInv, Kept, Holds
<1>9. Told'
  BY <1>2 DEF InductiveInv, Told
<1> QED
  BY <1>5, <1>6, <1>7, <1>8, <1>9 DEF InductiveInv

LEMMA ProcessSendFlushKeeps ==
  ASSUME WriteAssumption, InductiveInv, ProcessSendFlush
  PROVE  InductiveInv'
<1>1. /\ Begin("FlushSend")
      /\ UNCHANGED <<writerVars, txNext, txAcked, finRequested, finAcked, stopped, pubVars>>
  BY DEF ProcessSendFlush
<1>2. operations' \in {Tail(operations), Append(Tail(operations), Flush)}
  BY DEF ProcessSendFlush
<1>3. operations' \in Seq(Operation) /\ Queued'
  BY <1>1, <1>2, FlushTaken DEF writerVars
<1>4. CASE \E i \in NextTransmitChunk : \E n \in 1..Remaining(i) : HasPendingWrite /\ WriteData(i, n)
  BY <1>1, <1>3, <1>4, WriteDataKeeps
<1>5. CASE WriteFin
  BY <1>1, <1>3, <1>5, WriteFinKeeps
<1>6. CASE UNCHANGED <<chunks, txSubmitted, finSubmitted, frames>>
  <2>1. UNCHANGED <<wpc, writing, buffered, appOffset, appFin, pubAcked, pubFinAcked, txNext, txAcked,
                    finRequested, finAcked, stopped, chunks, txSubmitted, finSubmitted, frames>>
    BY <1>1, <1>6 DEF writerVars, pubVars
  <2>2. Typed'
    BY <1>3, <2>1 DEF InductiveInv, Typed
  <2>3. Writer'
    BY <2>1, WriterKept
  <2>4. Outstanding'
    BY <2>1 DEF InductiveInv, Outstanding
  <2>5. Kept'
    BY <2>1 DEF InductiveInv, Kept, Holds
  <2>6. Told'
    BY <2>1 DEF InductiveInv, Told
  <2> QED
    BY <1>3, <2>2, <2>3, <2>4, <2>5, <2>6 DEF InductiveInv
<1> QED
  BY <1>4, <1>5, <1>6 DEF ProcessSendFlush

\* The connection stops: what is queued goes, or what is published.
LEMMA StopKeeps ==
  ASSUME WriteAssumption, InductiveInv, Fail \/ PublishStopped
  PROVE  InductiveInv'
<1>1. /\ UNCHANGED <<wpc, writing, buffered, appOffset, appFin, chunks, txNext, txSubmitted, txAcked,
                     finRequested, finSubmitted, finAcked, frames>>
      /\ stopped' = TRUE /\ operations' = <<>>
      /\ pubAcked' = pubAcked \/ pubAcked' = 0
      /\ pubFinAcked' = pubFinAcked \/ pubFinAcked' = FALSE
  BY DEF Fail, Drop, PublishStopped, writerVars, offsetVars, finVars, pubVars, externalVars,
     InductiveInv, Queued
<1>2. operations' \in Seq(Operation) /\ ~HasSend(operations') /\ ~HasEnd(operations')
      /\ EndIsLast(operations')
  BY <1>1 DEF HasSend, HasEnd, EndIsLast
<1>3. Typed'
  <2>1. pubAcked' \in Nat
    BY <1>1 DEF InductiveInv, Typed
  <2>2. pubFinAcked' \in BOOLEAN
    BY <1>1 DEF InductiveInv, Typed
  <2> QED
    BY <1>1, <1>2, <2>1, <2>2 DEF InductiveInv, Typed
<1>4. Writer'
  <2>1. pubAcked' <= txAcked
    BY <1>1 DEF InductiveInv, Writer, Typed
  <2> QED
    BY <1>1, <2>1 DEF InductiveInv, Writer
<1>5. Queued'
  BY <1>1, <1>2 DEF InductiveInv, Queued
<1>6. Outstanding'
  <2>1. pubFinAcked' => finAcked
    BY <1>1 DEF InductiveInv, Outstanding
  <2> QED
    BY <1>1, <2>1 DEF InductiveInv, Outstanding
<1>7. Kept'
  BY <1>1 DEF InductiveInv, Kept, Holds
<1>8. Told'
  BY <1>1 DEF InductiveInv, Told
<1> QED
  BY <1>3, <1>4, <1>5, <1>6, <1>7, <1>8 DEF InductiveInv

-----------------------------------------------------------------------------
(* The network's steps.                                                      *)

LEMMA RaiseCreditKeeps ==
  ASSUME WriteAssumption, InductiveInv, RaiseCredit
  PROVE  InductiveInv'
<1>1. /\ UNCHANGED <<wpc, writing, buffered, appOffset, appFin, chunks, txNext, txSubmitted, txAcked,
                     finRequested, finSubmitted, finAcked, stopped, pubAcked, pubFinAcked, frames>>
      /\ ~stopped /\ QueueSendFlush(operations)
  BY DEF RaiseCredit, writerVars, offsetVars, finVars, pubVars
<1>2. operations' \in Seq(Operation) /\ Queued'
  BY <1>1, QueuedByFlush
<1>3. Typed'
  BY <1>1, <1>2 DEF InductiveInv, Typed
<1>4. Writer'
  BY <1>1, WriterKept
<1>5. Outstanding'
  BY <1>1 DEF InductiveInv, Outstanding
<1>6. Kept'
  BY <1>1 DEF InductiveInv, Kept, Holds
<1>7. Told'
  BY <1>1 DEF InductiveInv, Told
<1> QED
  BY <1>2, <1>3, <1>4, <1>5, <1>6, <1>7 DEF InductiveInv

LEMMA CloseStreamKeeps ==
  ASSUME WriteAssumption, InductiveInv, CloseStream
  PROVE  InductiveInv'
<1>1. /\ UNCHANGED <<wpc, writing, buffered, appOffset, appFin, chunks, txNext, txSubmitted, txAcked,
                     finRequested, finSubmitted, stopped, frames>>
      /\ ~stopped /\ QueueSendFlush(operations) /\ finSubmitted /\ frames = {}
      /\ finAcked' = TRUE /\ pubFinAcked' = TRUE /\ pubAcked' = txAcked
  BY DEF CloseStream, writerVars, offsetVars, externalVars
<1>2. operations' \in Seq(Operation) /\ Queued'
  BY <1>1, QueuedByFlush
<1>3. txAcked \in Nat
  BY DEF InductiveInv, Typed
<1>4. Typed'
  BY <1>1, <1>2, <1>3 DEF InductiveInv, Typed
<1>5. Writer'
  BY <1>1, <1>3 DEF InductiveInv, Writer
<1>6. Outstanding'
  <2>1. txAcked = txNext
    BY <1>1 DEF InductiveInv, Outstanding, FirstGap
  <2> QED
    BY <1>1, <2>1 DEF InductiveInv, Outstanding
<1>7. Kept'
  BY <1>1 DEF InductiveInv, Kept, Holds
<1>8. Told'
  BY <1>1 DEF InductiveInv, Told
<1> QED
  BY <1>2, <1>4, <1>5, <1>6, <1>7, <1>8 DEF InductiveInv

\* A frame that is acknowledged leaves a gap no earlier than before.
LEMMA GapMoves ==
  ASSUME WriteAssumption, InductiveInv, NEW frame \in frames
  PROVE  LET rest == frames \ {frame}
         IN /\ AckedWithoutGap(rest) \in Nat
            /\ txAcked <= AckedWithoutGap(rest) /\ AckedWithoutGap(rest) <= txSubmitted
            /\ FirstGap(rest, txSubmitted, AckedWithoutGap(rest))
<1> DEFINE rest == frames \ {frame}
<1>1. /\ rest \subseteq Frame /\ rest \subseteq frames /\ txSubmitted \in Nat /\ txAcked \in Nat
      /\ frames \subseteq Frame
  BY DEF InductiveInv, Typed
<1>2. \A f \in frames : f.from \in Nat /\ f.to \in Nat /\ f.from <= f.to /\ f.to <= txSubmitted
  BY <1>1 DEF Frame, InductiveInv, Outstanding
<1>3. \A f \in rest : HasData(f) => f.from <= txSubmitted
  BY <1>1, <1>2
<1> HIDE DEF rest
<1>4. /\ AckedWithoutGap(rest) \in Nat /\ AckedWithoutGap(rest) <= txSubmitted
      /\ FirstGap(rest, txSubmitted, AckedWithoutGap(rest))
  BY <1>1, <1>3, GapFound
<1>5. FirstGap(frames, txSubmitted, txAcked)
  BY DEF InductiveInv, Outstanding
<1>6. txAcked <= txSubmitted
  BY <1>1, <1>2, <1>5 DEF FirstGap
<1>7. txAcked <= AckedWithoutGap(rest)
  <2>1. CASE AckedWithoutGap(rest) = txSubmitted
    BY <1>6, <2>1
  <2>2. CASE \E f \in rest : HasData(f) /\ AckedWithoutGap(rest) = f.from
    BY <1>1, <1>5, <2>2 DEF FirstGap
  <2> QED
    BY <1>4, <2>1, <2>2 DEF FirstGap
<1> QED
  BY <1>4, <1>7 DEF rest

\* What holds of the frames holds of those left, if the FIN counts as
\* acknowledged only without any.
LEMMA FewerOutstanding ==
  ASSUME WriteAssumption, InductiveInv, NEW frame \in frames, frames' = frames \ {frame},
         UNCHANGED <<txNext, txSubmitted, finRequested, finSubmitted>>,
         txAcked' = AckedWithoutGap(frames \ {frame}),
         finAcked' => finAcked \/ (finSubmitted /\ frames' = {} /\ txAcked' = txNext),
         pubFinAcked' => finAcked'
  PROVE  Outstanding'
<1>1. ~finAcked
  BY DEF InductiveInv, Outstanding
<1>2. FirstGap(frames', txSubmitted', txAcked')
  BY GapMoves
<1>3. /\ \A f \in frames' : f.from <= f.to /\ f.to <= txSubmitted
      /\ \A f \in frames' : f.fin => finSubmitted /\ f.to = txNext
      /\ \A f \in frames' : ~HasData(f) => f.fin
      /\ \A f, g \in frames' : f.fin /\ g.fin => f = g
  BY DEF InductiveInv, Outstanding
<1>4. txSubmitted <= txNext /\ (finSubmitted => finRequested /\ txSubmitted = txNext)
  BY DEF InductiveInv, Outstanding
<1> QED
  BY <1>1, <1>2, <1>3, <1>4 DEF Outstanding

\* The chunks that are kept hold what is not acknowledged yet.
LEMMA RetainedHolds ==
  ASSUME WriteAssumption, InductiveInv, NEW acked \in Nat, txAcked <= acked,
         chunks' = Retained(acked), txAcked' = acked, txNext' = txNext
  PROVE  chunks' \in Seq(Chunk) /\ Kept'
<1> DEFINE kept == {i \in DOMAIN chunks : chunks[i].offset + chunks[i].size > acked}
           first == Min(kept)
<1>1. /\ chunks \in Seq(Chunk) /\ Len(chunks) \in Nat /\ DOMAIN chunks = 1..Len(chunks)
      /\ \A i \in 1..Len(chunks) : chunks[i] \in Chunk
      /\ txAcked \in Nat /\ txNext \in Nat
  BY LenProperties, ElementOfSeq DEF InductiveInv, Typed
<1>2. /\ \A i \in 1..Len(chunks) : /\ chunks[i].submitted <= chunks[i].size
                                  /\ chunks[i].offset + chunks[i].size <= txNext
      /\ \A byte \in txAcked..(txNext - 1) : \E i \in 1..Len(chunks) : Holds(i, byte)
  BY <1>1 DEF InductiveInv, Kept
<1>3. chunks' = IF kept = {} THEN <<>> ELSE SubSeq(chunks, first, Len(chunks))
  BY DEF Retained
<1>4. kept \subseteq 1..Len(chunks) /\ kept \subseteq Nat
  BY <1>1
<1>5. ASSUME NEW byte \in acked..(txNext - 1)
      PROVE  \E i \in kept : Holds(i, byte)
  <2> HIDE DEF kept
  <2>1. byte \in txAcked..(txNext - 1) /\ acked <= byte /\ byte \in Nat
    BY <1>1
  <2>2. PICK i \in 1..Len(chunks) : Holds(i, byte)
    BY <1>2, <2>1, Zenon
  <2>3. chunks[i].offset + chunks[i].size \in Nat
    <3>1. chunks[i] \in Chunk
      BY <1>1
    <3> QED
      BY <3>1, Constants DEF Chunk
  <2>4. chunks[i].offset + chunks[i].size > acked
    BY <2>1, <2>2, <2>3 DEF Holds
  <2>5. i \in kept
    BY <1>1, <2>4 DEF kept
  <2> QED
    BY <2>2, <2>5
<1> HIDE DEF kept
<1>6. CASE kept = {}
  <2>1. chunks' = <<>>
    BY <1>3, <1>6
  <2>2. \A byte \in acked..(txNext - 1) : FALSE
    BY <1>5, <1>6
  <2> QED
    BY <2>1, <2>2 DEF Kept
<1>7. CASE kept # {}
  <2>1. first \in kept /\ \A i \in kept : first <= i
    BY <1>4, <1>7, MinOf
  <2> HIDE DEF first
  <2>2. first \in 1..Len(chunks)
    BY <1>4, <2>1
  <2>3. chunks' = SubSeq(chunks, first, Len(chunks))
    BY <1>3, <1>7
  <2>4. /\ chunks' \in Seq(Chunk) /\ Len(chunks') = Len(chunks) - first + 1
        /\ \A j \in 1..(Len(chunks) - first + 1) : chunks'[j] = chunks[first + j - 1]
    <3>1. \A i \in first..Len(chunks) : chunks[i] \in Chunk
      BY <1>1, <2>2
    <3> QED
      BY <1>1, <2>2, <2>3, <3>1, SubSeqProperties
  <2>5. DOMAIN chunks' = 1..(Len(chunks) - first + 1)
    BY <2>4, LenProperties
  <2>6. \A j \in 1..(Len(chunks) - first + 1) : first + j - 1 \in 1..Len(chunks)
    BY <1>1, <2>2
  <2>7. \A j \in DOMAIN chunks' : /\ chunks'[j].submitted <= chunks'[j].size
                                 /\ chunks'[j].offset + chunks'[j].size <= txNext
    BY <1>2, <2>4, <2>5, <2>6
  <2>8. ASSUME NEW byte \in acked..(txNext - 1)
        PROVE  \E j \in DOMAIN chunks' : /\ chunks'[j].offset <= byte
                                         /\ byte < chunks'[j].offset + chunks'[j].size
    <3>1. PICK i \in kept : Holds(i, byte)
      BY <1>5
    <3>2. i \in 1..Len(chunks) /\ first <= i
      BY <1>4, <2>1
    <3>3. i - first + 1 \in 1..(Len(chunks) - first + 1) /\ first + (i - first + 1) - 1 = i
      BY <1>1, <2>2, <3>2
    <3>4. chunks'[i - first + 1] = chunks[i]
      BY <2>4, <3>3
    <3> QED
      BY <2>5, <3>1, <3>3, <3>4 DEF Holds
  <2> QED
    BY <2>4, <2>7, <2>8 DEF Kept, Holds
<1> QED
  BY <1>6, <1>7

LEMMA AcknowledgeKeeps ==
  ASSUME WriteAssumption, InductiveInv, ~stopped, NEW frame \in frames, frames' = frames \ {frame},
         \/ AcknowledgeData(frame) \/ AcknowledgeFin(frame)
         \/ AcknowledgeLater(frame) \/ AcknowledgeFinEarly(frame)
  PROVE  InductiveInv'
<1> DEFINE acked == AckedWithoutGap(frames \ {frame})
<1>1. /\ acked \in Nat /\ txAcked <= acked /\ FirstGap(frames', txSubmitted, acked)
  BY GapMoves
<1>2. ~finAcked /\ wpc \notin {"acked", "waitClosed", "closed"}
  BY DEF InductiveInv, Outstanding, Told
<1>3. frames' \subseteq Frame /\ txAcked \in Nat /\ txNext \in Nat /\ appOffset \in Nat
  BY DEF InductiveInv, Typed
<1>4. ~pubFinAcked
  BY <1>2 DEF InductiveInv, Outstanding
<1> HIDE DEF acked
<1>5. CASE AcknowledgeData(frame)
  <2>1. /\ UNCHANGED <<wpc, writing, buffered, appOffset, appFin, txNext, txSubmitted,
                       finRequested, finSubmitted, finAcked, stopped>>
        /\ txAcked' = acked /\ chunks' = Retained(acked) /\ pubAcked' = acked
        /\ pubFinAcked' = finAcked /\ QueueSendFlush(operations)
    BY <1>5 DEF AcknowledgeData, writerVars, finVars, acked
  <2>2. operations' \in Seq(Operation) /\ Queued'
    BY <2>1, QueuedByFlush
  <2>3. chunks' \in Seq(Chunk) /\ Kept'
    BY <1>1, <2>1, RetainedHolds
  <2>4. Typed'
    BY <1>1, <1>3, <2>1, <2>2, <2>3 DEF InductiveInv, Typed
  <2>5. Writer'
    BY <1>1, <1>3, <2>1, Constants DEF InductiveInv, Writer, Typed
  <2>6. Outstanding'
    BY <1>2, <2>1, FewerOutstanding DEF acked
  <2>7. Told'
    BY <1>2, <2>1 DEF Told
  <2> QED
    BY <2>2, <2>3, <2>4, <2>5, <2>6, <2>7 DEF InductiveInv
<1>6. CASE AcknowledgeFin(frame)
  <2>1. /\ UNCHANGED <<wpc, writing, buffered, appOffset, appFin, chunks, txNext, txSubmitted, txAcked,
                       finRequested, finSubmitted, stopped>>
        /\ txAcked = acked /\ frame.fin /\ finSubmitted /\ txAcked = txNext
        /\ finAcked' = TRUE /\ pubFinAcked' = TRUE /\ pubAcked' = txAcked
        /\ QueueSendFlush(operations)
    BY <1>6 DEF AcknowledgeFin, writerVars, offsetVars, acked
  <2>2. operations' \in Seq(Operation) /\ Queued'
    BY <2>1, QueuedByFlush
  <2>3. Typed'
    BY <1>3, <2>1, <2>2 DEF InductiveInv, Typed
  <2>4. Writer'
    BY <1>3, <2>1 DEF InductiveInv, Writer
  <2>5. frames' = {}
    <3> SUFFICES ASSUME NEW other \in frames, other # frame PROVE FALSE
      OBVIOUS
    <3>1. CASE HasData(other)
      <4>1. /\ txAcked <= other.from /\ other.to <= txSubmitted /\ txSubmitted <= txNext
            /\ other.from < other.to
        BY <3>1 DEF InductiveInv, Outstanding, FirstGap, HasData
      <4>2. /\ other.from \in Nat /\ other.to \in Nat /\ txSubmitted \in Nat
        BY DEF InductiveInv, Typed, Frame
      <4> QED
        BY <1>3, <2>1, <4>1, <4>2
    <3>2. CASE ~HasData(other)
      BY <2>1, <3>2 DEF InductiveInv, Outstanding
    <3> QED
      BY <3>1, <3>2
  <2>6. Outstanding'
    BY <2>1, <2>5, FewerOutstanding DEF acked
  <2>7. Kept'
    BY <2>1 DEF InductiveInv, Kept, Holds
  <2>8. Told'
    BY <1>2, <2>1 DEF Told
  <2> QED
    BY <2>2, <2>3, <2>4, <2>6, <2>7, <2>8 DEF InductiveInv
<1>7. CASE AcknowledgeLater(frame) \/ AcknowledgeFinEarly(frame)
  <2>1. /\ UNCHANGED <<wpc, writing, buffered, appOffset, appFin, chunks, txNext, txSubmitted, txAcked,
                       finRequested, finSubmitted, finAcked, pubAcked, pubFinAcked>>
        /\ txAcked = acked
    BY <1>7 DEF AcknowledgeLater, AcknowledgeFinEarly, writerVars, offsetVars, finVars, pubVars, acked
  <2>2. operations' \in Seq(Operation) /\ Queued' /\ stopped' \in BOOLEAN
    <3>1. CASE AcknowledgeLater(frame)
      <4>1. QueueSendFlush(operations) /\ stopped' = stopped /\ stopped \in BOOLEAN
        BY <3>1 DEF AcknowledgeLater, InductiveInv, Typed
      <4> QED
        BY <2>1, <4>1, QueuedByFlush
    <3>2. CASE AcknowledgeFinEarly(frame)
      <4>1. stopped' = TRUE /\ operations' = <<>>
        BY <3>2 DEF AcknowledgeFinEarly, Drop
      <4>2. /\ operations' \in Seq(Operation) /\ ~HasSend(operations') /\ ~HasEnd(operations')
            /\ EndIsLast(operations')
        BY <4>1 DEF HasSend, HasEnd, EndIsLast
      <4> QED
        BY <2>1, <4>1, <4>2 DEF InductiveInv, Queued
    <3> QED
      BY <1>7, <3>1, <3>2
  <2>3. Typed'
    BY <1>3, <2>1, <2>2 DEF InductiveInv, Typed
  <2>4. Writer'
    BY <2>1, WriterKept
  <2>5. Outstanding'
    BY <1>4, <2>1, FewerOutstanding DEF acked
  <2>6. Kept'
    BY <2>1 DEF InductiveInv, Kept, Holds
  <2>7. Told'
    BY <1>2, <2>1 DEF Told
  <2> QED
    BY <2>2, <2>3, <2>4, <2>5, <2>6, <2>7 DEF InductiveInv
<1> QED
  BY <1>5, <1>6, <1>7

-----------------------------------------------------------------------------
(* The theorems.                                                             *)

LEMMA StepKeeps ==
  ASSUME WriteAssumption, InductiveInv, [Next]_vars
  PROVE  InductiveInv'
<1>1. CASE WriterStep
  BY <1>1, MeasureKeeps, CountWriteKeeps, QueueWriteKeeps, WaitingKeeps DEF WriterStep
<1>2. CASE BeginWrite \/ BeginFinish \/ TimeOut
  BY <1>2, BeginKeeps, WaitingKeeps
<1>3. CASE WorkerStep
  BY <1>3, ProcessSendKeeps, ProcessSendFlushKeeps, StopKeeps DEF WorkerStep
<1>4. CASE NetworkStep
  BY <1>4, AcknowledgeKeeps, RaiseCreditKeeps, CloseStreamKeeps DEF NetworkStep, Acknowledge
<1>5. CASE Fail
  BY <1>5, StopKeeps
<1>6. CASE UNCHANGED vars
  <2>1. UNCHANGED <<wpc, writing, buffered, appOffset, appFin, operations, chunks, txNext, txSubmitted,
                    txAcked, finRequested, finSubmitted, finAcked, stopped, pubAcked, pubFinAcked, frames>>
    BY <1>6 DEF vars, writerVars, offsetVars, finVars, pubVars, externalVars
  <2>2. Typed' /\ Writer'
    BY <2>1 DEF InductiveInv, Typed, Writer
  <2>3. Queued' /\ Outstanding'
    BY <2>1 DEF InductiveInv, Queued, Outstanding
  <2>4. Kept' /\ Told'
    BY <2>1 DEF InductiveInv, Kept, Holds, Told
  <2> QED
    BY <2>2, <2>3, <2>4 DEF InductiveInv
<1> QED
  BY <1>1, <1>2, <1>3, <1>4, <1>5, <1>6 DEF Next

LEMMA Inductive == Spec => []InductiveInv
<1>1. Init => InductiveInv
  BY Initially, WriteAssumption
<1>2. InductiveInv /\ [Next]_vars => InductiveInv'
  BY StepKeeps, WriteAssumption
<1> QED
  BY <1>1, <1>2, PTL DEF Spec

\* What QUICWriteFlowController promises: however late it sees acknowledgements,
\* what a program wrote and the peer did not acknowledge is bounded, for any
\* watermark and any size of a write.
THEOREM ProducerCorrect == Spec => []ProducerBounded
<1>1. InductiveInv => ProducerBounded
  <2> SUFFICES ASSUME InductiveInv PROVE appOffset - txAcked <= Bound
    BY DEF ProducerBounded, Bound
  <2>1. appOffset <= txAcked + Bound /\ appOffset \in Nat /\ txAcked \in Nat /\ Bound \in Nat
    BY Constants, WriteAssumption DEF InductiveInv, Writer, Typed
  <2> QED
    BY <2>1
<1> QED
  BY <1>1, Inductive, PTL

\* acknowledgedStreamDataCallback frees only what no frame that is outstanding
\* holds: ngtcp2 may send every such frame again.
THEOREM RetentionCorrect == Spec => []UnackedRetained
<1>1. InductiveInv => UnackedRetained
  <2> SUFFICES ASSUME InductiveInv, NEW frame \in frames, NEW byte \in frame.from..(frame.to - 1)
               PROVE  \E i \in DOMAIN chunks : Holds(i, byte)
    BY DEF UnackedRetained, Holds
  <2>1. /\ frame.from \in Nat /\ frame.to \in Nat
        /\ txNext \in Nat /\ txSubmitted \in Nat /\ txAcked \in Nat
    BY DEF InductiveInv, Typed, Frame
  <2>2. /\ frame.to <= txSubmitted /\ txSubmitted <= txNext
        /\ HasData(frame) => txAcked <= frame.from
    BY DEF InductiveInv, Outstanding, FirstGap
  <2>3. HasData(frame)
    BY <2>1 DEF HasData
  <2>4. byte \in txAcked..(txNext - 1)
    BY <2>1, <2>2, <2>3
  <2> QED
    BY <2>4 DEF InductiveInv, Kept
<1> QED
  BY <1>1, Inductive, PTL

\* The FIN writeOnePacket sends, with data or alone, is the end of the stream.
THEOREM FinCorrect == Spec => []FinAfterData
<1>1. InductiveInv => FinAfterData
  <2> SUFFICES ASSUME InductiveInv, finSubmitted
               PROVE  /\ txSubmitted = txNext
                      /\ ~HasSend(operations)
                      /\ \A frame \in frames : frame.fin => frame.to = appOffset
    BY DEF FinAfterData, HasSend, IsSend
  <2>1. /\ finRequested /\ txSubmitted = txNext
        /\ \A frame \in frames : frame.fin => frame.to = txNext
    BY DEF InductiveInv, Outstanding
  <2> QED
    BY <2>1 DEF InductiveInv, Queued
<1> QED
  BY <1>1, Inductive, PTL

\* isWriteAcknowledged compares two offsets and two flags, published apart from
\* what they describe; when it says yes nothing the program wrote is queued,
\* unsent or outstanding.
THEOREM AcknowledgementCorrect == Spec => []AckedMeansDelivered
<1>1. InductiveInv => AckedMeansDelivered
  <2> SUFFICES ASSUME InductiveInv, wpc \in {"acked", "waitClosed", "closed"}
               PROVE  frames = {} /\ finSubmitted /\ txAcked = appOffset /\ ~HasSend(operations)
    BY DEF AckedMeansDelivered, HasSend, IsSend
  <2>1. finAcked /\ txAcked = appOffset
    BY DEF InductiveInv, Told
  <2>2. finSubmitted /\ frames = {} /\ finRequested
    BY <2>1 DEF InductiveInv, Outstanding
  <2> QED
    BY <2>1, <2>2 DEF InductiveInv, Queued
<1> QED
  BY <1>1, Inductive, PTL
=============================================================================
