------------------------- MODULE StreamReceiveProofs -------------------------
(***************************************************************************)
(* Proofs about StreamReceive, for any windows and any length of the stream: *)
(* its type, the conservation of credit and what follows from it, and that   *)
(* the receive path implements ByteStream.                                   *)
(***************************************************************************)
EXTENDS StreamReceive, SequenceTheorems, TLAPS

Position == 1..StreamLength

-----------------------------------------------------------------------------
(* Stretches of the stream.                                                 *)

LEMMA BytesType ==
  ASSUME NEW a \in Nat, NEW b \in Nat, a <= b, b <= StreamLength
  PROVE  /\ Bytes(a, b) \in Seq(Position)
         /\ Len(Bytes(a, b)) = b - a
         /\ \A i \in 1..(b - a) : Bytes(a, b)[i] = a + i
<1>1. b - a \in Nat
  OBVIOUS
<1>2. \A i \in 1..(b - a) : a + i \in Position
  BY WindowAssumption DEF Position
<1>3. Bytes(a, b) \in [1..(b - a) -> Position]
  BY <1>1, <1>2 DEF Bytes
<1>4. Bytes(a, b) \in Seq(Position)
  BY <1>1, <1>3, SeqDef
<1> QED
  BY <1>1, <1>4 DEF Bytes

LEMMA BytesJoin ==
  ASSUME NEW a \in Nat, NEW b \in Nat, NEW c \in Nat, a <= b, b <= c, c <= StreamLength
  PROVE  Bytes(a, b) \o Bytes(b, c) = Bytes(a, c)
<1> DEFINE s == Bytes(a, b)
           t == Bytes(b, c)
           u == Bytes(a, c)
<1>1. /\ s \in Seq(Position) /\ Len(s) = b - a /\ \A i \in 1..(b - a) : s[i] = a + i
      /\ t \in Seq(Position) /\ Len(t) = c - b /\ \A i \in 1..(c - b) : t[i] = b + i
      /\ u \in Seq(Position) /\ Len(u) = c - a /\ \A i \in 1..(c - a) : u[i] = a + i
  <2>1. a <= c /\ b <= StreamLength
    BY WindowAssumption
  <2>2. s \in Seq(Position) /\ Len(s) = b - a /\ \A i \in 1..(b - a) : s[i] = a + i
    BY <2>1, BytesType
  <2>3. t \in Seq(Position) /\ Len(t) = c - b /\ \A i \in 1..(c - b) : t[i] = b + i
    BY BytesType
  <2>4. u \in Seq(Position) /\ Len(u) = c - a /\ \A i \in 1..(c - a) : u[i] = a + i
    BY <2>1, BytesType
  <2> QED
    BY <2>2, <2>3, <2>4
<1> HIDE DEF s, t, u
<1>2. /\ s \o t \in Seq(Position)
      /\ Len(s \o t) = Len(s) + Len(t)
      /\ \A i \in 1..Len(s) + Len(t) :
           (s \o t)[i] = IF i <= Len(s) THEN s[i] ELSE t[i - Len(s)]
  BY <1>1, ConcatProperties
<1>3. Len(s \o t) = Len(u)
  BY <1>1, <1>2
<1>4. ASSUME NEW i \in 1..Len(s \o t) PROVE (s \o t)[i] = u[i]
  BY <1>1, <1>2
<1> QED
  BY <1>1, <1>2, <1>3, <1>4, SeqEqual DEF s, t, u

-----------------------------------------------------------------------------
(* The queue of operations, seen as the set of the types in it.              *)

Elements(q) == {q[i] : i \in DOMAIN q}

Distinct(q) == \A i, j \in DOMAIN q : q[i] = q[j] => i = j

LEMMA EmptyQueue == /\ <<>> \in Seq(OperationType) /\ Distinct(<<>>) /\ Elements(<<>>) = {}
BY DEF Distinct, Elements

LEMMA AppendQueue ==
  ASSUME NEW q \in Seq(OperationType), NEW x \in OperationType, Distinct(q), x \notin Elements(q)
  PROVE  /\ Append(q, x) \in Seq(OperationType)
         /\ Distinct(Append(q, x))
         /\ Elements(Append(q, x)) = Elements(q) \cup {x}
<1>1. Append(q, x) \in Seq(OperationType)
  OBVIOUS
<1>2. /\ DOMAIN Append(q, x) = 1..(Len(q) + 1) /\ DOMAIN q = 1..Len(q) /\ Len(q) \in Nat
      /\ \A i \in 1..Len(q) : Append(q, x)[i] = q[i]
      /\ Append(q, x)[Len(q) + 1] = x
  OBVIOUS
<1>3. Distinct(Append(q, x))
  BY <1>2 DEF Distinct, Elements
<1>4. Elements(Append(q, x)) = Elements(q) \cup {x}
  BY <1>2 DEF Elements
<1> QED
  BY <1>1, <1>3, <1>4

LEMMA TailQueue ==
  ASSUME NEW q \in Seq(OperationType), Distinct(q), q # <<>>
  PROVE  /\ Tail(q) \in Seq(OperationType)
         /\ Distinct(Tail(q))
         /\ Elements(Tail(q)) = Elements(q) \ {Head(q)}
         /\ Head(q) \in Elements(q)
<1>1. Tail(q) \in Seq(OperationType)
  OBVIOUS
<1>2. /\ Len(q) \in Nat \ {0} /\ DOMAIN q = 1..Len(q) /\ DOMAIN Tail(q) = 1..(Len(q) - 1)
      /\ \A i \in 1..(Len(q) - 1) : Tail(q)[i] = q[i + 1]
      /\ Head(q) = q[1]
  OBVIOUS
<1>3. Distinct(Tail(q))
  BY <1>2 DEF Distinct
<1>4. Head(q) \in Elements(q)
  BY <1>2 DEF Elements
<1>5. Elements(Tail(q)) = Elements(q) \ {Head(q)}
  <2>1. ASSUME NEW y \in Elements(Tail(q)) PROVE y \in Elements(q) \ {Head(q)}
    BY <1>2 DEF Elements, Distinct
  <2>2. ASSUME NEW y \in Elements(q) \ {Head(q)} PROVE y \in Elements(Tail(q))
    <3>1. PICK i \in 1..Len(q) : y = q[i] /\ i # 1
      BY <1>2 DEF Elements
    <3>2. i - 1 \in 1..(Len(q) - 1) /\ Tail(q)[i - 1] = y
      BY <1>2, <3>1
    <3> QED
      BY <1>2, <3>2 DEF Elements
  <2> QED
    BY <2>1, <2>2
<1> QED
  BY <1>1, <1>3, <1>4, <1>5

-----------------------------------------------------------------------------
(* Types, and the flags that keep an operation from being queued twice.      *)

ReaderPC == {"read", "readAgain", "askFinished", "wait", "checkError", "count", "checkStopped",
             "push", "ended", "failed", "timedOut"}

Typed ==
  /\ rxOffset \in 0..StreamLength
  /\ rxFinished \in BOOLEAN
  /\ peerCredit \in Credit /\ granted \in Credit /\ advertised \in Credit
  /\ operations \in Seq(OperationType)
  /\ flushPending \in BOOLEAN /\ sendPending \in BOOLEAN /\ finPending \in BOOLEAN
  /\ stopped \in BOOLEAN /\ appFinished \in BOOLEAN
  /\ releasable \in Nat
  /\ workerBatch \in Seq(Position) /\ appBatch \in Seq(Position)
  /\ held \in Seq(Position) /\ delivered \in Seq(Position)
  /\ pc \in ReaderPC

\* The flags agree with the queue while the connection lives; afterwards only a
\* release that was on its way can still be queued.  Credit is scheduled by the
\* reader that counted first, and by it alone.
Scheduling ==
  /\ Distinct(operations)
  /\ ~stopped => /\ flushPending <=> "FlushStreamRecv" \in Elements(operations)
                 /\ sendPending <=> "FlushSend" \in Elements(operations)
  /\ stopped => Elements(operations) \subseteq {"ReleaseStreamRecvCredit"}
  /\ "ReleaseStreamRecvCredit" \in Elements(operations) =>
       releasable > 0 /\ pc \notin {"checkStopped", "push"}
  /\ pc \in {"checkStopped", "push"} => releasable > 0
  /\ held # <<>> <=> pc \in {"count", "checkStopped", "push"}

LEMMA TypeSplit == Typed /\ Scheduling => TypeOK
BY DEF Typed, Scheduling, TypeOK, Distinct, ReaderPC, Position

LEMMA TypeInit == Init => Typed /\ Scheduling
<1> SUFFICES ASSUME Init PROVE Typed /\ Scheduling
  OBVIOUS
<1>1. InitialCredit \in Credit
  BY WindowAssumption DEF InitialCredit, Credit
<1>2. <<>> \in Seq(Position) /\ <<>> \in Seq(OperationType)
  OBVIOUS
<1>3. 0 \in 0..StreamLength /\ 0 \in Nat
  BY WindowAssumption
<1>4. "read" \in ReaderPC
  BY DEF ReaderPC
<1>5. Typed
  BY <1>1, <1>2, <1>3, <1>4, Zenon DEF Init, Typed
<1>6. Scheduling
  BY EmptyQueue DEF Init, Scheduling
<1> QED
  BY <1>5, <1>6

LEMMA ReturnType ==
  ASSUME Typed, Return(held)
  PROVE  held' \in Seq(Position) /\ delivered' \in Seq(Position) /\ pc' \in ReaderPC
<1>1. delivered \o held \in Seq(Position)
  BY ConcatProperties DEF Typed
<1> QED
  BY <1>1 DEF Return, ReaderPC

LEMMA QueueUnlessType ==
  ASSUME Typed, Scheduling, ~stopped, NEW pending, NEW type \in OperationType,
         pending <=> type \in Elements(operations), QueueUnless(pending, type)
  PROVE  /\ operations' \in Seq(OperationType)
         /\ Distinct(operations')
         /\ Elements(operations') = Elements(operations) \cup {type}
<1>1. CASE pending
  BY <1>1 DEF QueueUnless, Typed, Scheduling
<1>2. CASE ~pending
  BY <1>2, AppendQueue DEF QueueUnless, Typed, Scheduling
<1> QED
  BY <1>1, <1>2

LEMMA ReceiveType == Typed /\ Scheduling /\ ReceiveStreamData => Typed' /\ Scheduling'
<1> SUFFICES ASSUME Typed, Scheduling, ReceiveStreamData PROVE Typed' /\ Scheduling'
  OBVIOUS
<1>1. PICK upTo \in rxOffset..StreamLength, fin \in BOOLEAN :
        /\ workerBatch' = workerBatch \o Bytes(rxOffset, upTo)
        /\ rxOffset' = upTo
        /\ rxFinished' = fin
        /\ finPending' = (finPending \/ fin)
  BY DEF ReceiveStreamData
<1>2. Bytes(rxOffset, upTo) \in Seq(Position)
  BY BytesType, WindowAssumption DEF Typed
<1>3. workerBatch' \in Seq(Position)
  BY <1>1, <1>2, ConcatProperties DEF Typed
<1>4. /\ operations' \in Seq(OperationType)
      /\ Distinct(operations')
      /\ Elements(operations') = Elements(operations) \cup {"FlushStreamRecv"}
  BY QueueUnlessType DEF ReceiveStreamData, OperationType, Scheduling
<1>5. rxOffset' \in 0..StreamLength
  BY <1>1, WindowAssumption DEF Typed
<1>6. Typed'
  BY <1>1, <1>3, <1>4, <1>5 DEF ReceiveStreamData, Typed, creditVars, appVars, readerVars
<1>7. Scheduling'
  BY <1>4 DEF ReceiveStreamData, Scheduling, creditVars, appVars, readerVars
<1> QED
  BY <1>6, <1>7

\* What executing the first operation does to the queue.
LEMMA BeginType ==
  ASSUME Typed, Scheduling, NEW type, Begin(type)
  PROVE  /\ Tail(operations) \in Seq(OperationType)
         /\ Distinct(Tail(operations))
         /\ Elements(Tail(operations)) = Elements(operations) \ {type}
         /\ type \in Elements(operations)
BY TailQueue DEF Typed, Scheduling, Begin

LEMMA FlushType == Typed /\ Scheduling /\ ProcessStreamReceive => Typed' /\ Scheduling'
<1> SUFFICES ASSUME Typed, Scheduling, ProcessStreamReceive PROVE Typed' /\ Scheduling'
  OBVIOUS
<1>1. /\ Tail(operations) \in Seq(OperationType)
      /\ Distinct(Tail(operations))
      /\ Elements(Tail(operations)) = Elements(operations) \ {"FlushStreamRecv"}
      /\ "FlushStreamRecv" \in Elements(operations)
  BY BeginType DEF ProcessStreamReceive
<1>2. appBatch \o workerBatch \in Seq(Position)
  BY ConcatProperties DEF Typed
<1>3. <<>> \in Seq(Position) /\ (appFinished \/ finPending) \in BOOLEAN
  OBVIOUS
<1>4. Typed'
  BY <1>1, <1>2, <1>3, Zenon
  DEF ProcessStreamReceive, Typed, peerVars, creditVars, readerVars
<1>5. Scheduling'
  BY <1>1 DEF ProcessStreamReceive, Scheduling, Typed, peerVars, creditVars, readerVars
<1> QED
  BY <1>4, <1>5

LEMMA ReleaseType ==
  Typed /\ Scheduling /\ ProcessReleaseStreamReceiveCredit => Typed' /\ Scheduling'
<1> SUFFICES ASSUME Typed, Scheduling, ProcessReleaseStreamReceiveCredit
             PROVE  Typed' /\ Scheduling'
  OBVIOUS
<1> DEFINE rest == Tail(operations)
<1>1. /\ rest \in Seq(OperationType)
      /\ Distinct(rest)
      /\ Elements(rest) = Elements(operations) \ {"ReleaseStreamRecvCredit"}
      /\ "ReleaseStreamRecvCredit" \in Elements(operations)
  BY BeginType DEF ProcessReleaseStreamReceiveCredit
<1>2. releasable > 0 /\ pc \notin {"checkStopped", "push"}
  BY <1>1 DEF Scheduling
<1>3. CASE stopped
  <2>1. operations' = rest /\ releasable' = 0 /\ UNCHANGED <<granted, sendPending>>
    BY <1>3 DEF ProcessReleaseStreamReceiveCredit
  <2> HIDE DEF rest
  <2> QED
    BY <1>1, <1>2, <1>3, <2>1
    DEF ProcessReleaseStreamReceiveCredit, Typed, Scheduling, peerVars, appVars, readerVars
<1>4. CASE ~stopped
  <2>1. /\ operations' = IF sendPending THEN rest ELSE Append(rest, "FlushSend")
        /\ granted' = Extend(granted, releasable)
        /\ sendPending' = TRUE
        /\ releasable' = 0
    BY <1>2, <1>4 DEF ProcessReleaseStreamReceiveCredit, Typed
  <2>2. sendPending <=> "FlushSend" \in Elements(rest)
    BY <1>1, <1>4 DEF Scheduling
  <2>3. granted' \in Credit
    BY <2>1 DEF Extend, Credit, Typed
  <2> HIDE DEF rest
  <2>4. /\ operations' \in Seq(OperationType)
        /\ Distinct(operations')
        /\ Elements(operations') = Elements(rest) \cup {"FlushSend"}
    <3>1. CASE sendPending
      BY <1>1, <2>1, <2>2, <3>1
    <3>2. CASE ~sendPending
      BY <1>1, <2>1, <2>2, <3>2, AppendQueue DEF OperationType
    <3> QED
      BY <3>1, <3>2
  <2>5. Typed'
    BY <2>1, <2>3, <2>4
    DEF ProcessReleaseStreamReceiveCredit, Typed, peerVars, appVars, readerVars
  <2>6. Scheduling'
    BY <1>1, <1>2, <1>4, <2>1, <2>4
    DEF ProcessReleaseStreamReceiveCredit, Scheduling, peerVars, appVars, readerVars
  <2> QED
    BY <2>5, <2>6
<1> QED
  BY <1>3, <1>4

LEMMA SendType == Typed /\ Scheduling /\ ProcessSendFlush => Typed' /\ Scheduling'
<1> SUFFICES ASSUME Typed, Scheduling, ProcessSendFlush PROVE Typed' /\ Scheduling'
  OBVIOUS
<1>1. /\ Tail(operations) \in Seq(OperationType)
      /\ Distinct(Tail(operations))
      /\ Elements(Tail(operations)) = Elements(operations) \ {"FlushSend"}
      /\ "FlushSend" \in Elements(operations)
  BY BeginType DEF ProcessSendFlush
<1>2. Typed'
  BY <1>1 DEF ProcessSendFlush, Typed, peerVars, appVars, readerVars
<1>3. Scheduling'
  BY <1>1 DEF ProcessSendFlush, Scheduling, peerVars, appVars, readerVars
<1> QED
  BY <1>2, <1>3

LEMMA FailType == Typed /\ Scheduling /\ (Fail \/ PeerLearnsCredit) => Typed' /\ Scheduling'
<1>1. Typed /\ Scheduling /\ Fail => Typed' /\ Scheduling'
  BY EmptyQueue DEF Fail, Typed, Scheduling, peerVars, creditVars, appVars, readerVars
<1>2. Typed /\ Scheduling /\ PeerLearnsCredit => Typed' /\ Scheduling'
  BY DEF PeerLearnsCredit, Typed, Scheduling, creditVars, workerVars, appVars, readerVars
<1> QED
  BY <1>1, <1>2

\* What a step of the reader that only moves leaves as it was.
Moves == \/ Read \/ ReadAgain \/ AskFinished \/ Wait \/ TimeOut \/ CheckError

LEMMA MoveType == Typed /\ Scheduling /\ Moves => Typed' /\ Scheduling'
<1> SUFFICES ASSUME Typed, Scheduling, Moves PROVE Typed' /\ Scheduling'
  OBVIOUS
<1>1. ASSUME NEW next \in {"askFinished", "ended"}, Take(next), pc \in {"read", "readAgain"}
      PROVE  Typed' /\ Scheduling'
  BY <1>1, EmptyQueue, EmptySeq
  DEF Take, Typed, Scheduling, ReaderPC, peerVars, creditVars, workerVars
<1>2. CASE Read
  BY <1>1, <1>2 DEF Read
<1>3. CASE ReadAgain
  BY <1>1, <1>3 DEF ReadAgain
<1>4. CASE AskFinished
  BY <1>4 DEF AskFinished, Typed, Scheduling, ReaderPC, peerVars, creditVars, workerVars, appVars
<1>5. CASE Wait \/ TimeOut
  BY <1>5
  DEF Wait, TimeOut, Typed, Scheduling, ReaderPC, peerVars, creditVars, workerVars, appVars
<1>6. CASE CheckError
  BY <1>6 DEF CheckError, Typed, Scheduling, ReaderPC, peerVars, creditVars, workerVars, appVars
<1> QED
  BY <1>2, <1>3, <1>4, <1>5, <1>6 DEF Moves

LEMMA CountType == Typed /\ Scheduling /\ CountTaken => Typed' /\ Scheduling'
<1> SUFFICES ASSUME Typed, Scheduling, CountTaken PROVE Typed' /\ Scheduling'
  OBVIOUS
<1>1. held # <<>> /\ pc = "count"
  BY DEF CountTaken, Scheduling
<1>2. Len(held) \in Nat /\ Len(held) > 0
  BY <1>1 DEF Typed
<1>3. releasable' = releasable + Len(held) /\ releasable' > 0 /\ releasable' \in Nat
  BY <1>2 DEF CountTaken, Typed
<1>4. CASE releasable = 0
  <2>1. pc' = "checkStopped" /\ UNCHANGED <<held, delivered>>
    BY <1>4 DEF CountTaken
  <2> QED
    BY <1>1, <1>3, <1>4, <2>1
    DEF CountTaken, Typed, Scheduling, ReaderPC, peerVars, creditVars, workerVars, appVars
<1>5. CASE releasable # 0
  <2>1. Return(held)
    BY <1>5 DEF CountTaken
  <2>2. held' \in Seq(Position) /\ delivered' \in Seq(Position) /\ pc' \in ReaderPC
    BY <2>1, ReturnType
  <2>3. Typed'
    BY <1>3, <2>2 DEF CountTaken, Typed, peerVars, creditVars, workerVars, appVars
  <2>4. Scheduling'
    BY <1>1, <1>3, <2>1
    DEF Return, CountTaken, Scheduling, peerVars, creditVars, workerVars, appVars
  <2> QED
    BY <2>3, <2>4
<1> QED
  BY <1>4, <1>5

LEMMA PushType == Typed /\ Scheduling /\ (CheckStopped \/ PushRelease) => Typed' /\ Scheduling'
<1>1. ASSUME Typed, Scheduling, CheckStopped PROVE Typed' /\ Scheduling'
  <2>1. CASE stopped
    <3>1. Return(held)
      BY <1>1, <2>1 DEF CheckStopped
    <3>2. held' \in Seq(Position) /\ delivered' \in Seq(Position) /\ pc' \in ReaderPC
      BY <1>1, <3>1, ReturnType
    <3> QED
      BY <1>1, <3>1, <3>2
      DEF Return, CheckStopped, Typed, Scheduling, peerVars, creditVars, workerVars, appVars
  <2>2. CASE ~stopped
    BY <1>1, <2>2
    DEF CheckStopped, Typed, Scheduling, ReaderPC, peerVars, creditVars, workerVars, appVars
  <2> QED
    BY <2>1, <2>2
<1>2. ASSUME Typed, Scheduling, PushRelease PROVE Typed' /\ Scheduling'
  <2>1. Return(held) /\ pc = "push"
    BY <1>2 DEF PushRelease
  <2>2. held' \in Seq(Position) /\ delivered' \in Seq(Position) /\ pc' \in ReaderPC
    BY <1>2, <2>1, ReturnType
  <2>3. /\ operations' \in Seq(OperationType)
        /\ Distinct(operations')
        /\ Elements(operations') = Elements(operations) \cup {"ReleaseStreamRecvCredit"}
    BY <1>2, AppendQueue DEF PushRelease, Typed, Scheduling, OperationType
  <2>4. Typed'
    BY <1>2, <2>2, <2>3 DEF PushRelease, Typed, peerVars, creditVars, workerVars, appVars
  <2>5. Scheduling'
    BY <1>2, <2>1, <2>3
    DEF Return, PushRelease, Scheduling, peerVars, creditVars, workerVars, appVars
  <2> QED
    BY <2>4, <2>5
<1> QED
  BY <1>1, <1>2

LEMMA TypeStep == Typed /\ Scheduling /\ [Next]_vars => Typed' /\ Scheduling'
<1>1. Typed /\ Scheduling /\ UNCHANGED vars => Typed' /\ Scheduling'
  BY DEF Typed, Scheduling, vars, peerVars, creditVars, workerVars, appVars, readerVars
<1>2. Next => \/ ReceiveStreamData \/ ProcessStreamReceive \/ ProcessReleaseStreamReceiveCredit
              \/ ProcessSendFlush \/ Fail \/ PeerLearnsCredit \/ Moves \/ CountTaken
              \/ CheckStopped \/ PushRelease
  BY DEF Next, PeerStep, WorkerStep, ReaderStep, Moves
<1> QED
  BY <1>1, <1>2, ReceiveType, FlushType, ReleaseType, SendType, FailType, MoveType, CountType,
     PushType

LEMMA AlwaysTyped == Spec => [](Typed /\ Scheduling)
BY TypeInit, TypeStep, PTL DEF Spec

\* Every variable keeps its type, and no operation is ever queued twice.
THEOREM TypeCorrect == Spec => []TypeOK
BY AlwaysTyped, TypeSplit, PTL

-----------------------------------------------------------------------------
(* Credit.                                                                  *)

\* What was taken and counted, that is, everything except what is still
\* unread or uncounted.
Unread == Len(workerBatch) + Len(appBatch) + Uncounted

\* The peer never knows of more than was granted, and the limits move together.
Limits ==
  /\ rxOffset <= peerCredit.stream
  /\ peerCredit.stream <= advertised.stream
  /\ advertised.stream <= granted.stream
  /\ ~stopped => /\ granted.stream = StreamWindow + (rxOffset - (Unread + releasable))
                 /\ granted.data = DataWindow + (rxOffset - (Unread + releasable))

Pending ==
  ~stopped => /\ workerBatch # <<>> \/ finPending => flushPending
              /\ granted # advertised => sendPending

CreditInv ==
  /\ Typed
  /\ Scheduling
  /\ Limits
  /\ Pending
  /\ UnreadWithinWindow
  /\ CreditQueued

LEMMA Lengths ==
  Typed => /\ Len(workerBatch) \in Nat /\ Len(appBatch) \in Nat /\ Len(held) \in Nat
           /\ Uncounted \in Nat
           /\ Unread \in Nat
           /\ workerBatch # <<>> <=> Len(workerBatch) > 0
           /\ appBatch # <<>> <=> Len(appBatch) > 0
           /\ held # <<>> <=> Len(held) > 0
           /\ rxOffset \in Nat /\ releasable \in Nat
           /\ granted.stream \in Nat /\ granted.data \in Nat
           /\ advertised.stream \in Nat /\ advertised.data \in Nat
           /\ peerCredit.stream \in Nat /\ peerCredit.data \in Nat
<1> SUFFICES ASSUME Typed
             PROVE  /\ Len(workerBatch) \in Nat /\ Len(appBatch) \in Nat /\ Len(held) \in Nat
                    /\ Uncounted \in Nat
                    /\ Unread \in Nat
                    /\ workerBatch # <<>> <=> Len(workerBatch) > 0
                    /\ appBatch # <<>> <=> Len(appBatch) > 0
                    /\ held # <<>> <=> Len(held) > 0
                    /\ rxOffset \in Nat /\ releasable \in Nat
                    /\ granted.stream \in Nat /\ granted.data \in Nat
                    /\ advertised.stream \in Nat /\ advertised.data \in Nat
                    /\ peerCredit.stream \in Nat /\ peerCredit.data \in Nat
  OBVIOUS
<1>1. /\ Len(workerBatch) \in Nat /\ Len(appBatch) \in Nat /\ Len(held) \in Nat
      /\ workerBatch # <<>> <=> Len(workerBatch) > 0
      /\ appBatch # <<>> <=> Len(appBatch) > 0
      /\ held # <<>> <=> Len(held) > 0
  BY DEF Typed
<1>2. Uncounted \in Nat
  <2>1. 0 \in Nat
    OBVIOUS
  <2> QED
    BY <1>1, <2>1, Zenon DEF Uncounted
<1>4. Unread \in Nat
  BY <1>1, <1>2 DEF Unread
<1>3. /\ rxOffset \in Nat /\ releasable \in Nat
      /\ granted.stream \in Nat /\ granted.data \in Nat
      /\ advertised.stream \in Nat /\ advertised.data \in Nat
      /\ peerCredit.stream \in Nat /\ peerCredit.data \in Nat
  BY WindowAssumption DEF Typed, Credit
<1> QED
  BY <1>1, <1>2, <1>3, <1>4

LEMMA CreditInit == Init => CreditInv
<1> SUFFICES ASSUME Init PROVE CreditInv
  OBVIOUS
<1>1. Typed /\ Scheduling
  BY TypeInit
<1>2. Len(workerBatch) = 0 /\ Len(appBatch) = 0 /\ Uncounted = 0
  BY DEF Init, Uncounted
<1>3. Limits /\ Pending /\ UnreadWithinWindow /\ CreditQueued
  BY <1>2, WindowAssumption
  DEF Init, Limits, Pending, UnreadWithinWindow, CreditQueued, Unread, InitialCredit
<1> QED
  BY <1>1, <1>3 DEF CreditInv

LEMMA ReceiveCredit == CreditInv /\ ReceiveStreamData => CreditInv'
<1> SUFFICES ASSUME CreditInv, ReceiveStreamData PROVE CreditInv'
  OBVIOUS
<1>1. Typed' /\ Scheduling'
  BY ReceiveType DEF CreditInv
<1>2. PICK upTo \in rxOffset..StreamLength :
        /\ upTo <= peerCredit.stream
        /\ workerBatch' = workerBatch \o Bytes(rxOffset, upTo)
        /\ rxOffset' = upTo
  BY DEF ReceiveStreamData
<1>3. Len(workerBatch') = Len(workerBatch) + (upTo - rxOffset)
  <2>1. /\ rxOffset \in Nat /\ upTo \in Nat /\ rxOffset <= upTo /\ upTo <= StreamLength
        /\ workerBatch \in Seq(Position)
    BY <1>2, WindowAssumption DEF CreditInv, Typed
  <2>2. /\ Bytes(rxOffset, upTo) \in Seq(Position)
        /\ Len(Bytes(rxOffset, upTo)) = upTo - rxOffset
    BY <2>1, BytesType
  <2> QED
    BY <1>2, <2>1, <2>2, ConcatProperties
<1>4. /\ UNCHANGED <<appBatch, pc, held, releasable, granted, advertised, peerCredit, stopped>>
      /\ UNCHANGED <<sendPending, Uncounted>>
      /\ flushPending' = TRUE /\ ~stopped
  BY DEF ReceiveStreamData, creditVars, appVars, readerVars, Uncounted
<1>5. Unread' = Unread + (upTo - rxOffset)
  <2>1. Len(workerBatch) \in Nat /\ Len(appBatch) \in Nat
    BY Lengths DEF CreditInv
  <2>2. rxOffset \in Int /\ upTo \in Int
    BY <1>2, WindowAssumption DEF CreditInv, Typed
  <2>3. Uncounted' = Uncounted /\ appBatch' = appBatch
    BY <1>4
  <2> QED
    BY <1>3, <2>1, <2>2, <2>3, Lengths DEF CreditInv, Unread
<1>6. /\ rxOffset \in Nat /\ Unread \in Nat /\ releasable \in Nat /\ upTo \in Nat
      /\ granted.stream \in Nat /\ granted.data \in Nat /\ advertised.stream \in Nat
      /\ peerCredit.stream \in Nat /\ StreamWindow \in Nat /\ DataWindow \in Nat
  BY Lengths, WindowAssumption DEF CreditInv
<1>10. Limits'
  <2>1. /\ granted.stream = StreamWindow + (rxOffset - (Unread + releasable))
        /\ granted.data = DataWindow + (rxOffset - (Unread + releasable))
    BY <1>4 DEF CreditInv, Limits
  <2>2. rxOffset' - (Unread' + releasable') = rxOffset - (Unread + releasable)
    BY <1>2, <1>4, <1>5, <1>6
  <2>3. rxOffset' <= peerCredit'.stream
    BY <1>2, <1>4
  <2> QED
    BY <1>4, <2>1, <2>2, <2>3 DEF CreditInv, Limits
<1>7. UnreadWithinWindow'
  <2>1. Unread' <= StreamWindow
    <3>1. granted.stream = StreamWindow + (rxOffset - (Unread + releasable))
      BY <1>4 DEF CreditInv, Limits
    <3>2. upTo <= granted.stream
      BY <1>2, <1>6 DEF CreditInv, Limits
    <3> QED
      BY <1>5, <1>6, <3>1, <3>2
  <2> QED
    BY <2>1 DEF UnreadWithinWindow, Unread
<1>8. Pending'
  BY <1>4 DEF CreditInv, Pending
<1>9. CreditQueued'
  <2>1. releasable > 0 => "ReleaseStreamRecvCredit" \in Elements(operations)
                          \/ pc \in {"checkStopped", "push"}
    BY <1>4 DEF CreditInv, CreditQueued, Queued, Elements
  <2>2. Elements(operations') = Elements(operations) \cup {"FlushStreamRecv"}
    BY <1>4, QueueUnlessType DEF CreditInv, Scheduling, ReceiveStreamData, OperationType
  <2> QED
    BY <1>4, <2>1, <2>2 DEF CreditQueued, Queued, Elements
<1> QED
  BY <1>1, <1>7, <1>8, <1>9, <1>10 DEF CreditInv

LEMMA QueuedElements == \A t : Queued(t) <=> t \in Elements(operations)
BY DEF Queued, Elements

LEMMA FlushCredit == CreditInv /\ ProcessStreamReceive => CreditInv'
<1> SUFFICES ASSUME CreditInv, ProcessStreamReceive PROVE CreditInv'
  OBVIOUS
<1>1. Typed' /\ Scheduling'
  BY FlushType DEF CreditInv
<1>2. Len(appBatch') = Len(appBatch) + Len(workerBatch) /\ Len(workerBatch') = 0
  BY ConcatProperties DEF CreditInv, Typed, ProcessStreamReceive
<1>3. /\ UNCHANGED <<rxOffset, pc, held, releasable, granted, advertised, peerCredit, stopped>>
      /\ UNCHANGED <<sendPending, Uncounted>>
      /\ workerBatch' = <<>> /\ finPending' = FALSE
  BY DEF ProcessStreamReceive, peerVars, creditVars, readerVars, Uncounted
<1>4. Unread' = Unread
  BY <1>2, <1>3, Lengths DEF CreditInv, Unread
<1>5. Limits' /\ Pending'
  BY <1>3, <1>4 DEF CreditInv, Limits, Pending
<1>6. UnreadWithinWindow'
  BY <1>4 DEF CreditInv, Unread, UnreadWithinWindow
<1>7. CreditQueued'
  <2>1. Elements(operations') = Elements(operations) \ {"FlushStreamRecv"}
    BY BeginType DEF CreditInv, ProcessStreamReceive
  <2> QED
    BY <1>3, <2>1 DEF CreditInv, CreditQueued, Queued, Elements
<1> QED
  BY <1>1, <1>5, <1>6, <1>7 DEF CreditInv

LEMMA ReleaseCredit == CreditInv /\ ProcessReleaseStreamReceiveCredit => CreditInv'
<1> SUFFICES ASSUME CreditInv, ProcessReleaseStreamReceiveCredit PROVE CreditInv'
  OBVIOUS
<1>1. Typed' /\ Scheduling'
  BY ReleaseType DEF CreditInv
<1>2. /\ UNCHANGED <<rxOffset, pc, held, advertised, peerCredit, stopped, workerBatch, appBatch>>
      /\ UNCHANGED <<finPending, flushPending, Uncounted, Unread>>
      /\ releasable' = 0
  BY DEF ProcessReleaseStreamReceiveCredit, peerVars, appVars, readerVars, Uncounted, Unread
<1>3. ~stopped => granted' = Extend(granted, releasable) /\ sendPending' = TRUE
  <2>1. releasable > 0
    BY BeginType DEF CreditInv, Scheduling, ProcessReleaseStreamReceiveCredit
  <2> QED
    BY <2>1 DEF ProcessReleaseStreamReceiveCredit
<1>4. stopped => granted' = granted
  BY DEF ProcessReleaseStreamReceiveCredit
<1>5. ~stopped => /\ granted'.stream = granted.stream + releasable
                  /\ granted'.data = granted.data + releasable
  BY <1>3 DEF Extend
<1>9. /\ rxOffset \in Nat /\ Unread \in Nat /\ releasable \in Nat
      /\ granted.stream \in Nat /\ granted.data \in Nat /\ advertised.stream \in Nat
      /\ StreamWindow \in Nat /\ DataWindow \in Nat
  BY Lengths, WindowAssumption DEF CreditInv
<1>6. Limits'
  <2>1. CASE stopped
    BY <1>2, <1>4, <2>1 DEF CreditInv, Limits
  <2>2. CASE ~stopped
    <3>1. /\ granted.stream = StreamWindow + (rxOffset - (Unread + releasable))
          /\ granted.data = DataWindow + (rxOffset - (Unread + releasable))
      BY <2>2 DEF CreditInv, Limits
    <3>2. /\ granted'.stream = StreamWindow + (rxOffset - (Unread + 0))
          /\ granted'.data = DataWindow + (rxOffset - (Unread + 0))
      BY <1>5, <1>9, <2>2, <3>1
    <3>3. advertised'.stream <= granted'.stream
      BY <1>2, <1>5, <1>9, <2>2 DEF CreditInv, Limits
    <3> QED
      BY <1>2, <3>2, <3>3 DEF CreditInv, Limits
  <2> QED
    BY <2>1, <2>2
<1>7. Pending'
  BY <1>2, <1>3 DEF CreditInv, Pending
<1>8. UnreadWithinWindow' /\ CreditQueued'
  BY <1>2 DEF CreditInv, UnreadWithinWindow, CreditQueued
<1> QED
  BY <1>1, <1>6, <1>7, <1>8 DEF CreditInv

LEMMA SendCredit == CreditInv /\ ProcessSendFlush => CreditInv'
<1> SUFFICES ASSUME CreditInv, ProcessSendFlush PROVE CreditInv'
  OBVIOUS
<1>1. Typed' /\ Scheduling'
  BY SendType DEF CreditInv
<1>2. /\ UNCHANGED <<rxOffset, pc, held, granted, peerCredit, stopped, workerBatch, appBatch>>
      /\ UNCHANGED <<finPending, flushPending, releasable, Uncounted, Unread>>
      /\ advertised' = granted
  BY DEF ProcessSendFlush, peerVars, appVars, readerVars, Uncounted, Unread
<1>3. Limits'
  BY <1>2, Lengths DEF CreditInv, Limits
<1>4. Pending' /\ UnreadWithinWindow'
  BY <1>2 DEF CreditInv, Pending, UnreadWithinWindow
<1>5. CreditQueued'
  <2>1. Elements(operations') = Elements(operations) \ {"FlushSend"}
    BY BeginType DEF CreditInv, ProcessSendFlush
  <2> QED
    BY <1>2, <2>1 DEF CreditInv, CreditQueued, Queued, Elements
<1> QED
  BY <1>1, <1>3, <1>4, <1>5 DEF CreditInv

LEMMA FailCredit == CreditInv /\ (Fail \/ PeerLearnsCredit) => CreditInv'
<1>1. ASSUME CreditInv, Fail PROVE CreditInv'
  <2>1. Typed' /\ Scheduling'
    BY <1>1, FailType DEF CreditInv
  <2>2. /\ UNCHANGED <<rxOffset, peerCredit, granted, advertised, releasable, workerBatch>>
        /\ UNCHANGED <<appBatch, Uncounted>>
        /\ stopped' = TRUE
    BY <1>1 DEF Fail, peerVars, creditVars, appVars, readerVars, Uncounted
  <2>3. Limits' /\ Pending' /\ UnreadWithinWindow' /\ CreditQueued'
    BY <1>1, <2>2 DEF CreditInv, Limits, Pending, UnreadWithinWindow, CreditQueued
  <2> QED
    BY <2>1, <2>3 DEF CreditInv
<1>2. ASSUME CreditInv, PeerLearnsCredit PROVE CreditInv'
  <2>1. Typed' /\ Scheduling'
    BY <1>2, FailType DEF CreditInv
  <2>2. /\ UNCHANGED <<rxOffset, granted, advertised, releasable, stopped, operations, pc>>
        /\ UNCHANGED <<finPending, flushPending, sendPending, workerBatch, appBatch, Uncounted>>
        /\ UNCHANGED Unread
        /\ peerCredit' = advertised
    BY <1>2 DEF PeerLearnsCredit, creditVars, workerVars, appVars, readerVars, Uncounted, Unread
  <2>3. Limits'
    BY <1>2, <2>2, Lengths DEF CreditInv, Limits
  <2>4. Pending' /\ UnreadWithinWindow' /\ CreditQueued'
    BY <1>2, <2>2 DEF CreditInv, Pending, UnreadWithinWindow, CreditQueued, Queued
  <2> QED
    BY <2>1, <2>3, <2>4 DEF CreditInv
<1> QED
  BY <1>1, <1>2

LEMMA MoveCredit == CreditInv /\ Moves => CreditInv'
<1> SUFFICES ASSUME CreditInv, Moves PROVE CreditInv'
  OBVIOUS
<1>1. Typed' /\ Scheduling'
  BY MoveType DEF CreditInv
<1>2. /\ UNCHANGED <<rxOffset, peerCredit, granted, advertised, releasable, workerBatch, stopped>>
      /\ UNCHANGED <<operations, finPending, flushPending, sendPending>>
      /\ pc \notin {"count", "checkStopped", "push"}
  BY DEF Moves, Read, ReadAgain, Take, AskFinished, Wait, TimeOut, CheckError, peerVars,
         creditVars, workerVars
<1>3. Uncounted = 0
  BY <1>2 DEF Uncounted
<1>4. Len(appBatch') + Uncounted' = Len(appBatch)
  <2>1. ASSUME NEW next \in {"askFinished", "ended"}, Take(next)
        PROVE  Len(appBatch') + Uncounted' = Len(appBatch)
    <3>1. appBatch' = <<>> /\ held' = appBatch /\ Len(<<>>) = 0
      BY <2>1 DEF Take
    <3>2. CASE appBatch = <<>>
      BY <2>1, <3>1, <3>2 DEF Take, Uncounted
    <3>3. CASE appBatch # <<>>
      <4>1. pc' = "count"
        BY <2>1, <3>3 DEF Take
      <4>2. Uncounted' = Len(appBatch)
        BY <3>1, <4>1 DEF Uncounted
      <4> QED
        BY <3>1, <4>2, Lengths DEF CreditInv
    <3> QED
      BY <3>2, <3>3
  <2>2. CASE Read \/ ReadAgain
    BY <2>1, <2>2 DEF Read, ReadAgain
  <2>3. CASE AskFinished \/ Wait \/ TimeOut \/ CheckError
    <3>1. appBatch' = appBatch /\ pc' # "count"
      BY <2>3 DEF AskFinished, Wait, TimeOut, CheckError, appVars
    <3>2. Uncounted' = 0
      BY <3>1 DEF Uncounted
    <3> QED
      BY <3>1, <3>2, Lengths DEF CreditInv
  <2> QED
    BY <2>2, <2>3 DEF Moves
<1>5. Unread' = Unread
  <2>1. Len(appBatch') \in Nat /\ Uncounted' \in Nat
    <3>1. Len(appBatch') \in Nat /\ Len(held') \in Nat
      BY <1>1 DEF Typed
    <3> QED
      BY <3>1 DEF Uncounted
  <2>2. Len(workerBatch') = Len(workerBatch) /\ Len(workerBatch) \in Nat /\ Len(appBatch) \in Nat
    BY <1>2, Lengths DEF CreditInv
  <2> QED
    BY <1>3, <1>4, <2>1, <2>2 DEF Unread
<1>6. Limits' /\ Pending'
  BY <1>2, <1>5 DEF CreditInv, Limits, Pending
<1>7. UnreadWithinWindow'
  BY <1>5 DEF CreditInv, Unread, UnreadWithinWindow
<1>8. CreditQueued'
  BY <1>2 DEF CreditInv, CreditQueued, Queued
<1> QED
  BY <1>1, <1>6, <1>7, <1>8 DEF CreditInv

LEMMA CountCredit == CreditInv /\ CountTaken => CreditInv'
<1> SUFFICES ASSUME CreditInv, CountTaken PROVE CreditInv'
  OBVIOUS
<1>1. Typed' /\ Scheduling'
  BY CountType DEF CreditInv
<1>2. /\ UNCHANGED <<rxOffset, peerCredit, granted, advertised, workerBatch, appBatch, stopped>>
      /\ UNCHANGED <<operations, finPending, flushPending, sendPending>>
      /\ releasable' = releasable + Len(held)
      /\ pc = "count" /\ pc' \in {"read", "checkStopped"}
      /\ releasable = 0 => pc' = "checkStopped"
  BY DEF CountTaken, Return, peerVars, creditVars, workerVars, appVars
<1>3. Uncounted = Len(held) /\ Uncounted' = 0
  BY <1>2 DEF Uncounted
<1>4. Unread' + releasable' = Unread + releasable /\ Unread' <= Unread
  BY <1>2, <1>3, Lengths DEF CreditInv, Unread
<1>5. Limits'
  BY <1>1, <1>2, <1>4, Lengths DEF CreditInv, Limits
<1>6. Pending'
  BY <1>2 DEF CreditInv, Pending
<1>7. UnreadWithinWindow'
  <2>1. Unread <= StreamWindow
    BY DEF CreditInv, Unread, UnreadWithinWindow
  <2>2. Unread' \in Nat /\ Unread \in Nat
    BY <1>2, <1>3, Lengths DEF CreditInv, Unread
  <2>3. Unread' <= StreamWindow
    BY <1>4, <2>1, <2>2, WindowAssumption
  <2> QED
    BY <2>3 DEF UnreadWithinWindow, Unread
<1>8. CreditQueued'
  BY <1>2, Lengths DEF CreditInv, CreditQueued, Queued
<1> QED
  BY <1>1, <1>5, <1>6, <1>7, <1>8 DEF CreditInv

LEMMA PushCredit == CreditInv /\ (CheckStopped \/ PushRelease) => CreditInv'
<1> SUFFICES ASSUME CreditInv, CheckStopped \/ PushRelease PROVE CreditInv'
  OBVIOUS
<1>1. Typed' /\ Scheduling'
  BY PushType DEF CreditInv
<1>2. /\ UNCHANGED <<rxOffset, peerCredit, granted, advertised, workerBatch, appBatch, stopped>>
      /\ UNCHANGED <<releasable, finPending, flushPending, sendPending>>
      /\ pc # "count" /\ pc' # "count"
  BY DEF CheckStopped, PushRelease, Return, peerVars, creditVars, workerVars, appVars
<1>3. UNCHANGED <<Uncounted, Unread>>
  BY <1>2 DEF Uncounted, Unread
<1>4. Limits' /\ Pending' /\ UnreadWithinWindow'
  BY <1>2, <1>3 DEF CreditInv, Limits, Pending, UnreadWithinWindow
<1>5. CreditQueued'
  <2>1. CASE CheckStopped
    BY <2>1 DEF CheckStopped, CreditInv, CreditQueued, workerVars
  <2>2. CASE PushRelease
    <3>1. Elements(operations') = Elements(operations) \cup {"ReleaseStreamRecvCredit"}
      BY <2>2, AppendQueue DEF PushRelease, CreditInv, Typed, Scheduling, OperationType
    <3> QED
      BY <3>1 DEF CreditQueued, Queued, Elements
  <2> QED
    BY <2>1, <2>2
<1> QED
  BY <1>1, <1>4, <1>5 DEF CreditInv

LEMMA CreditStep == CreditInv /\ [Next]_vars => CreditInv'
<1>1. ASSUME CreditInv, UNCHANGED vars PROVE CreditInv'
  <2>1. Typed' /\ Scheduling'
    BY <1>1, TypeStep DEF CreditInv
  <2>2. Limits' /\ Pending' /\ UnreadWithinWindow' /\ CreditQueued'
    BY <1>1
    DEF CreditInv, Limits, Pending, UnreadWithinWindow, CreditQueued, Queued, Unread, Uncounted,
        vars, peerVars, creditVars, workerVars, appVars, readerVars
  <2> QED
    BY <2>1, <2>2 DEF CreditInv
<1>2. Next => \/ ReceiveStreamData \/ ProcessStreamReceive \/ ProcessReleaseStreamReceiveCredit
              \/ ProcessSendFlush \/ Fail \/ PeerLearnsCredit \/ Moves \/ CountTaken
              \/ CheckStopped \/ PushRelease
  BY DEF Next, PeerStep, WorkerStep, ReaderStep, Moves
<1> QED
  BY <1>1, <1>2, ReceiveCredit, FlushCredit, ReleaseCredit, SendCredit, FailCredit, MoveCredit,
     CountCredit, PushCredit

LEMMA CreditMeaning == CreditInv => CreditConserved /\ WorkQueued /\ NoStall
<1> SUFFICES ASSUME CreditInv PROVE CreditConserved /\ WorkQueued /\ NoStall
  OBVIOUS
<1>1. CreditConserved
  <2>1. ASSUME ~stopped
        PROVE  granted = [stream |-> StreamWindow + (rxOffset - (Unread + releasable)),
                          data |-> DataWindow + (rxOffset - (Unread + releasable))]
    BY <2>1 DEF CreditInv, Limits, Typed, Credit
  <2>2. Unread + releasable = Len(workerBatch) + Len(appBatch) + Uncounted + releasable
    BY DEF Unread
  <2> QED
    BY <2>1, <2>2 DEF CreditConserved
<1>2. WorkQueued
  BY QueuedElements DEF CreditInv, Pending, Scheduling, WorkQueued
<1>3. NoStall
  <2> SUFFICES ASSUME ~stopped, rxOffset = peerCredit.stream \/ rxOffset = peerCredit.data,
                      operations = <<>>, appBatch = <<>>,
                      pc \notin {"count", "checkStopped", "push"}, advertised = peerCredit
               PROVE  FALSE
    BY DEF NoStall
  <2>1. workerBatch = <<>> /\ granted = advertised
    BY <1>2, QueuedElements, EmptyQueue DEF WorkQueued
  <2>2. releasable = 0
    BY QueuedElements, EmptyQueue, Lengths DEF CreditInv, CreditQueued
  <2>3. Unread = 0
    BY <2>1 DEF Unread, Uncounted
  <2>4. granted.stream = StreamWindow + rxOffset /\ granted.data = DataWindow + rxOffset
    BY <2>2, <2>3, Lengths, WindowAssumption DEF CreditInv, Limits
  <2> QED
    BY <2>1, <2>4, Lengths, WindowAssumption DEF CreditInv
<1> QED
  BY <1>1, <1>2, <1>3

LEMMA CreditInductive ==
  Spec => [](UnreadWithinWindow /\ CreditConserved /\ CreditQueued /\ WorkQueued /\ NoStall)
<1>1. Spec => []CreditInv
  BY CreditInit, CreditStep, PTL DEF Spec
<1>2. CreditInv => UnreadWithinWindow /\ CreditConserved /\ CreditQueued /\ WorkQueued /\ NoStall
  BY CreditMeaning DEF CreditInv
<1> QED
  BY <1>1, <1>2, PTL

\* What the flow control of receiveStreamDataCallback and of the released credit
\* is for: the receiver never queues more than a window.
THEOREM WindowCorrect == Spec => []UnreadWithinWindow
<1> QED
  BY CreditInductive, PTL

\* Credit is neither lost nor invented on the way from the reader to the peer
\* (takeReceivedStreamData, processReleaseStreamReceiveCredit).
THEOREM CreditCorrect == Spec => []CreditConserved
<1> QED
  BY CreditInductive, PTL

\* A peer that is out of credit always has more coming: every way in which the
\* reader takes bytes leaves an operation behind.
THEOREM StallCorrect == Spec => []NoStall
<1> QED
  BY CreditInductive, PTL

-----------------------------------------------------------------------------
(* Order and end of the stream.                                             *)

LEMMA BytesEmpty == \A a \in Nat : a <= StreamLength => Bytes(a, a) = <<>>
<1> SUFFICES ASSUME NEW a \in Nat, a <= StreamLength PROVE Bytes(a, a) = <<>>
  OBVIOUS
<1>1. Bytes(a, a) \in Seq(Position) /\ Len(Bytes(a, a)) = 0
  BY BytesType
<1> QED
  BY <1>1, EmptySeq

LEMMA BytesPrefix ==
  ASSUME NEW b \in Nat, NEW c \in Nat, b <= c, c <= StreamLength
  PROVE  Stream!IsPrefixOf(Bytes(0, b), Bytes(0, c))
<1> DEFINE s == Bytes(0, b)
           t == Bytes(0, c)
           u == SubSeq(t, 1, Len(s))
<1>1. /\ s \in Seq(Position) /\ Len(s) = b /\ \A i \in 1..b : s[i] = i
      /\ t \in Seq(Position) /\ Len(t) = c /\ \A i \in 1..c : t[i] = i
  <2>1. b <= StreamLength
    BY WindowAssumption
  <2>2. \A n \in Nat : n <= StreamLength => /\ Bytes(0, n) \in Seq(Position)
                                           /\ Len(Bytes(0, n)) = n
    <3> SUFFICES ASSUME NEW n \in Nat, n <= StreamLength
                 PROVE  Bytes(0, n) \in Seq(Position) /\ Len(Bytes(0, n)) = n
      OBVIOUS
    <3>1. 0 \in Nat /\ 0 <= n /\ n - 0 = n
      OBVIOUS
    <3>2. Bytes(0, n) \in Seq(Position) /\ Len(Bytes(0, n)) = n - 0
      BY <3>1, BytesType
    <3> QED
      BY <3>1, <3>2
  <2>3. \A n \in Nat : \A i \in 1..n : Bytes(0, n)[i] = i
    BY DEF Bytes
  <2> QED
    BY <2>1, <2>2, <2>3
<1> HIDE DEF s, t
<1>2. /\ u \in Seq(Position) /\ Len(u) = Len(s)
      /\ \A i \in 1..Len(s) : u[i] = t[i]
  BY <1>1
<1> HIDE DEF u
<1>3. s = u
  BY <1>1, <1>2, SeqEqual
<1>4. Len(s) <= Len(t)
  BY <1>1
<1> QED
  BY <1>3, <1>4 DEF Stream!IsPrefixOf, s, t, u

\* Where the reader's bytes, its present ones and the application's batch end.
ReadUpTo == Len(delivered)
HeldUpTo == Len(delivered) + Len(held)
PublishedUpTo == Len(delivered) + Len(held) + Len(appBatch)

\* Cut into these four stretches, the stream is complete up to what arrived.
Contents ==
  /\ PublishedUpTo <= rxOffset
  /\ delivered = Bytes(0, ReadUpTo)
  /\ held = Bytes(ReadUpTo, HeldUpTo)
  /\ appBatch = Bytes(HeldUpTo, PublishedUpTo)
  /\ workerBatch = Bytes(PublishedUpTo, rxOffset)

\* The FIN is visible to the reader only after the last byte is.
Ending ==
  /\ finPending => rxFinished
  /\ appFinished => rxFinished /\ workerBatch = <<>>
  /\ pc = "readAgain" => appFinished
  /\ pc = "ended" => appFinished /\ appBatch = <<>>

OrderInv == Typed /\ Scheduling /\ Contents /\ Ending

LEMMA Ends ==
  Typed /\ Contents =>
    /\ ReadUpTo \in Nat /\ HeldUpTo \in Nat /\ PublishedUpTo \in Nat /\ rxOffset \in Nat
    /\ ReadUpTo <= HeldUpTo /\ HeldUpTo <= PublishedUpTo /\ PublishedUpTo <= rxOffset
    /\ rxOffset <= StreamLength
    /\ StreamLength \in Nat
<1> SUFFICES ASSUME Typed, Contents
             PROVE  /\ ReadUpTo \in Nat /\ HeldUpTo \in Nat /\ PublishedUpTo \in Nat
                    /\ rxOffset \in Nat
                    /\ ReadUpTo <= HeldUpTo /\ HeldUpTo <= PublishedUpTo
                    /\ PublishedUpTo <= rxOffset
                    /\ rxOffset <= StreamLength
                    /\ StreamLength \in Nat
  OBVIOUS
<1>1. Len(delivered) \in Nat /\ Len(held) \in Nat /\ Len(appBatch) \in Nat
  BY DEF Typed
<1>2. rxOffset \in Nat /\ rxOffset <= StreamLength /\ StreamLength \in Nat
  BY WindowAssumption DEF Typed
<1>3. PublishedUpTo <= rxOffset
  BY DEF Contents
<1> QED
  BY <1>1, <1>2, <1>3 DEF ReadUpTo, HeldUpTo, PublishedUpTo

LEMMA OrderInit == Init => OrderInv
<1> SUFFICES ASSUME Init PROVE OrderInv
  OBVIOUS
<1>1. ReadUpTo = 0 /\ HeldUpTo = 0 /\ PublishedUpTo = 0
  BY DEF Init, ReadUpTo, HeldUpTo, PublishedUpTo
<1>2. Bytes(0, 0) = <<>>
  BY BytesEmpty, WindowAssumption
<1>3. Contents
  BY <1>1, <1>2 DEF Init, Contents
<1> QED
  BY <1>3, TypeInit DEF Init, OrderInv, Ending

LEMMA ReceiveOrder == OrderInv /\ ReceiveStreamData => Contents' /\ Ending'
<1> SUFFICES ASSUME OrderInv, ReceiveStreamData PROVE Contents' /\ Ending'
  OBVIOUS
<1>1. PICK upTo \in rxOffset..StreamLength, fin \in BOOLEAN :
        /\ workerBatch' = workerBatch \o Bytes(rxOffset, upTo)
        /\ rxOffset' = upTo
        /\ rxFinished' = fin
        /\ finPending' = (finPending \/ fin)
  BY DEF ReceiveStreamData
<1>2. /\ UNCHANGED <<delivered, held, appBatch, appFinished, pc>>
      /\ UNCHANGED <<ReadUpTo, HeldUpTo, PublishedUpTo>>
      /\ ~rxFinished
  BY DEF ReceiveStreamData, appVars, readerVars, ReadUpTo, HeldUpTo, PublishedUpTo
<1>3. upTo \in Nat /\ rxOffset <= upTo /\ upTo <= StreamLength
  BY Ends DEF OrderInv
<1>4. workerBatch' = Bytes(PublishedUpTo, upTo)
  BY <1>1, <1>3, Ends, BytesJoin DEF OrderInv, Contents
<1>5. PublishedUpTo <= upTo
  BY <1>3, Ends DEF OrderInv
<1>6. Contents'
  BY <1>1, <1>2, <1>4, <1>5 DEF OrderInv, Contents
<1>7. Ending'
  BY <1>1, <1>2 DEF OrderInv, Ending
<1> QED
  BY <1>6, <1>7

LEMMA FlushOrder == OrderInv /\ ProcessStreamReceive => Contents' /\ Ending'
<1> SUFFICES ASSUME OrderInv, ProcessStreamReceive PROVE Contents' /\ Ending'
  OBVIOUS
<1>1. /\ UNCHANGED <<delivered, held, rxOffset, rxFinished, pc, ReadUpTo, HeldUpTo>>
      /\ workerBatch' = <<>>
      /\ finPending' = FALSE
      /\ appBatch' = appBatch \o workerBatch
      /\ appFinished' = (appFinished \/ finPending)
  BY DEF ProcessStreamReceive, peerVars, readerVars, ReadUpTo, HeldUpTo
<1>2. appBatch' = Bytes(HeldUpTo, rxOffset)
  BY <1>1, Ends, BytesJoin DEF OrderInv, Contents
<1>3. Len(appBatch') = rxOffset - HeldUpTo
  <2>1. HeldUpTo <= rxOffset
    BY Ends DEF OrderInv
  <2> QED
    BY <1>2, <2>1, Ends, BytesType DEF OrderInv
<1>4. PublishedUpTo' = rxOffset
  <2>1. PublishedUpTo' = HeldUpTo' + Len(appBatch')
    BY DEF PublishedUpTo, HeldUpTo
  <2> QED
    BY <1>1, <1>3, <2>1, Ends DEF OrderInv
<1>5. Bytes(rxOffset, rxOffset) = <<>>
  BY Ends, BytesEmpty DEF OrderInv
<1>6. Contents'
  BY <1>1, <1>2, <1>4, <1>5, Ends DEF OrderInv, Contents
<1>7. pc = "ended" => appBatch' = <<>>
  BY <1>1, EmptySeq DEF OrderInv, Ending
<1>8. Ending'
  BY <1>1, <1>7 DEF OrderInv, Ending
<1> QED
  BY <1>6, <1>8

\* Taking moves the whole published stretch to the reader.
LEMMA TakeOrder ==
  ASSUME OrderInv, NEW next, Take(next), held = <<>>
  PROVE  Contents'
<1>1. /\ UNCHANGED <<delivered, rxOffset, workerBatch, ReadUpTo>>
      /\ appBatch' = <<>> /\ held' = appBatch
  BY DEF Take, peerVars, workerVars, ReadUpTo
<1>2. Len(<<>>) = 0 /\ Len(appBatch) \in Nat /\ Len(delivered) \in Nat
  BY DEF OrderInv, Typed
<1>3. HeldUpTo = ReadUpTo /\ HeldUpTo' = PublishedUpTo /\ PublishedUpTo' = PublishedUpTo
  BY <1>1, <1>2 DEF ReadUpTo, HeldUpTo, PublishedUpTo
<1>4. Bytes(PublishedUpTo, PublishedUpTo) = <<>>
  <2>1. PublishedUpTo \in Nat /\ PublishedUpTo <= StreamLength
    BY Ends DEF OrderInv
  <2> QED
    BY <2>1, BytesEmpty
<1> QED
  BY <1>1, <1>3, <1>4 DEF OrderInv, Contents

\* Returning moves what the reader holds to what it has returned.
LEMMA ReturnOrder ==
  ASSUME OrderInv, Return(held), UNCHANGED <<rxOffset, workerBatch, appBatch>>
  PROVE  /\ Contents'
         /\ delivered' = Bytes(0, HeldUpTo)
<1>1. delivered' = delivered \o held /\ held' = <<>>
  BY DEF Return
<1>2. delivered' = Bytes(0, HeldUpTo)
  <2>1. HeldUpTo <= StreamLength /\ 0 <= ReadUpTo
    BY Ends DEF OrderInv
  <2> QED
    BY <1>1, <2>1, Ends, BytesJoin DEF OrderInv, Contents
<1>3. Len(delivered') = HeldUpTo
  <2>1. Len(delivered') = Len(delivered) + Len(held)
    BY <1>1, ConcatProperties DEF OrderInv, Typed
  <2> QED
    BY <2>1 DEF HeldUpTo
<1>4. ReadUpTo' = HeldUpTo /\ HeldUpTo' = HeldUpTo /\ PublishedUpTo' = PublishedUpTo
  <2>1. Len(<<>>) = 0 /\ HeldUpTo \in Nat /\ Len(appBatch) \in Nat
    BY Ends DEF OrderInv, Typed
  <2>2. PublishedUpTo = HeldUpTo + Len(appBatch)
    BY DEF PublishedUpTo, HeldUpTo
  <2> QED
    BY <1>1, <1>3, <2>1, <2>2 DEF ReadUpTo, HeldUpTo, PublishedUpTo
<1>5. Bytes(HeldUpTo, HeldUpTo) = <<>>
  <2>1. HeldUpTo \in Nat /\ HeldUpTo <= StreamLength
    BY Ends DEF OrderInv
  <2> QED
    BY <2>1, BytesEmpty
<1>6. Contents'
  BY <1>1, <1>2, <1>4, <1>5 DEF OrderInv, Contents
<1> QED
  BY <1>2, <1>6

LEMMA ReadOrder == OrderInv /\ Moves => Contents' /\ Ending'
<1>1. ASSUME OrderInv, Read \/ ReadAgain PROVE Contents' /\ Ending'
  <2>1. held = <<>>
    BY <1>1 DEF OrderInv, Scheduling, Read, ReadAgain
  <2>2. Contents'
    BY <1>1, <2>1, TakeOrder DEF Read, ReadAgain
  <2>3. Ending'
    BY <1>1 DEF Read, ReadAgain, Take, OrderInv, Ending, peerVars, workerVars
  <2> QED
    BY <2>2, <2>3
<1>2. ASSUME OrderInv, AskFinished \/ Wait \/ TimeOut \/ CheckError PROVE Contents' /\ Ending'
  <2>1. UNCHANGED <<delivered, held, appBatch, workerBatch, rxOffset>>
    BY <1>2 DEF AskFinished, Wait, TimeOut, CheckError, peerVars, workerVars, appVars
  <2>2. Contents'
    BY <1>2, <2>1 DEF OrderInv, Contents, ReadUpTo, HeldUpTo, PublishedUpTo
  <2>3. Ending'
    BY <1>2
    DEF AskFinished, Wait, TimeOut, CheckError, OrderInv, Ending, peerVars, workerVars, appVars
  <2> QED
    BY <2>2, <2>3
<1> QED
  BY <1>1, <1>2 DEF Moves

LEMMA CountOrder ==
  OrderInv /\ (CountTaken \/ CheckStopped \/ PushRelease) => Contents' /\ Ending'
<1> SUFFICES ASSUME OrderInv, CountTaken \/ CheckStopped \/ PushRelease
             PROVE  Contents' /\ Ending'
  OBVIOUS
<1>1. /\ UNCHANGED <<rxOffset, workerBatch, appBatch, rxFinished, finPending, appFinished>>
      /\ Return(held) \/ (UNCHANGED <<held, delivered>> /\ pc' \in {"checkStopped", "push"})
  BY DEF CountTaken, CheckStopped, PushRelease, peerVars, workerVars, appVars
<1>2. Contents'
  <2>1. CASE Return(held)
    BY <1>1, <2>1, ReturnOrder
  <2>2. CASE UNCHANGED <<held, delivered>>
    BY <1>1, <2>2 DEF OrderInv, Contents, ReadUpTo, HeldUpTo, PublishedUpTo
  <2> QED
    BY <1>1, <2>1, <2>2
<1>3. Ending'
  BY <1>1 DEF OrderInv, Ending, Return
<1> QED
  BY <1>2, <1>3

LEMMA OrderStep == OrderInv /\ [Next]_vars => OrderInv'
<1> SUFFICES ASSUME OrderInv, [Next]_vars PROVE Contents' /\ Ending'
  BY TypeStep DEF OrderInv
<1>1. CASE UNCHANGED vars
  BY <1>1
  DEF OrderInv, Contents, Ending, ReadUpTo, HeldUpTo, PublishedUpTo, vars, peerVars, workerVars,
      appVars, readerVars
<1>2. CASE Fail \/ PeerLearnsCredit \/ ProcessReleaseStreamReceiveCredit \/ ProcessSendFlush
  BY <1>2
  DEF Fail, PeerLearnsCredit, ProcessReleaseStreamReceiveCredit, ProcessSendFlush, OrderInv,
      Contents, Ending, ReadUpTo, HeldUpTo, PublishedUpTo, peerVars, workerVars, appVars,
      readerVars
<1>3. Next => \/ ReceiveStreamData \/ ProcessStreamReceive \/ ProcessReleaseStreamReceiveCredit
              \/ ProcessSendFlush \/ Fail \/ PeerLearnsCredit \/ Moves \/ CountTaken
              \/ CheckStopped \/ PushRelease
  BY DEF Next, PeerStep, WorkerStep, ReaderStep, Moves
<1> QED
  BY <1>1, <1>2, <1>3, ReceiveOrder, FlushOrder, ReadOrder, CountOrder

LEMMA AlwaysInOrder == Spec => []OrderInv
BY OrderInit, OrderStep, PTL DEF Spec

LEMMA EndMeaning == OrderInv => NoFalseEnd
<1> SUFFICES ASSUME OrderInv, pc = "ended" PROVE rxFinished /\ delivered = Bytes(0, rxOffset)
  BY DEF NoFalseEnd
<1>1. rxFinished /\ workerBatch = <<>> /\ appBatch = <<>>
  BY DEF OrderInv, Ending
<1>2. held = <<>>
  BY DEF OrderInv, Scheduling
<1>3. PublishedUpTo = ReadUpTo
  <2>1. Len(<<>>) = 0 /\ Len(delivered) \in Nat
    BY DEF OrderInv, Typed
  <2> QED
    BY <1>1, <1>2, <2>1 DEF PublishedUpTo, ReadUpTo
<1>4. PublishedUpTo = rxOffset
  <2>1. Len(workerBatch) = rxOffset - PublishedUpTo
    BY Ends, BytesType DEF OrderInv, Contents
  <2> QED
    BY <1>1, <2>1, Ends DEF OrderInv
<1> QED
  BY <1>1, <1>3, <1>4 DEF OrderInv, Contents

\* The program is told of an end only after every byte the peer sent.
THEOREM EndCorrect == Spec => []NoFalseEnd
BY AlwaysInOrder, EndMeaning, PTL

-----------------------------------------------------------------------------
(* The receive path implements ByteStream.                                  *)

status == IF pc \in {"ended", "failed", "timedOut"} THEN pc ELSE "open"

LEMMA StreamInit == Init => Stream!Init
<1> SUFFICES ASSUME Init PROVE Stream!Init
  OBVIOUS
<1>1. Bytes(0, rxOffset) = <<>>
  BY BytesEmpty, WindowAssumption DEF Init
<1> QED
  BY <1>1 DEF Init, Stream!Init

LEMMA StreamSend == OrderInv /\ ReceiveStreamData => Stream!Send
<1> SUFFICES ASSUME OrderInv, ReceiveStreamData PROVE Stream!Send
  OBVIOUS
<1>1. rxOffset' \in rxOffset..StreamLength /\ rxFinished' \in BOOLEAN /\ ~rxFinished
  BY DEF ReceiveStreamData
<1>2. Stream!IsPrefixOf(Bytes(0, rxOffset), Bytes(0, rxOffset'))
  <2>1. rxOffset \in Nat /\ rxOffset' \in Nat /\ rxOffset <= rxOffset' /\ rxOffset' <= StreamLength
    BY <1>1, Ends DEF OrderInv
  <2> QED
    BY <2>1, BytesPrefix
<1>3. UNCHANGED <<delivered, pc>>
  BY DEF ReceiveStreamData, readerVars
<1> QED
  BY <1>1, <1>2, <1>3 DEF Stream!Send, Stream!IsPrefixOf

LEMMA StreamDeliver ==
  ASSUME OrderInv, Return(held), pc \in {"count", "checkStopped", "push"},
         UNCHANGED <<rxOffset, rxFinished, workerBatch, appBatch>>
  PROVE  Stream!Deliver
<1>1. delivered' = Bytes(0, HeldUpTo) /\ delivered = Bytes(0, ReadUpTo)
  BY ReturnOrder DEF OrderInv, Contents
<1>2. /\ ReadUpTo \in Nat /\ HeldUpTo \in Nat /\ rxOffset \in Nat
      /\ ReadUpTo < HeldUpTo /\ HeldUpTo <= rxOffset /\ rxOffset <= StreamLength
  <2>1. Len(held) \in Nat /\ Len(held) > 0 /\ Len(delivered) \in Nat
    BY DEF OrderInv, Typed, Scheduling
  <2>2. ReadUpTo < HeldUpTo
    BY <2>1 DEF ReadUpTo, HeldUpTo
  <2> QED
    BY <2>2, Ends DEF OrderInv
<1>3. /\ Stream!IsPrefixOf(delivered, delivered')
      /\ Stream!IsPrefixOf(delivered', Bytes(0, rxOffset))
  BY <1>1, <1>2, BytesPrefix, WindowAssumption
<1>4. Len(delivered') > Len(delivered)
  <2>1. Len(delivered') = Len(delivered) + Len(held) /\ Len(delivered) \in Nat
    BY ConcatProperties DEF OrderInv, Typed, Return
  <2> QED
    BY <1>2, <2>1 DEF ReadUpTo, HeldUpTo
<1>5. pc' = "read" /\ status = "open" /\ status' = "open"
  BY DEF Return, status
<1> QED
  BY <1>3, <1>4, <1>5 DEF Stream!Deliver, Stream!IsPrefixOf, status

LEMMA StreamRead == OrderInv /\ OrderInv' /\ Moves => Stream!Next \/ UNCHANGED Stream!vars
<1> SUFFICES ASSUME OrderInv, OrderInv', Moves PROVE Stream!Next \/ UNCHANGED Stream!vars
  OBVIOUS
<1>1. UNCHANGED <<rxOffset, rxFinished, delivered>>
  BY DEF Moves, Read, ReadAgain, Take, AskFinished, Wait, TimeOut, CheckError, peerVars
<1>2. CASE pc' = "ended"
  <2>1. rxFinished /\ delivered = Bytes(0, rxOffset)
    <3>1. rxFinished' /\ delivered' = Bytes(0, rxOffset')
      <4>1. NoFalseEnd'
        BY EndMeaning, PTL
      <4> QED
        BY <1>2, <4>1 DEF NoFalseEnd
    <3> QED
      BY <1>1, <3>1
  <2>2. pc \notin {"ended", "failed", "timedOut"}
    BY DEF Moves, Read, ReadAgain, AskFinished, Wait, TimeOut, CheckError
  <2> QED
    BY <1>1, <1>2, <2>1, <2>2 DEF Stream!Next, Stream!AnnounceEnd
<1>3. CASE pc' \in {"failed", "timedOut"}
  <2>1. pc \notin {"ended", "failed", "timedOut"}
    BY DEF Moves, Read, ReadAgain, AskFinished, Wait, TimeOut, CheckError
  <2> QED
    BY <1>1, <1>3, <2>1 DEF Stream!Next, Stream!AnnounceBreak
<1>4. CASE pc' \notin {"ended", "failed", "timedOut"}
  <2>1. pc \notin {"ended", "failed", "timedOut"}
    BY DEF Moves, Read, ReadAgain, AskFinished, Wait, TimeOut, CheckError
  <2> QED
    BY <1>1, <1>4, <2>1 DEF Stream!vars
<1> QED
  BY <1>2, <1>3, <1>4

LEMMA StreamStep == OrderInv /\ OrderInv' /\ [Next]_vars => Stream!Next \/ UNCHANGED Stream!vars
<1> SUFFICES ASSUME OrderInv, OrderInv', [Next]_vars PROVE Stream!Next \/ UNCHANGED Stream!vars
  OBVIOUS
<1>1. CASE UNCHANGED vars
  BY <1>1 DEF vars, peerVars, readerVars, Stream!vars
<1>2. CASE \/ ProcessStreamReceive \/ ProcessReleaseStreamReceiveCredit \/ ProcessSendFlush
           \/ Fail \/ PeerLearnsCredit
  BY <1>2
  DEF ProcessStreamReceive, ProcessReleaseStreamReceiveCredit, ProcessSendFlush, Fail,
      PeerLearnsCredit, peerVars, readerVars, Stream!vars
<1>3. CASE ReceiveStreamData
  BY <1>3, StreamSend DEF Stream!Next
<1>4. CASE Moves
  BY <1>4, StreamRead
<1>5. CASE CountTaken \/ CheckStopped \/ PushRelease
  <2>1. /\ UNCHANGED <<rxOffset, workerBatch, appBatch, rxFinished>>
        /\ pc \in {"count", "checkStopped", "push"}
        /\ Return(held) \/ (UNCHANGED <<held, delivered>> /\ pc' \in {"checkStopped", "push"})
    BY <1>5 DEF CountTaken, CheckStopped, PushRelease, peerVars, workerVars, appVars
  <2>2. CASE Return(held)
    BY <2>1, <2>2, StreamDeliver DEF Stream!Next
  <2>3. CASE UNCHANGED <<held, delivered>> /\ pc' \in {"checkStopped", "push"}
    BY <2>1, <2>3 DEF Stream!vars
  <2> QED
    BY <2>1, <2>2, <2>3
<1>6. Next => \/ ReceiveStreamData \/ ProcessStreamReceive \/ ProcessReleaseStreamReceiveCredit
              \/ ProcessSendFlush \/ Fail \/ PeerLearnsCredit \/ Moves \/ CountTaken
              \/ CheckStopped \/ PushRelease
  BY DEF Next, PeerStep, WorkerStep, ReaderStep, Moves
<1> QED
  BY <1>1, <1>2, <1>3, <1>4, <1>5, <1>6

\* The receive path implements the byte stream it promises: order, no loss, no
\* duplication, and an end only at the end.
THEOREM StreamCorrect == Spec => StreamImplemented
<1>1. Init => Stream!Init
  BY StreamInit
<1>2. OrderInv /\ OrderInv' /\ [Next]_vars => [Stream!Next]_(Stream!vars)
  BY StreamStep
<1> QED
  BY <1>1, <1>2, AlwaysInOrder, PTL DEF Spec, StreamImplemented, Stream!Spec
=============================================================================
