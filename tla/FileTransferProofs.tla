-------------------------- MODULE FileTransferProofs --------------------------
(***************************************************************************)
(* That a transfer which is counted as complete is the whole file, and that   *)
(* the client's program consumed it, for every file and every offset.        *)
(***************************************************************************)
EXTENDS FileTransfer, SequenceTheorems, TLAPS

Consumed == downloadEnded /\ downloadRead = download /\ consumed = Len(download)

\* The client sends its request and, only when its program consumed the whole
\* download, its completion.
ClientInv ==
  /\ Len(upload) <= 2
  /\ Len(upload) >= 1 => upload[1] = Request(offset)
  /\ Len(upload) = 2 => Consumed
  /\ cpc = "request" => Len(upload) = 0
  /\ cpc \in {"receive", "yielded", "complete"} => Len(upload) = 1
  /\ cpc \in {"fin", "waitAcked", "waitClosed", "done"} => Len(upload) = 2
  /\ cpc \in {"request", "receive"} => consumed = Len(downloadRead)
  /\ cpc = "complete" => Consumed

\* The server sends nothing before it has the request, nothing after the end,
\* and counts nothing before it has the completion.
ServerInv ==
  /\ spc = "waitRequest" => Len(uploadRead) = 0 /\ Len(download) = 0 /\ ~downloadEnded
  /\ spc = "serve" => ~downloadEnded /\ served = offset + Len(download)
  /\ Counted => Len(upload) = 2

\* What was sent is the file from the offset on, and all of it once it ended.
FileInv ==
  /\ \A i \in 1..Len(download) : download[i] = offset + i
  /\ Len(download) > 0 => offset + Len(download) <= FileLength
  /\ downloadEnded => FileLength <= offset + Len(download)

IInv == TypeOK /\ ClientInv /\ ServerInv /\ FileInv

-----------------------------------------------------------------------------
(* Types.                                                                    *)

\* The variables keep their types.
LEMMA TypeClient ==
  ASSUME TypeOK, ClientStep \/ Abandon \/ ClientRaises
  PROVE  TypeOK'
<1> USE DEF TypeOK, clientVars, serverVars, uploadVars, downloadVars, transportVars
<1>1. CASE SendRequest
  <2>1. Request(offset) \in Message
    BY DEF Request, Message
  <2> QED BY <1>1, <2>1, AppendProperties DEF SendRequest, SendUp, Up!Send
<1>2. CASE ReceiveParts
  <2>1. PICK n \in DOMAIN download : downloadRead' = SubSeq(download, 1, n)
    BY <1>2 DEF ReceiveParts
  <2>2. n \in Int /\ \A i \in 1..n : download[i] \in Nat
    BY ElementOfSeq, LenProperties
  <2>3. SubSeq(download, 1, n) \in Seq(Nat)
    BY <2>2, SubSeqProperties
  <2> QED BY <1>2, <2>1, <2>3 DEF ReceiveParts
<1>3. CASE AskForMore
  BY <1>3, LenProperties DEF AskForMore
<1>4. CASE ReceiveEnd
  BY <1>4 DEF ReceiveEnd, Down!AnnounceEnd, Status
<1>5. CASE SendCompletion
  <2>1. Completion(Len(downloadRead)) \in Message
    BY LenProperties DEF Completion, Message
  <2> QED BY <1>5, <2>1, AppendProperties DEF SendCompletion, SendUp, Up!Send
<1>6. CASE SendFin
  BY <1>6 DEF SendFin, Up!Send
<1>7. CASE SeeAcknowledged
  BY <1>7 DEF SeeAcknowledged
<1>8. CASE SeeClosed
  BY <1>8 DEF SeeClosed
<1>9. CASE Abandon
  BY <1>9 DEF Abandon
<1>10. CASE ClientRaises
  BY <1>10 DEF ClientRaises, Down!AnnounceBreak, Status
<1> QED BY <1>1, <1>2, <1>3, <1>4, <1>5, <1>6, <1>7, <1>8, <1>9, <1>10 DEF ClientStep

\* A line that is read is one of the messages that were sent.
LEMMA LineIsMessage ==
  ASSUME TypeOK, NEW type, ReadLine(type)
  PROVE  NextLine \in Message /\ Append(uploadRead, NextLine) \in Seq(Message)
<1>1. Len(uploadRead) + 1 \in 1..Len(upload)
  BY LenProperties DEF TypeOK, ReadLine
<1>2. NextLine \in Message
  BY <1>1, ElementOfSeq DEF TypeOK, NextLine
<1> QED BY <1>2, AppendProperties DEF TypeOK

LEMMA TypeServer ==
  ASSUME TypeOK, ServerStep \/ ReturnResult \/ ServerRaises
  PROVE  TypeOK'
<1> USE DEF TypeOK, clientVars, serverVars, uploadVars, downloadVars, transportVars
<1>1. CASE ReceiveRequest
  <2>1. NextLine \in Message /\ uploadRead' \in Seq(Message)
    BY <1>1, LineIsMessage DEF ReceiveRequest, ReadLine
  <2>2. NextLine.value \in Nat
    BY <2>1 DEF Message
  <2> QED BY <1>1, <2>1, <2>2 DEF ReceiveRequest, ReadLine, Up!Deliver
<1>2. CASE ServePart
  <2>1. served' \in Nat /\ Append(download, served') \in Seq(Nat)
    BY <1>2, AppendProperties DEF ServePart
  <2> QED BY <1>2, <2>1 DEF ServePart, Down!Send
<1>3. CASE EndServing
  BY <1>3 DEF EndServing, Down!Send
<1>4. CASE ReceiveCompletion
  <2>1. uploadRead' \in Seq(Message)
    BY <1>4, LineIsMessage DEF ReceiveCompletion, ReadLine
  <2> QED BY <1>4, <2>1 DEF ReceiveCompletion, ReadLine, Up!Deliver
<1>6. CASE ReturnResult
  <2>1. cleanClose' \in BOOLEAN
    BY <1>6 DEF ReturnResult, StreamClosed, Side
  <2> QED BY <1>6, <2>1 DEF ReturnResult
<1>7. CASE ServerRaises
  BY <1>7 DEF ServerRaises, Up!AnnounceBreak, Status
<1> QED BY <1>1, <1>2, <1>3, <1>4, <1>6, <1>7 DEF ServerStep

LEMMA TypeTransport ==
  ASSUME TypeOK, NEW side \in Side, FinArrives(side) \/ AckArrives(side) \/ Lose(side)
  PROVE  TypeOK'
BY DEF TypeOK, FinArrives, AckArrives, Lose, clientVars, serverVars, uploadVars, downloadVars

-----------------------------------------------------------------------------
(* The steps of the client.                                                 *)

\* What one side of the transport learns concerns no invariant.
LEMMA TransportKeeps ==
  ASSUME IInv, NEW side \in Side, FinArrives(side) \/ AckArrives(side) \/ Lose(side)
  PROVE  IInv'
<1>1. TypeOK'
  BY TypeTransport DEF IInv
<1>2. UNCHANGED <<clientVars, serverVars, uploadVars, downloadVars>>
  BY DEF FinArrives, AckArrives, Lose
<1> QED BY <1>1, <1>2 DEF IInv, ClientInv, ServerInv, FileInv, Consumed, Counted,
                          clientVars, serverVars, uploadVars, downloadVars

LEMMA ClientKeepsFile ==
  ASSUME IInv, ClientStep \/ Abandon \/ ClientRaises
  PROVE  /\ FileInv'
         /\ UNCHANGED <<serverVars, download, downloadEnded, uploadRead, offset>>
<1>1. UNCHANGED <<serverVars, download, downloadEnded, uploadRead, offset>>
  BY DEF ClientStep, Abandon, ClientRaises, SendRequest, ReceiveParts, AskForMore, ReceiveEnd,
         SendCompletion, SendFin, SeeAcknowledged, SeeClosed, SendUp, Up!Send, Down!Deliver,
         Down!AnnounceEnd, Down!AnnounceBreak, uploadVars, downloadVars, serverVars
<1> QED BY <1>1 DEF FileInv, IInv

LEMMA ClientKeepsServer ==
  ASSUME IInv, ClientStep \/ Abandon \/ ClientRaises,
         Len(upload') = Len(upload) \/ Len(upload) < 2
  PROVE  ServerInv'
BY ClientKeepsFile DEF IInv, ServerInv, Counted, serverVars

\* The client sends two lines, the second one after it has consumed everything.
LEMMA ClientKeeps ==
  ASSUME IInv, ClientStep \/ Abandon \/ ClientRaises
  PROVE  IInv'
<1> USE DEF IInv
<1>1. TypeOK' /\ FileInv'
  BY TypeClient, ClientKeepsFile
<1>2. Len(upload) \in Nat /\ Len(downloadRead) \in Nat /\ Len(download) \in Nat
  BY LenProperties DEF TypeOK
<1>3. ASSUME upload' = upload, ClientInv' PROVE IInv'
  BY <1>1, <1>3, ClientKeepsServer
<1>4. CASE SendRequest
  <2>1. Request(offset) \in Message
    BY DEF Request, Message, TypeOK
  <2>2. upload' = Append(upload, Request(offset)) /\ Len(upload) = 0
    BY <1>4 DEF SendRequest, SendUp, ClientInv
  <2>3. Len(upload') = 1 /\ upload'[1] = Request(offset)
    BY <2>1, <2>2, AppendProperties DEF TypeOK
  <2>4. cpc' = "receive" /\ UNCHANGED <<offset, consumed, downloadRead>>
    BY <1>4 DEF SendRequest, downloadVars
  <2>5. consumed = Len(downloadRead)
    BY <1>4 DEF SendRequest, ClientInv
  <2>6. ClientInv'
    BY <2>3, <2>4, <2>5 DEF ClientInv, Consumed
  <2>7. ServerInv'
    BY <2>2, ClientKeepsServer
  <2> QED BY <1>1, <2>6, <2>7
<1>5. CASE ReceiveParts
  <2>1. cpc = "receive" /\ cpc' = "yielded" /\ UNCHANGED <<offset, consumed, upload>>
    BY <1>5 DEF ReceiveParts, uploadVars
  <2>2. Len(upload) = 1 /\ upload[1] = Request(offset)
    <3>1. Len(upload) = 1
      BY <2>1 DEF ClientInv
    <3>2. Len(upload) >= 1 => upload[1] = Request(offset)
      BY DEF ClientInv
    <3> QED BY <3>1, <3>2
  <2>3. ClientInv'
    BY <2>1, <2>2 DEF ClientInv
  <2> QED BY <1>3, <2>1, <2>3
<1>6. CASE AskForMore
  BY <1>2, <1>3, <1>6 DEF AskForMore, ClientInv, Consumed, uploadVars, downloadVars
<1>7. CASE ReceiveEnd
  BY <1>2, <1>3, <1>7 DEF ReceiveEnd, Down!AnnounceEnd, ClientInv, Consumed, uploadVars
<1>8. CASE SendCompletion
  <2> DEFINE line == Completion(Len(downloadRead))
  <2>1. line \in Message
    BY <1>2 DEF Completion, Message
  <2>2. upload' = Append(upload, line) /\ Len(upload) = 1 /\ upload[1] = Request(offset)
    BY <1>8 DEF SendCompletion, SendUp, ClientInv
  <2> HIDE DEF line
  <2>3. Len(Append(upload, line)) = 2 /\ Append(upload, line)[1] = upload[1]
    <3>1. /\ Len(Append(upload, line)) = Len(upload) + 1
          /\ \A i \in 1..Len(upload) : Append(upload, line)[i] = upload[i]
      BY <2>1, AppendProperties DEF TypeOK
    <3> QED BY <2>2, <3>1
  <2>4. Consumed' /\ cpc' = "fin" /\ offset' = offset
    BY <1>8 DEF SendCompletion, ClientInv, Consumed, downloadVars
  <2>5. ClientInv'
    BY <2>2, <2>3, <2>4 DEF ClientInv
  <2>6. ServerInv'
    BY <2>2, ClientKeepsServer
  <2> QED BY <1>1, <2>5, <2>6
<1>9. CASE SendFin
  BY <1>2, <1>3, <1>9 DEF SendFin, Up!Send, ClientInv, Consumed, downloadVars
<1>10. CASE SeeAcknowledged \/ SeeClosed \/ Abandon
  BY <1>2, <1>3, <1>10 DEF SeeAcknowledged, SeeClosed, Abandon, ClientInv, Consumed,
                            uploadVars, downloadVars
<1>11. CASE ClientRaises
  <2>1. UNCHANGED <<upload, offset, consumed, download, downloadEnded, downloadRead>> /\ cpc' = "raised"
    BY <1>11 DEF ClientRaises, Down!AnnounceBreak, uploadVars, downloadVars
  <2> QED BY <1>2, <1>3, <2>1 DEF ClientInv, Consumed
<1> QED BY <1>4, <1>5, <1>6, <1>7, <1>8, <1>9, <1>10, <1>11 DEF ClientStep

-----------------------------------------------------------------------------
(* The steps of the server.                                                 *)

\* Only what is sent can disturb what the client knows of the download.
LEMMA ServerKeepsClient ==
  ASSUME IInv, ServerStep \/ ReturnResult \/ ServerRaises,
         Consumed => Consumed'
  PROVE  ClientInv'
<1>1. UNCHANGED <<clientVars, upload, downloadRead>>
  BY DEF ServerStep, ReturnResult, ServerRaises, ReceiveRequest, ServePart, EndServing,
         ReceiveCompletion, ReadLine, Down!Send, Up!AnnounceBreak, uploadVars, downloadVars
<1> QED BY <1>1 DEF IInv, ClientInv, clientVars

\* The server sends the file from the requested offset, ends it, and counts it
\* when the second line is there.
LEMMA ServerKeeps ==
  ASSUME IInv, ServerStep \/ ReturnResult \/ ServerRaises
  PROVE  IInv'
<1> USE DEF IInv
<1>1. TypeOK'
  BY TypeServer
<1>2. /\ Len(upload) \in Nat /\ Len(uploadRead) \in Nat /\ Len(download) \in Nat
      /\ offset \in Nat /\ served \in Nat /\ FileLength \in Nat
  BY LenProperties, TransferAssumption DEF TypeOK
<1>3. ASSUME UNCHANGED downloadVars, UNCHANGED clientVars, ServerInv'
      PROVE  IInv'
  <2>1. ClientInv'
    BY <1>3, ServerKeepsClient DEF Consumed, downloadVars, clientVars
  <2>2. FileInv'
    BY <1>3 DEF FileInv, downloadVars, clientVars
  <2> QED BY <1>1, <1>3, <2>1, <2>2
<1>4. CASE ReceiveRequest
  <2>1. Len(uploadRead) = 0 /\ Len(download) = 0 /\ ~downloadEnded
    BY <1>4 DEF ReceiveRequest, ServerInv
  <2>2. NextLine = Request(offset)
    BY <1>2, <1>4, <2>1 DEF ReceiveRequest, ReadLine, NextLine, ClientInv
  <2>3. served' = offset
    BY <1>4, <2>2 DEF ReceiveRequest, Request
  <2>4. spc' = "serve" /\ UNCHANGED <<downloadVars, clientVars>>
    BY <1>4 DEF ReceiveRequest
  <2>5. ServerInv'
    BY <1>2, <2>1, <2>3, <2>4 DEF ServerInv, Counted, downloadVars, clientVars
  <2> QED BY <1>3, <2>4, <2>5
<1>5. CASE ServePart
  <2> DEFINE next == served + 1
             longer == Append(download, next)
  <2>1. ~downloadEnded /\ served = offset + Len(download) /\ served < FileLength
    BY <1>5 DEF ServePart, ServerInv
  <2>2. /\ served' = next /\ download' = longer /\ downloadEnded' = FALSE
        /\ UNCHANGED <<offset, spc>> /\ spc = "serve"
    BY <1>5 DEF ServePart, clientVars
  <2>3. next \in Nat
    BY <1>2
  <2>4. /\ Len(longer) = Len(download) + 1
        /\ \A i \in 1..Len(download) : longer[i] = download[i]
        /\ longer[Len(download) + 1] = next
    BY <2>3, AppendProperties DEF TypeOK
  <2>5. next = offset + Len(longer)
    BY <1>2, <2>1, <2>4
  <2>6. \A i \in 1..Len(longer) : longer[i] = offset + i
    BY <1>2, <2>1, <2>4 DEF FileInv
  <2>7. offset + Len(longer) <= FileLength
    BY <1>2, <2>1, <2>4
  <2> HIDE DEF next, longer
  <2>8. FileInv'
    BY <2>2, <2>6, <2>7 DEF FileInv
  <2>9. ServerInv'
    BY <2>2, <2>5 DEF ServerInv, Counted
  <2>10. ClientInv'
    BY <2>1, ServerKeepsClient DEF Consumed
  <2> QED BY <1>1, <2>8, <2>9, <2>10
<1>6. CASE EndServing
  <2>1. ~downloadEnded /\ served = offset + Len(download) /\ served >= FileLength
    BY <1>6 DEF EndServing, ServerInv
  <2>2. downloadEnded' = TRUE /\ UNCHANGED <<download, offset>> /\ spc' = "waitCompletion"
    BY <1>6 DEF EndServing, clientVars
  <2>3. FileInv'
    BY <1>2, <2>1, <2>2 DEF FileInv
  <2>4. ServerInv'
    BY <2>2 DEF ServerInv, Counted
  <2>5. ClientInv'
    BY <2>1, ServerKeepsClient DEF Consumed
  <2> QED BY <1>1, <2>3, <2>4, <2>5
<1>7. CASE ReceiveCompletion
  <2>1. /\ spc' \in {"waitClosed", "raised"} /\ UNCHANGED <<downloadVars, clientVars, upload>>
        /\ Len(uploadRead) < Len(upload) /\ NextLine.type = "completion"
    BY <1>7 DEF ReceiveCompletion, ReadLine
  <2>2. Len(uploadRead) # 0
    <3> SUFFICES ASSUME Len(uploadRead) = 0 PROVE FALSE
      OBVIOUS
    <3>1. NextLine = Request(offset)
      BY <1>2, <2>1 DEF NextLine, ClientInv
    <3> QED BY <2>1, <3>1 DEF Request
  <2>3. Len(upload) = 2
    <3> DEFINE n == Len(upload)
               r == Len(uploadRead)
    <3>1. n \in Nat /\ r \in Nat /\ r # 0 /\ r < n
      BY <1>2, <2>1, <2>2
    <3>2. n <= 2
      BY DEF ClientInv
    <3> HIDE DEF n, r
    <3>3. n = 2
      BY <3>1, <3>2
    <3> QED BY <3>3 DEF n
  <2>4. ServerInv'
    BY <2>1, <2>3 DEF ServerInv, Counted
  <2> QED BY <1>3, <2>1, <2>4
<1>9. CASE ReturnResult
  <2>1. UNCHANGED <<downloadVars, clientVars, upload>> /\ spc = "waitClosed" /\ spc' = "complete"
    BY <1>9 DEF ReturnResult, uploadVars
  <2>2. ServerInv'
    BY <2>1 DEF ServerInv, Counted
  <2> QED BY <1>3, <2>1, <2>2
<1>10. CASE ServerRaises
  BY <1>3, <1>10 DEF ServerRaises, ServerInv, Counted
<1> QED BY <1>4, <1>5, <1>6, <1>7, <1>9, <1>10 DEF ServerStep

-----------------------------------------------------------------------------
(* The theorems.                                                             *)

LEMMA InitHolds == Init => IInv
<1> SUFFICES ASSUME Init PROVE IInv
  OBVIOUS
<1> USE DEF Init, Up!Init, Down!Init
<1>1. offset \in Nat
  BY TransferAssumption
<1>2. /\ upload = <<>> /\ uploadRead = <<>> /\ download = <<>> /\ downloadRead = <<>>
      /\ <<>> \in Seq(Message) /\ <<>> \in Seq(Nat) /\ Len(<<>>) = 0
  OBVIOUS
<1>3. TypeOK
  <2>1. {upload, uploadRead} \subseteq Seq(Message) /\ {download, downloadRead} \subseteq Seq(Nat)
    BY <1>2
  <2>2. {alive, finArrived, finAcked} \subseteq [Side -> BOOLEAN]
    OBVIOUS
  <2>3. {offset, consumed, served} \subseteq Nat
    BY <1>1
  <2>4. {cleanClose, uploadEnded, downloadEnded} \subseteq BOOLEAN
    OBVIOUS
  <2>5. {uploadStatus, downloadStatus} \subseteq Status
    BY DEF Status
  <2> QED BY <2>1, <2>2, <2>3, <2>4, <2>5 DEF TypeOK
<1>4. ClientInv /\ ServerInv /\ FileInv
  BY <1>1, <1>2 DEF ClientInv, ServerInv, FileInv, Counted
<1> QED BY <1>3, <1>4 DEF IInv

LEMMA StepKeeps == IInv /\ [Next]_vars => IInv'
<1> SUFFICES ASSUME IInv, [Next]_vars PROVE IInv'
  OBVIOUS
<1>1. CASE ClientStep \/ Abandon \/ ClientRaises
  BY <1>1, ClientKeeps
<1>2. CASE ServerStep \/ ReturnResult \/ ServerRaises
  BY <1>2, ServerKeeps
<1>3. CASE TransportStep \/ \E side \in Side : Lose(side)
  <2>1. PICK side \in Side : FinArrives(side) \/ AckArrives(side) \/ Lose(side)
    BY <1>3 DEF TransportStep
  <2> QED BY <2>1, TransportKeeps
<1>4. CASE UNCHANGED vars
  BY <1>4 DEF vars, clientVars, serverVars, uploadVars, downloadVars, transportVars,
              IInv, TypeOK, ClientInv, ServerInv, FileInv, Consumed, Counted
<1> QED BY <1>1, <1>2, <1>3, <1>4 DEF Next

\* The inductive invariant holds in every state.
LEMMA Invariant == Spec => []IInv
BY InitHolds, StepKeeps, PTL DEF Spec

\* Every variable of a transfer keeps its type.
THEOREM TypeCorrect == Spec => []TypeOK
<1>1. IInv => TypeOK
  BY DEF IInv
<1> QED BY <1>1, Invariant, PTL

\* What the server counts as complete was consumed by the client's program to
\* the last part.
THEOREM ConsumedCorrect == Spec => []CountedMeansConsumed
<1>1. IInv => CountedMeansConsumed
  BY DEF IInv, ServerInv, ClientInv, Consumed, CountedMeansConsumed
<1> QED BY <1>1, Invariant, PTL

\* What either side counts as complete is the file from the offset to its end.
THEOREM WholeFileCorrect == Spec => []WholeFile
<1>1. IInv => WholeFile
  <2> SUFFICES ASSUME IInv, Counted \/ cpc = "done"
               PROVE  downloadRead = [i \in 1..(IF offset < FileLength THEN FileLength - offset ELSE 0)
                                        |-> offset + i]
    BY DEF WholeFile
  <2>1. Consumed
    BY DEF IInv, ServerInv, ClientInv
  <2>2. /\ download \in Seq(Nat) /\ Len(download) \in Nat
        /\ offset \in Nat /\ FileLength \in Nat
    BY LenProperties, TransferAssumption DEF IInv, TypeOK
  <2>3. Len(download) = IF offset < FileLength THEN FileLength - offset ELSE 0
    BY <2>1, <2>2 DEF IInv, FileInv, Consumed
  <2>4. download = [i \in 1..Len(download) |-> download[i]]
    BY <2>2, LenProperties
  <2>5. download = [i \in 1..Len(download) |-> offset + i]
    BY <2>4 DEF IInv, FileInv
  <2> QED BY <2>1, <2>3, <2>5 DEF Consumed
<1> QED BY <1>1, Invariant, PTL
=============================================================================
