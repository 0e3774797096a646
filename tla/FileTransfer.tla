----------------------------- MODULE FileTransfer -----------------------------
(***************************************************************************)
(* The file protocol of QUIC.py: a client asks for a file from an offset,    *)
(* the server sends it and ends its direction, the client's program consumes *)
(* it, and only then the client reports how much it got and ends its own     *)
(* direction.  Both sides then wait for the stream to close, linger for a    *)
(* moment and close their connection without telling the peer.               *)
(*                                                                           *)
(* Each direction of the stream is a ByteStream, which is what StreamReceive *)
(* implements.  Of the transport below only this is kept: that the FIN of a  *)
(* direction arrived (and with it everything before), and that the sender    *)
(* saw it acknowledged.  Packets may be under way when a side closes, so both *)
(* may still happen afterwards, or never.  A part of the file is its number, *)
(* and stands for any number of bytes.                                       *)
(***************************************************************************)
EXTENDS Naturals, Sequences

CONSTANTS
  FileLength,  \* how many parts the file has
  Offsets      \* where the client may ask the server to begin

ASSUME TransferAssumption ==
  /\ FileLength \in Nat
  /\ Offsets \subseteq Nat

VARIABLES
  cpc,             \* where QUICFileClient.iterDownload is
  offset,          \* its argument
  consumed,        \* how many parts the program is done with
  spc,             \* where QUICFileServer.serve is
  served,          \* the next part of its iterator
  cleanClose,      \* the last field of its result
  alive,           \* alive[side]: the connection neither failed nor was closed
  upload,          \* what the client sent
  uploadEnded,     \* ... and its FIN
  uploadRead,      \* what the server read of it
  uploadStatus,    \* what the server knows of that direction
  download,        \* what the server sent
  downloadEnded,   \* ... and its FIN
  downloadRead,    \* what iterReceive returned
  downloadStatus,  \* what the client knows of that direction
  finArrived,      \* the side has all of the peer's data and its FIN (external)
  finAcked         \* the side's own data and FIN are acknowledged (external)

clientVars == <<cpc, offset, consumed>>
serverVars == <<spc, served, cleanClose>>
uploadVars == <<upload, uploadEnded, uploadRead, uploadStatus>>
downloadVars == <<download, downloadEnded, downloadRead, downloadStatus>>
transportVars == <<alive, finArrived, finAcked>>
vars == <<clientVars, serverVars, uploadVars, downloadVars, transportVars>>

Up == INSTANCE ByteStream WITH
  sent <- upload, finished <- uploadEnded, received <- uploadRead, status <- uploadStatus

Down == INSTANCE ByteStream WITH
  sent <- download, finished <- downloadEnded, received <- downloadRead, status <- downloadStatus

Side == {"client", "server"}
Peer(side) == IF side = "client" THEN "server" ELSE "client"

Request(from) == [type |-> "request", value |-> from]
Completion(count) == [type |-> "completion", value |-> count]

Message == [type : {"request", "completion"}, value : Nat]
Status == {"open", "ended", "failed", "timedOut"}

TypeOK ==
  /\ cpc \in {"request", "receive", "yielded", "complete", "fin", "waitAcked", "waitClosed",
              "done", "raised", "abandoned"}
  /\ spc \in {"waitRequest", "serve", "waitCompletion", "waitClosed", "complete", "raised"}
  /\ {offset, consumed, served} \subseteq Nat
  /\ {cleanClose, uploadEnded, downloadEnded} \subseteq BOOLEAN
  /\ {alive, finArrived, finAcked} \subseteq [Side -> BOOLEAN]
  /\ {upload, uploadRead} \subseteq Seq(Message)
  /\ {download, downloadRead} \subseteq Seq(Nat)
  /\ {uploadStatus, downloadStatus} \subseteq Status

Init ==
  /\ cpc = "request"
  /\ offset \in Offsets
  /\ consumed = 0
  /\ spc = "waitRequest"
  /\ served = 0
  /\ cleanClose = FALSE
  /\ alive = [side \in Side |-> TRUE]
  /\ Up!Init
  /\ Down!Init
  /\ finArrived = [side \in Side |-> FALSE]
  /\ finAcked = [side \in Side |-> FALSE]

-----------------------------------------------------------------------------
(* The client.                                                              *)

SendUp(message) ==
  /\ alive["client"]
  /\ upload' = Append(upload, message)
  /\ uploadEnded' = FALSE
  /\ Up!Send

\* connect has returned: the handshake is complete.
SendRequest ==
  /\ cpc = "request"
  /\ SendUp(Request(offset))
  /\ cpc' = "receive"
  /\ UNCHANGED <<offset, consumed, serverVars, downloadVars, transportVars>>

\* The generator yields what has arrived.
ReceiveParts ==
  /\ cpc = "receive"
  /\ \E n \in DOMAIN download : downloadRead' = SubSeq(download, 1, n)
  /\ UNCHANGED <<download, downloadEnded, downloadStatus>>
  /\ Down!Deliver
  /\ cpc' = "yielded"
  /\ UNCHANGED <<offset, consumed, serverVars, uploadVars, transportVars>>

\* The program asks for more: it is done with what it was given.
AskForMore ==
  /\ cpc = "yielded"
  /\ consumed' = Len(downloadRead)
  /\ cpc' = "receive"
  /\ UNCHANGED <<offset, serverVars, uploadVars, downloadVars, transportVars>>

\* mutant: a program that drops the generator completes the download as well
\* (the completion in a finally clause).
AbandonCompleting ==
  /\ cpc = "yielded"
  /\ cpc' = "complete"
  /\ UNCHANGED <<offset, consumed, serverVars, uploadVars, downloadVars, transportVars>>

\* The program drops the generator, perhaps in the middle of the last part.
Abandon ==
  /\ cpc = "yielded"
  /\ cpc' = "abandoned"
  /\ UNCHANGED <<offset, consumed, serverVars, uploadVars, downloadVars, transportVars>>

\* An empty result of receive: the peer's direction is read to its end.
ReceiveEnd ==
  /\ cpc = "receive"
  /\ finArrived["client"]
  /\ downloadStatus' = "ended"
  /\ Down!AnnounceEnd
  /\ cpc' = "complete"
  /\ UNCHANGED <<offset, consumed, serverVars, uploadVars, transportVars>>

SendCompletion ==
  /\ cpc = "complete"
  /\ SendUp(Completion(Len(downloadRead)))
  /\ cpc' = "fin"
  /\ UNCHANGED <<offset, consumed, serverVars, downloadVars, transportVars>>

SendFin ==
  /\ cpc = "fin"
  /\ alive["client"]
  /\ uploadEnded' = TRUE
  /\ UNCHANGED upload
  /\ Up!Send
  /\ cpc' = "waitAcked"
  /\ UNCHANGED <<offset, consumed, serverVars, downloadVars, transportVars>>

SeeAcknowledged ==
  /\ cpc = "waitAcked"
  /\ finAcked["client"]
  /\ cpc' = "waitClosed"
  /\ UNCHANGED <<offset, consumed, serverVars, uploadVars, downloadVars, transportVars>>

\* ngtcp2 closes a stream when both directions are complete on this side.
StreamClosed(side) == finAcked[side] /\ finArrived[side]

\* waitForCleanClose sees the stream closed, waits 50 ms, and the download is over.
SeeClosed ==
  /\ cpc = "waitClosed"
  /\ StreamClosed("client")
  /\ cpc' = "done"
  /\ UNCHANGED <<offset, consumed, serverVars, uploadVars, downloadVars, transportVars>>

\* A wait reaches its deadline, or the connection failed and a call says so.
ClientWaiting == {"request", "receive", "complete", "fin", "waitAcked", "waitClosed"}
ClientRaises ==
  /\ cpc \in ClientWaiting
  /\ IF cpc = "receive"
       THEN downloadStatus' \in {"failed", "timedOut"} /\ Down!AnnounceBreak
       ELSE UNCHANGED downloadVars
  /\ cpc' = "raised"
  /\ UNCHANGED <<offset, consumed, serverVars, uploadVars, transportVars>>

-----------------------------------------------------------------------------
(* The server.                                                              *)

NextLine == upload[Len(uploadRead) + 1]

\* _receiveClientLine: a whole line is in the buffer.  It raises at an end of the
\* direction before the line, which this client never makes.
ReadLine(type) ==
  /\ Len(uploadRead) < Len(upload)
  /\ NextLine.type = type
  /\ uploadRead' = Append(uploadRead, NextLine)
  /\ UNCHANGED <<upload, uploadEnded, uploadStatus>>
  /\ Up!Deliver

ReceiveRequest ==
  /\ spc = "waitRequest"
  /\ ReadLine("request")
  /\ served' = NextLine.value
  /\ spc' = "serve"
  /\ UNCHANGED <<clientVars, cleanClose, downloadVars, transportVars>>

\* The iterator yields the next part, and it is sent (an empty one is skipped).
ServePart ==
  /\ spc = "serve"
  /\ alive["server"]
  /\ served < FileLength
  /\ served' = served + 1
  /\ download' = Append(download, served')
  /\ downloadEnded' = FALSE
  /\ Down!Send
  /\ UNCHANGED <<clientVars, spc, cleanClose, uploadVars, transportVars>>

\* mutant: an empty part ends the file instead of being skipped.
EndServingAtEmptyPart ==
  /\ spc = "serve"
  /\ alive["server"]
  /\ downloadEnded' = TRUE
  /\ UNCHANGED download
  /\ Down!Send
  /\ spc' = "waitCompletion"
  /\ UNCHANGED <<clientVars, served, cleanClose, uploadVars, transportVars>>

\* mutant: the FIN is left to the end of the call, after the completion.
EndServingLater ==
  /\ spc = "serve"
  /\ alive["server"]
  /\ served >= FileLength
  /\ spc' = "waitCompletion"
  /\ UNCHANGED <<clientVars, served, cleanClose, uploadVars, downloadVars, transportVars>>

\* The iterator is exhausted: the FIN follows.
EndServing ==
  /\ spc = "serve"
  /\ alive["server"]
  /\ served >= FileLength
  /\ downloadEnded' = TRUE
  /\ UNCHANGED download
  /\ Down!Send
  /\ spc' = "waitCompletion"
  /\ UNCHANGED <<clientVars, served, cleanClose, uploadVars, transportVars>>

\* _receiveCompletion accepts the count of what was sent and nothing else.
ReceiveCompletion ==
  /\ spc = "waitCompletion"
  /\ ReadLine("completion")
  /\ spc' = IF NextLine.value = Len(download) THEN "waitClosed" ELSE "raised"
  /\ UNCHANGED <<clientVars, served, cleanClose, downloadVars, transportVars>>

\* waitForCleanClose returns after its 50 ms, or at its deadline with what it
\* sees then; serve returns its result in both cases.
ReturnResult ==
  /\ spc = "waitClosed"
  /\ cleanClose' = StreamClosed("server")
  /\ spc' = "complete"
  /\ UNCHANGED <<clientVars, served, uploadVars, downloadVars, transportVars>>

\* The iterator raises, a wait reaches its deadline, or the connection failed.
ServerWaiting == {"waitRequest", "serve", "waitCompletion"}
ServerRaises ==
  /\ \/ spc \in ServerWaiting
     \/ spc = "waitClosed" /\ ~alive["server"]
  /\ IF spc \in {"waitRequest", "waitCompletion"}
       THEN uploadStatus' \in {"failed", "timedOut"} /\ Up!AnnounceBreak
       ELSE UNCHANGED uploadVars
  /\ spc' = "raised"
  /\ UNCHANGED <<clientVars, served, cleanClose, downloadVars, transportVars>>

-----------------------------------------------------------------------------
(* The transport.                                                           *)

Ended(side) == IF side = "client" THEN uploadEnded ELSE downloadEnded
Over(side) ==
  IF side = "client" THEN cpc \in {"done", "raised", "abandoned"} ELSE spc \in {"complete", "raised"}

\* The peer's FIN arrives after everything before it.
FinArrives(side) ==
  /\ alive[side]
  /\ Ended(Peer(side)) /\ ~finArrived[side]
  /\ finArrived' = [finArrived EXCEPT ![side] = TRUE]
  /\ UNCHANGED <<clientVars, serverVars, uploadVars, downloadVars, alive, finAcked>>

\* The acknowledgement of the side's FIN arrives.
AckArrives(side) ==
  /\ alive[side]
  /\ finArrived[Peer(side)] /\ ~finAcked[side]
  /\ finAcked' = [finAcked EXCEPT ![side] = TRUE]
  /\ UNCHANGED <<clientVars, serverVars, uploadVars, downloadVars, alive, finArrived>>

\* The connection fails, or the program closes it when the call is over.
Lose(side) ==
  /\ alive[side]
  /\ alive' = [alive EXCEPT ![side] = FALSE]
  /\ UNCHANGED <<clientVars, serverVars, uploadVars, downloadVars, finArrived, finAcked>>

ClientStep == \/ SendRequest \/ ReceiveParts \/ AskForMore \/ ReceiveEnd
              \/ SendCompletion \/ SendFin \/ SeeAcknowledged \/ SeeClosed

ServerStep == ReceiveRequest \/ ServePart \/ EndServing \/ ReceiveCompletion

TransportStep == \E side \in Side : FinArrives(side) \/ AckArrives(side)

Next ==
  \/ ClientStep \/ Abandon \/ ClientRaises
  \/ ServerStep \/ ReturnResult \/ ServerRaises
  \/ TransportStep
  \/ \E side \in Side : Lose(side)

Spec == Init /\ [][Next]_vars

\* Both programs go on with their calls, the server's wait for a clean close
\* returns, and while both connections are up QUIC brings every FIN and every
\* acknowledgement to the other side.  Deadlines, failures and a program that
\* drops its download are not fair.
FairSpec ==
  /\ Spec
  /\ WF_vars(ClientStep)
  /\ WF_vars(ServerStep)
  /\ WF_vars(ReturnResult)
  /\ \A side \in Side :
       /\ WF_vars(alive[Peer(side)] /\ FinArrives(side))
       /\ WF_vars(alive[Peer(side)] /\ AckArrives(side))

-----------------------------------------------------------------------------
(* Properties.                                                              *)

Counted == spc \in {"waitClosed", "complete"}

\* "the sender only counts the download complete after Python has consumed every
\* byte" (QUIC.py:246), also when the client then fails or vanishes, because its
\* last acknowledgement was lost or because its program dropped the generator.
CountedMeansConsumed == Counted => downloadRead = download /\ consumed = Len(download)

\* A transfer that either side counts as complete brought the file from the
\* offset to its end: a server that fails in the middle, or parts that come to
\* nothing, never look like the end of the file.
WholeFile ==
  Counted \/ cpc = "done" =>
    downloadRead = [i \in 1..(IF offset < FileLength THEN FileLength - offset ELSE 0) |-> offset + i]

\* A side gave up: its call raised, its program dropped the download, or its
\* connection was lost before the call was over.
Broken ==
  \/ cpc \in {"raised", "abandoned"} \/ spc = "raised"
  \/ \E side \in Side : ~alive[side] /\ ~Over(side)

\* Neither side waits for the other for ever: unless something breaks, the
\* server counts the transfer, although the client may close its connection as
\* soon as it saw its own direction acknowledged.
TransferCompletes == <>(spc = "complete" \/ Broken)
=============================================================================
