-------------------------- MODULE QUICSessionProofs --------------------------
(***************************************************************************)
(* Proofs about QUICSession, for any sessions, starts and datagrams: its     *)
(* type, that the pointers between agent and sessions are good, and that a   *)
(* send's check of the agent holds until the send returns.                   *)
(***************************************************************************)
EXTENDS QUICSession, SequenceTheorems, TLAPS

BoundPC == (AttachedPC \ {"bind"}) \cup ResetPC
ReferencePC == {"attach", "bind", "queueStart", "startWait", "unbindStart", "resetStart", "drop", "running"}
Attaching(s) == (bound[s] /\ pc[s] \notin ResetPC) \/ pc[s] = "bind"

\* The sink, the call in it and the binding agree, and a reference holds them up.
Attachment ==
  /\ \A s \in Session : bound[s] => pc[s] \in BoundPC /\ s \in refs
  /\ \A s \in Session : pc[s] \in ReferencePC => s \in refs
  /\ sink # NoSession => Attaching(sink)
  /\ ice # Idle => sink = ice.on
  /\ \A s \in Session : Attaching(s) /\ ~closed => sink = s
  /\ freed => refs = {} /\ ~wrapper /\ sink = NoSession

\* What a stopped connection is left with, and what the answer of a call says.
Answers ==
  /\ \A s \in Session : stopped[s] =>
       ops[s] \subseteq {Op("Shutdown")} /\ peer[s] = NoSession /\ ~sending[s]
  /\ \A s \in Session : pc[s] \in {"attach", "bind", "queueStart"} => answer[s] = "none"
  /\ \A s \in Session : pc[s] = "startWait" /\ answer[s] = "error" => stopped[s]
  /\ \A s \in Session : pc[s] = "closeWait" /\ answer[s] # "none" => stopped[s]

\* A session that did not give up detaches only when its Worker is done with it,
\* and did not lose its agent.
Closing ==
  /\ ~juice => closed
  /\ \A s \in Session \ overtaken : Attaching(s) => ~closed
  /\ \A s \in Session \ overtaken : sending[s] => bound[s]
  /\ \A s \in Session \ overtaken : pc[s] \in {"unbindStart", "unbindClose"} \cup ResetPC => stopped[s]

InductiveInv == Attachment /\ Answers /\ Closing

-----------------------------------------------------------------------------
(* Types.                                                                   *)

LEMMA ICECall ==
  \A i \in ICEType : i # Idle => i.on \in Session /\ i.datagram \in DatagramType
<1>1. ASSUME NEW i \in [at : InSinkPC, on : Session, datagram : DatagramType]
      PROVE  i.on \in Session /\ i.datagram \in DatagramType
  OBVIOUS
<1> QED
  BY <1>1 DEF ICEType

LEMMA GotoType ==
  ASSUME TypeOK, NEW s \in Session, NEW label \in CallPC, Goto(s, label)
  PROVE  pc' \in [Session -> CallPC]
BY DEF TypeOK, Goto

LEMMA QueuedType ==
  ASSUME TypeOK, NEW s \in Session, NEW op \in Operation
  PROVE  Queued(s, op) \in SUBSET Operation
BY DEF TypeOK, Queued

LEMMA OperationsExist ==
  /\ \A type \in {"FlushRecv", "FlushSend", "TimerExpired", "Shutdown"} : Op(type) \in Operation
  /\ \A n \in 0 .. MaxStarts : StartOp(n) \in Operation
  /\ Flush \in SUBSET Operation
BY SessionAssumption DEF Operation, Op, StartOp, Flush

LEMMA TypeInit == Init => TypeOK
<1> SUFFICES ASSUME Init PROVE TypeOK
  OBVIOUS
<1>1. /\ role \in {"client", "server"} /\ initial \in [Session -> BOOLEAN]
      /\ closed \in BOOLEAN /\ juice \in BOOLEAN /\ wrapper \in BOOLEAN /\ freed \in BOOLEAN
      /\ sink \in Session \cup {NoSession} /\ refs \subseteq Session
      /\ ice \in ICEType /\ pc \in [Session -> CallPC]
  BY DEF Init, ICEType, CallPC
<1>2. /\ starts \in [Session -> 0 .. MaxStarts]
      /\ ops \in [Session -> SUBSET Operation]
      /\ rx \in [Session -> Seq(DatagramType)]
      /\ peer \in [Session -> PeerSession \cup {NoSession}]
      /\ strays \subseteq Session /\ overtaken \subseteq Session
  BY SessionAssumption DEF Init
<1>3. /\ bound \in [Session -> BOOLEAN] /\ started \in [Session -> BOOLEAN]
      /\ stopped \in [Session -> BOOLEAN] /\ receivePending \in [Session -> BOOLEAN]
      /\ complete \in [Session -> BOOLEAN] /\ sending \in [Session -> BOOLEAN]
  BY DEF Init
<1>4. answer \in [Session -> {"none", "ok", "error"}] /\ heard \in [PeerSession -> BOOLEAN]
  <2>1. \A s \in PeerSession : (s \in Foreign) \in BOOLEAN
    OBVIOUS
  <2> QED
    BY <2>1, Zenon DEF Init
<1> QED
  BY <1>1, <1>2, <1>3, <1>4 DEF TypeOK

LEMMA AnsweredType ==
  ASSUME TypeOK, NEW s \in Session, NEW O, NEW result \in {"ok", "error"},
         Answered(s, O, result)
  PROVE  answer' \in [Session -> {"none", "ok", "error"}]
BY DEF TypeOK, Answered

LEMMA FinishType ==
  ASSUME TypeOK, NEW s \in Session, NEW op, NEW left \in SUBSET Operation,
         Finish(s, op, left)
  PROVE  ops' \in [Session -> SUBSET Operation]
BY DEF TypeOK, Finish

LEMMA StopType ==
  ASSUME TypeOK, NEW s \in Session, NEW result \in {"ok", "error"}, Stop(s, result)
  PROVE  /\ stopped' \in [Session -> BOOLEAN]
         /\ peer' \in [Session -> PeerSession \cup {NoSession}]
         /\ complete' \in [Session -> BOOLEAN]
         /\ answer' \in [Session -> {"none", "ok", "error"}]
         /\ ops' \in [Session -> SUBSET Operation]
         /\ rx' \in [Session -> Seq(DatagramType)]
         /\ receivePending' \in [Session -> BOOLEAN]
BY AnsweredType DEF TypeOK, Stop

LEMMA AppendType ==
  ASSUME TypeOK, NEW s \in Session, NEW d \in DatagramType, AppendDatagram(s, d)
  PROVE  rx' \in [Session -> Seq(DatagramType)]
<1>1. rx[s] \in Seq(DatagramType) /\ Append(rx[s], d) \in Seq(DatagramType)
  BY DEF TypeOK
<1> QED
  BY <1>1 DEF TypeOK, AppendDatagram

LEMMA TypeCall ==
  ASSUME TypeOK, NEW s \in Session, SessionStep(s)
  PROVE  TypeOK'
<1> USE DEF agentVars, callVars, runtimeVars, worldVars, CallPC, AttachedPC, ResetPC
<1>1. CASE BeginStart(s)
  <2>1. starts' \in [Session -> 0 .. MaxStarts]
    BY <1>1, SessionAssumption DEF BeginStart, TypeOK
  <2> QED
    BY <1>1, <2>1, GotoType DEF BeginStart, TypeOK
<1>2. CASE Attach(s)
  BY <1>2, GotoType DEF Attach, TypeOK
<1>3. CASE Bind(s)
  BY <1>3, GotoType DEF Bind, TypeOK
<1>4. CASE QueueStart(s)
  <2>1. Queued(s, StartOp(starts[s])) \in SUBSET Operation
    BY OperationsExist, QueuedType DEF TypeOK
  <2> QED
    BY <1>4, <2>1, GotoType DEF QueueStart, TypeOK
<1>5. CASE StartSucceeds(s)
  <2>1. [for |-> s, kind |-> "Initial"] \in DatagramType
    BY DEF DatagramType, PeerSession, Kind
  <2>2. rx' \in [Session -> Seq(DatagramType)]
    BY <1>5, <2>1, AppendType DEF StartSucceeds, TypeOK
  <2>3. Queued(s, Op("FlushRecv")) \in SUBSET Operation
    BY OperationsExist, QueuedType
  <2>4. ops' \in [Session -> SUBSET Operation] /\ receivePending' \in [Session -> BOOLEAN]
    <3>1. \/ ops' = [ops EXCEPT ![s] = Queued(s, Op("FlushRecv"))]
          \/ ops' = ops
      BY <1>5, Zenon DEF StartSucceeds
    <3>2. ops' \in [Session -> SUBSET Operation]
      BY <2>3, <3>1 DEF TypeOK
    <3>3. \/ receivePending' = [receivePending EXCEPT ![s] = @ \/ ~stopped[s]]
          \/ receivePending' = receivePending
      BY <1>5, Zenon DEF StartSucceeds
    <3>4. receivePending' \in [Session -> BOOLEAN]
      BY <3>3, Zenon DEF TypeOK
    <3> QED
      BY <3>2, <3>4
  <2> QED
    BY <1>5, <2>2, <2>4, GotoType DEF StartSucceeds, TypeOK
<1>6. CASE StartFails(s)
  BY <1>6, GotoType DEF StartFails, TypeOK
<1>7. CASE StartTimesOut(s)
  BY <1>7, GotoType DEF StartTimesOut, TypeOK
<1>8. CASE BeginClose(s)
  <2>1. Queued(s, Op("Shutdown")) \in SUBSET Operation
    BY OperationsExist, QueuedType
  <2> QED
    BY <1>8, <2>1, GotoType DEF BeginClose, TypeOK
<1>9. CASE CloseAnswered(s)
  BY <1>9, GotoType DEF CloseAnswered, TypeOK
<1>10. CASE CloseTimesOut(s)
  BY <1>10, GotoType DEF CloseTimesOut, TypeOK
<1>11. CASE Detach(s)
  BY <1>11, GotoType DEF Detach, AfterDetach, TypeOK
<1>r. CASE ResetBinding(s)
  BY <1>r, GotoType DEF ResetBinding, AfterDetach, TypeOK
<1>12. CASE ReleaseReference(s)
  <2>1. initial' \in [Session -> BOOLEAN]
    BY <1>12 DEF ReleaseReference, TypeOK
  <2> QED
    BY <1>12, <2>1, GotoType DEF ReleaseReference, TypeOK
<1> QED
  BY <1>1, <1>2, <1>3, <1>4, <1>5, <1>6, <1>7, <1>8, <1>9, <1>10, <1>11, <1>12, <1>r
  DEF SessionStep, CallStep

LEMMA TypeWorker ==
  ASSUME TypeOK, NEW s \in Session, WorkerStep(s)
  PROVE  TypeOK'
<1> USE DEF agentVars, callVars, runtimeVars, worldVars
<1>1. ASSUME NEW n \in 1 .. MaxStarts, ProcessStart(s, n) PROVE TypeOK'
  <2>1. CASE started[s]
    BY <1>1, <2>1, StopType DEF ProcessStart, Throw, TypeOK
  <2>2. CASE ~started[s]
    <3>1. Finish(s, StartOp(n), Flush) \/ Finish(s, StartOp(n), {})
      BY <1>1, <2>2 DEF ProcessStart
    <3>2. ops' \in [Session -> SUBSET Operation]
      BY <3>1, FinishType, OperationsExist
    <3>3. peer' = [peer EXCEPT ![s] = s] \/ peer' = peer
      BY <1>1, <2>2 DEF ProcessStart
    <3>4. peer' \in [Session -> PeerSession \cup {NoSession}]
      BY <3>3 DEF TypeOK, PeerSession
    <3>5. answer' \in [Session -> {"none", "ok", "error"}]
      BY <1>1, <2>2, AnsweredType DEF ProcessStart
    <3> QED
      BY <1>1, <2>2, <3>2, <3>4, <3>5 DEF ProcessStart, TypeOK
  <2> QED
    BY <2>1, <2>2
<1>2. CASE ProcessReceive(s)
  <2>1. strays' \subseteq Session
    BY <1>2 DEF ProcessReceive, TypeOK
  <2>2. CASE Refuses(s)
    BY <1>2, <2>1, <2>2, StopType DEF ProcessReceive, Throw, TypeOK
  <2>3. CASE ~Refuses(s)
    <3>1. HandshakeWith(s) \in PeerSession \cup {NoSession}
      <4>1. rx[s] \in Seq(DatagramType) /\ peer[s] \in PeerSession \cup {NoSession}
        BY DEF TypeOK
      <4>2. rx[s] # <<>> => Head(rx[s]) \in DatagramType
        BY <4>1
      <4>3. rx[s] # <<>> => Head(rx[s]).for \in PeerSession
        BY <4>2 DEF DatagramType
      <4> QED
        BY <4>1, <4>3 DEF HandshakeWith, Opens
    <3>2. ops' \in [Session -> SUBSET Operation]
      BY <1>2, <2>3, FinishType, OperationsExist DEF ProcessReceive
    <3>3. rx' \in [Session -> Seq(DatagramType)] /\ receivePending' \in [Session -> BOOLEAN]
      <4>1. rx' = [rx EXCEPT ![s] = <<>>] /\ receivePending' = [receivePending EXCEPT ![s] = FALSE]
        BY <1>2, <2>3 DEF ProcessReceive
      <4>2. <<>> \in Seq(DatagramType)
        OBVIOUS
      <4> QED
        BY <4>1, <4>2, Zenon DEF TypeOK
    <3>4. peer' \in [Session -> PeerSession \cup {NoSession}]
      <4>1. peer' = [peer EXCEPT ![s] = HandshakeWith(s)]
        BY <1>2, <2>3 DEF ProcessReceive
      <4> QED
        BY <3>1, <4>1, Zenon DEF TypeOK
    <3>5. complete' \in [Session -> BOOLEAN]
      <4>1. (complete[s] \/ Finishes(s)) \in BOOLEAN
        BY DEF Finishes
      <4> QED
        BY <1>2, <2>3, <4>1, Zenon DEF ProcessReceive, TypeOK
    <3> QED
      BY <1>2, <2>1, <2>3, <3>2, <3>3, <3>4, <3>5 DEF ProcessReceive, TypeOK
  <2> QED
    BY <2>2, <2>3
<1>3. CASE BeginSend(s)
  <2>1. CASE peer[s] # NoSession /\ ~AgentUsable(s)
    BY <1>3, <2>1, StopType DEF BeginSend, Throw, TypeOK
  <2>2. CASE ~(peer[s] # NoSession /\ ~AgentUsable(s))
    <3>1. ops' \in [Session -> SUBSET Operation]
      BY <1>3, <2>2, FinishType DEF BeginSend
    <3>2. sending' \in [Session -> BOOLEAN]
      BY <1>3, <2>2, Zenon DEF BeginSend, TypeOK
    <3> QED
      BY <1>3, <2>2, <3>1, <3>2 DEF BeginSend, TypeOK
  <2> QED
    BY <2>1, <2>2
<1>4. CASE ProcessTimer(s)
  <2>1. ops' \in [Session -> SUBSET Operation]
    BY <1>4, FinishType, OperationsExist DEF ProcessTimer
  <2> QED
    BY <1>4, <2>1 DEF ProcessTimer, TypeOK
<1>5. CASE ProcessShutdown(s)
  BY <1>5, StopType DEF ProcessShutdown, TypeOK
<1>6. CASE TimerExpires(s)
  <2>1. Queued(s, Op("TimerExpired")) \in SUBSET Operation
    BY OperationsExist, QueuedType
  <2> QED
    BY <1>6, <2>1 DEF TimerExpires, TypeOK
<1>7. ASSUME NEW arrives \in BOOLEAN, Send(s, arrives) PROVE TypeOK'
  BY <1>7 DEF Send, TypeOK
<1> QED
  BY <1>1, <1>2, <1>3, <1>4, <1>5, <1>6, <1>7 DEF WorkerStep, Execute

LEMMA TypeICE ==
  ASSUME TypeOK, ICEStep \/ \E d \in DatagramType : Receive(d)
  PROVE  TypeOK'
<1> USE DEF agentVars, callVars, runtimeVars, worldVars
<1>1. ASSUME NEW d \in DatagramType, Receive(d) PROVE TypeOK'
  <2>1. ice' \in ICEType
    BY <1>1 DEF Receive, TypeOK, ICEType, InSinkPC
  <2> QED
    BY <1>1, <2>1 DEF Receive, TypeOK
<1>2. CASE InSink
  <2> DEFINE s == ice.on
             taken == bound[s] /\ ~stopped[s]
             flush == taken /\ ~receivePending[s]
  <2>1. s \in Session /\ ice.datagram \in DatagramType
    BY <1>2, ICECall DEF InSink, TypeOK
  <2>2. rx' \in [Session -> Seq(DatagramType)]
    BY <1>2, <2>1, AppendType DEF InSink, TypeOK
  <2>3. receivePending' \in [Session -> BOOLEAN]
    BY <1>2, <2>1 DEF InSink, TypeOK
  <2>4. ice' \in ICEType
    BY <1>2, <2>1 DEF InSink, TypeOK, ICEType, InSinkPC
  <2> QED
    BY <1>2, <2>2, <2>3, <2>4 DEF InSink, TypeOK
<1>3. CASE QueueFlush
  <2>1. ice.on \in Session
    BY <1>3, ICECall DEF QueueFlush, TypeOK
  <2>2. Queued(ice.on, Op("FlushRecv")) \in SUBSET Operation
    BY <2>1, OperationsExist, QueuedType
  <2>3. ice' \in ICEType
    BY <1>3 DEF QueueFlush, ICEType
  <2> QED
    BY <1>3, <2>1, <2>2, <2>3 DEF QueueFlush, TypeOK
<1> QED
  BY <1>1, <1>2, <1>3 DEF ICEStep

LEMMA TypeOwner ==
  ASSUME TypeOK, OwnerStep
  PROVE  TypeOK'
<1> USE DEF agentVars, callVars, runtimeVars, worldVars
<1>1. CASE CloseAgent
  BY <1>1 DEF CloseAgent, TypeOK
<1>2. CASE DestroyJuice \/ DropAgent \/ DeallocateAgent
  BY <1>2 DEF DestroyJuice, DropAgent, DeallocateAgent, TypeOK
<1> QED
  BY <1>1, <1>2 DEF OwnerStep

LEMMA TypeStep == TypeOK /\ [Next]_vars => TypeOK'
<1>1. ASSUME TypeOK, UNCHANGED vars PROVE TypeOK'
  BY <1>1 DEF TypeOK, vars, agentVars, callVars, runtimeVars, worldVars
<1> QED
  BY <1>1, TypeCall, TypeWorker, TypeICE, TypeOwner DEF Next

\* Every variable keeps its type.
THEOREM TypeCorrect == Spec => []TypeOK
<1> QED
  BY TypeInit, TypeStep, PTL DEF Spec

-----------------------------------------------------------------------------
(* The pointers and the answers.                                             *)

LEMMA InvInit == Init => InductiveInv
BY DEF Init, InductiveInv, Attachment, Answers, Closing, Attaching, BoundPC, ReferencePC,
       AttachedPC, ResetPC, Idle

\* What a step of the Worker of s, or a datagram for it, may not touch.
LEMMA AttachmentStays ==
  ASSUME Attachment, UNCHANGED <<bound, pc, refs, sink, ice, closed, freed, wrapper>>
  PROVE  Attachment'
BY DEF Attachment, Attaching

LEMMA AnswersStay ==
  ASSUME Answers, UNCHANGED <<pc, stopped, ops, peer, sending, answer>>
  PROVE  Answers'
BY DEF Answers

LEMMA ClosingStays ==
  ASSUME Closing, UNCHANGED <<juice, closed, bound, pc, sending, stopped, overtaken>>
  PROVE  Closing'
BY DEF Closing, Attaching

\* A thread that only moves on, with its binding as it was.
LEMMA AttachmentMoves ==
  ASSUME TypeOK, Attachment, NEW s \in Session, NEW label, Goto(s, label),
         UNCHANGED <<bound, refs, sink, ice, closed, freed, wrapper>>,
         bound[s] => label \in BoundPC,
         label \in ReferencePC => s \in refs,
         label \notin ResetPC \cup {"bind"} /\ pc[s] \notin ResetPC \cup {"bind"}
  PROVE  Attachment'
<1>1. \A t \in Session : pc'[t] = IF t = s THEN label ELSE pc[t]
  BY DEF Goto, TypeOK
<1>2. \A t \in Session : Attaching(t)' = Attaching(t)
  BY <1>1 DEF Attaching
<1>3. sink \in Session \cup {NoSession}
  BY DEF TypeOK
<1> QED
  BY <1>1, <1>2, <1>3 DEF Attachment

LEMMA AttachmentCall ==
  ASSUME TypeOK, Attachment, NEW s \in Session, SessionStep(s)
  PROVE  Attachment'
<1> USE DEF agentVars, callVars, runtimeVars, worldVars
<1>1. NoSession \notin Session
  BY SessionAssumption
<1>2. CASE BeginStart(s)
  BY <1>2 DEF BeginStart, Goto, TypeOK, Attachment, Attaching, BoundPC, AttachedPC, ResetPC, ReferencePC
<1>3. CASE Attach(s)
  <2>1. CASE Goto(s, "drop") /\ UNCHANGED sink
    BY <1>1, <1>3, <2>1 DEF Attach, LockFree, Goto, TypeOK, Attachment, Attaching, BoundPC, AttachedPC, ResetPC, ReferencePC
  <2>2. CASE Goto(s, "bind") /\ sink' = s /\ sink = NoSession /\ ~closed
    <3>1. \A t \in Session : ~Attaching(t)
      BY <1>1, <2>2 DEF Attachment
    <3>2. \A t \in Session : pc'[t] = IF t = s THEN "bind" ELSE pc[t]
      BY <2>2 DEF Goto, TypeOK
    <3>3. ice = Idle /\ pc[s] = "attach" /\ ~bound[s] /\ s \in refs /\ UNCHANGED <<bound, refs, ice, closed, freed, wrapper>>
      BY <1>3 DEF Attach, LockFree, Attachment, BoundPC, AttachedPC, ResetPC, ReferencePC
    <3>4. \A t \in Session : Attaching(t)' <=> t = s
      BY <3>1, <3>2, <3>3 DEF Attaching, ResetPC
    <3> QED
      BY <2>2, <3>2, <3>3, <3>4 DEF Attachment, ReferencePC
  <2> QED
    BY <1>3, <2>1, <2>2 DEF Attach
<1>4. CASE Bind(s)
  BY <1>4 DEF Bind, Goto, TypeOK, Attachment, Attaching, BoundPC, AttachedPC, ResetPC, ReferencePC
<1>5. CASE Detach(s)
  BY <1>1, <1>5 DEF Detach, AfterDetach, LockFree, Goto, TypeOK, Attachment, Attaching, BoundPC, AttachedPC, ResetPC, ReferencePC
<1>r. CASE ResetBinding(s)
  BY <1>1, <1>r DEF ResetBinding, AfterDetach, Goto, TypeOK, Attachment, Attaching, BoundPC, AttachedPC, ResetPC, ReferencePC
<1>6. CASE ReleaseReference(s)
  BY <1>6 DEF ReleaseReference, Goto, TypeOK, Attachment, Attaching, BoundPC, AttachedPC, ResetPC, ReferencePC
<1>7. ASSUME NEW label \in {"startWait", "running", "unbindStart"}, Goto(s, label),
             pc[s] \in {"queueStart", "startWait"},
             UNCHANGED <<bound, refs, sink, ice, closed, freed, wrapper>>
      PROVE  Attachment'
  <2>1. /\ s \in refs /\ label \in BoundPC
        /\ label \notin ResetPC \cup {"bind"} /\ pc[s] \notin ResetPC \cup {"bind"}
    BY <1>7 DEF Attachment, BoundPC, AttachedPC, ResetPC, ReferencePC
  <2> QED
    BY <1>7, <2>1, AttachmentMoves
<1>8. ASSUME NEW label \in {"closeWait", "unbindClose"}, Goto(s, label),
             pc[s] \in {"new", "running", "failed", "closeWait"},
             UNCHANGED <<bound, refs, sink, ice, closed, freed, wrapper>>
      PROVE  Attachment'
  <2>1. /\ label \in BoundPC /\ label \notin ReferencePC
        /\ label \notin ResetPC \cup {"bind"} /\ pc[s] \notin ResetPC \cup {"bind"}
    BY <1>8 DEF BoundPC, AttachedPC, ResetPC, ReferencePC
  <2> QED
    BY <1>8, <2>1, AttachmentMoves
<1>9. CASE QueueStart(s)
  BY <1>7, <1>9 DEF QueueStart
<1>10. CASE StartSucceeds(s)
  BY <1>7, <1>10 DEF StartSucceeds
<1>11. CASE StartFails(s)
  BY <1>7, <1>11 DEF StartFails
<1>12. CASE StartTimesOut(s)
  BY <1>7, <1>12 DEF StartTimesOut
<1>13. CASE BeginClose(s)
  BY <1>8, <1>13 DEF BeginClose
<1>14. CASE CloseAnswered(s)
  BY <1>8, <1>14 DEF CloseAnswered
<1>15. CASE CloseTimesOut(s)
  BY <1>8, <1>15 DEF CloseTimesOut
<1> QED
  BY <1>2, <1>3, <1>4, <1>5, <1>r, <1>6, <1>9, <1>10, <1>11, <1>12, <1>13, <1>14, <1>15
  DEF SessionStep, CallStep

\* Nothing but Shutdown is queued on a stopped connection.
LEMMA QueuedWhenStopped ==
  ASSUME TypeOK, NEW s \in Session, NEW op,
         stopped[s] => ops[s] \subseteq {Op("Shutdown")}
  PROVE  stopped[s] => Queued(s, op) \subseteq {Op("Shutdown")}
BY DEF Queued

LEMMA AnswersCall ==
  ASSUME TypeOK, Answers, NEW s \in Session, SessionStep(s)
  PROVE  Answers'
<1> USE DEF agentVars, callVars, runtimeVars, worldVars
<1>1. CASE BeginStart(s)
  BY <1>1 DEF BeginStart, Goto, TypeOK, Answers
<1>2. CASE Attach(s)
  BY <1>2 DEF Attach, Goto, TypeOK, Answers
<1>3. CASE Bind(s)
  BY <1>3 DEF Bind, Goto, TypeOK, Answers
<1>4. CASE QueueStart(s)
  <2>1. \A t \in Session : stopped[t] => ops'[t] \subseteq {Op("Shutdown")}
    BY <1>4, QueuedWhenStopped DEF QueueStart, Answers, TypeOK
  <2>2. \A t \in Session : pc'[t] = IF t = s THEN "startWait" ELSE pc[t]
    BY <1>4 DEF QueueStart, Goto, TypeOK
  <2>3. \A t \in Session : answer'[t] = IF t = s /\ stopped[s] THEN "error" ELSE answer[t]
    BY <1>4 DEF QueueStart, TypeOK
  <2>4. UNCHANGED <<stopped, peer, sending>> /\ answer[s] = "none"
    BY <1>4 DEF QueueStart, Answers
  <2> QED
    BY <2>1, <2>2, <2>3, <2>4 DEF Answers
<1>5. CASE StartSucceeds(s)
  <2>1. \A t \in Session : stopped[t] => ops'[t] \subseteq {Op("Shutdown")}
    <3>1. \/ ops' = ops
          \/ ops' = [ops EXCEPT ![s] = Queued(s, Op("FlushRecv"))]
      BY <1>5 DEF StartSucceeds
    <3>2. stopped[s] => Queued(s, Op("FlushRecv")) \subseteq {Op("Shutdown")}
      BY QueuedWhenStopped DEF Answers
    <3> QED
      BY <3>1, <3>2 DEF Answers, TypeOK
  <2> QED
    BY <1>5, <2>1 DEF StartSucceeds, Goto, TypeOK, Answers
<1>6. CASE StartFails(s)
  BY <1>6 DEF StartFails, Goto, TypeOK, Answers
<1>7. CASE StartTimesOut(s)
  BY <1>7 DEF StartTimesOut, Goto, TypeOK, Answers
<1>8. CASE BeginClose(s)
  <2>1. \A t \in Session : stopped[t] => ops'[t] \subseteq {Op("Shutdown")}
    BY <1>8 DEF BeginClose, Answers, TypeOK
  <2> QED
    BY <1>8, <2>1 DEF BeginClose, Goto, TypeOK, Answers
<1>9. CASE CloseAnswered(s)
  BY <1>9 DEF CloseAnswered, Goto, TypeOK, Answers
<1>10. CASE CloseTimesOut(s)
  BY <1>10 DEF CloseTimesOut, Goto, TypeOK, Answers
<1>11. CASE Detach(s)
  BY <1>11 DEF Detach, AfterDetach, Goto, TypeOK, Answers
<1>r. CASE ResetBinding(s)
  BY <1>r DEF ResetBinding, AfterDetach, Goto, TypeOK, Answers
<1>12. CASE ReleaseReference(s)
  BY <1>12 DEF ReleaseReference, Goto, TypeOK, Answers
<1> QED
  BY <1>1, <1>2, <1>3, <1>4, <1>5, <1>6, <1>7, <1>8, <1>9, <1>10, <1>11, <1>12, <1>r
  DEF SessionStep, CallStep

LEMMA ClosingCall ==
  ASSUME TypeOK, Attachment, Answers, Closing, NEW s \in Session, SessionStep(s)
  PROVE  Closing'
<1> USE DEF agentVars, callVars, runtimeVars, worldVars, ResetPC
<1>1. CASE BeginStart(s)
  BY <1>1 DEF BeginStart, Goto, TypeOK, Closing, Attaching
<1>2. CASE Attach(s)
  <2>1. UNCHANGED <<closed, juice, overtaken, sending, stopped, bound>>
    BY <1>2 DEF Attach
  <2>2. \/ ~closed /\ pc' = [pc EXCEPT ![s] = "bind"]
        \/ pc' = [pc EXCEPT ![s] = "drop"]
    BY <1>2 DEF Attach, Goto
  <2>3. pc[s] = "attach"
    BY <1>2 DEF Attach
  <2> QED
    BY <2>1, <2>2, <2>3 DEF TypeOK, Closing, Attaching
<1>3. CASE Bind(s)
  BY <1>3 DEF Bind, Goto, TypeOK, Closing, Attaching
<1>4. CASE QueueStart(s)
  BY <1>4 DEF QueueStart, Goto, TypeOK, Closing, Attaching
<1>5. CASE StartSucceeds(s)
  BY <1>5 DEF StartSucceeds, Goto, TypeOK, Closing, Attaching
<1>6. CASE StartFails(s)
  BY <1>6 DEF StartFails, Goto, TypeOK, Closing, Attaching, Answers
<1>7. CASE StartTimesOut(s)
  BY <1>7 DEF StartTimesOut, Goto, TypeOK, Closing, Attaching
<1>8. CASE BeginClose(s)
  <2>1. UNCHANGED <<closed, juice, overtaken, sending, stopped, bound>>
    BY <1>8 DEF BeginClose
  <2>2. pc' = [pc EXCEPT ![s] = IF stopped[s] THEN "unbindClose" ELSE "closeWait"]
    BY <1>8 DEF BeginClose, Goto
  <2>3. pc[s] \notin ResetPC \cup {"bind"}
    BY <1>8 DEF BeginClose
  <2> QED
    BY <2>1, <2>2, <2>3 DEF TypeOK, Closing, Attaching
<1>9. CASE CloseAnswered(s)
  BY <1>9 DEF CloseAnswered, Goto, TypeOK, Closing, Attaching, Answers
<1>10. CASE CloseTimesOut(s)
  BY <1>10 DEF CloseTimesOut, Goto, TypeOK, Closing, Attaching
<1>11. CASE Detach(s)
  <2>1. UNCHANGED <<closed, juice, overtaken, sending, stopped, bound>>
    BY <1>11 DEF Detach
  <2>2. pc[s] \in {"unbindStart", "unbindClose"}
    BY <1>11 DEF Detach
  <2>3. \/ bound[s] /\ (pc' = [pc EXCEPT ![s] = "resetStart"] \/ pc' = [pc EXCEPT ![s] = "resetClose"])
        \/ ~bound[s] /\ (pc' = [pc EXCEPT ![s] = "drop"] \/ pc' = [pc EXCEPT ![s] = "clear"])
    BY <1>11 DEF Detach, AfterDetach, Goto
  <2>4. CASE bound[s]
    BY <2>1, <2>2, <2>3, <2>4 DEF TypeOK, Closing, Attaching
  <2>5. CASE ~bound[s]
    BY <2>1, <2>2, <2>3, <2>5 DEF TypeOK, Closing, Attaching
  <2> QED
    BY <2>4, <2>5
<1>r. CASE ResetBinding(s)
  BY <1>r DEF ResetBinding, AfterDetach, Goto, TypeOK, Closing, Attaching, Answers
<1>12. CASE ReleaseReference(s)
  BY <1>12 DEF ReleaseReference, Goto, TypeOK, Closing, Attaching
<1> QED
  BY <1>1, <1>2, <1>3, <1>4, <1>5, <1>6, <1>7, <1>8, <1>9, <1>10, <1>11, <1>12, <1>r
  DEF SessionStep, CallStep

\* The end of a connection leaves what Answers says of a stopped one.
LEMMA StopAnswers ==
  ASSUME TypeOK, Answers, NEW s \in Session, NEW result, Stop(s, result),
         ~sending[s], UNCHANGED <<pc, sending>>
  PROVE  Answers'
<1>1. \A t \in Session : /\ stopped'[t] <=> stopped[t] \/ t = s
                         /\ ops'[t] = IF t = s THEN {} ELSE ops[t]
                         /\ peer'[t] = IF t = s THEN NoSession ELSE peer[t]
  BY DEF Stop, TypeOK
<1>2. \A t \in Session : answer'[t] # answer[t] => t = s /\ pc[s] \in {"startWait", "closeWait"}
  BY DEF Stop, Answered, WaitedFor, TypeOK
<1> QED
  BY <1>1, <1>2 DEF Answers

\* An operation that stops nothing answers nobody, or a start, well.
LEMMA FinishAnswers ==
  ASSUME TypeOK, Answers, NEW s \in Session, NEW op, NEW left, Finish(s, op, left),
         ~stopped[s], UNCHANGED <<pc, stopped>>,
         \A t \in Session \ {s} : peer'[t] = peer[t] /\ sending'[t] = sending[t],
         \/ UNCHANGED answer
         \/ \E n \in 1 .. MaxStarts : Answered(s, {StartOp(n)}, "ok")
  PROVE  Answers'
<1>1. \A t \in Session \ {s} : ops'[t] = ops[t]
  BY DEF Finish, TypeOK
<1>2. \A t \in Session : answer'[t] # answer[t] =>
        t = s /\ pc[s] = "startWait" /\ answer'[s] = "ok"
  <2>1. \A n \in 1 .. MaxStarts : StartOp(n) # Op("Shutdown")
    BY DEF StartOp, Op
  <2> QED
    BY <2>1 DEF Answered, WaitedFor, TypeOK
<1> QED
  BY <1>1, <1>2 DEF Answers

LEMMA NotStopped ==
  ASSUME Answers, NEW s \in Session, NEW op, Takes(s, op), op # Op("Shutdown")
  PROVE  ~stopped[s]
BY DEF Answers, Takes

LEMMA AnswersWorker ==
  ASSUME TypeOK, Answers, NEW s \in Session, WorkerStep(s)
  PROVE  Answers'
<1> USE DEF agentVars, callVars, runtimeVars, worldVars
<1>1. ASSUME NEW n \in 1 .. MaxStarts, ProcessStart(s, n) PROVE Answers'
  <2>1. ~stopped[s] /\ ~sending[s]
    BY <1>1, NotStopped DEF ProcessStart, Takes, StartOp, Op
  <2>2. CASE started[s]
    BY <1>1, <2>1, <2>2, StopAnswers DEF ProcessStart, Throw
  <2>3. CASE ~started[s]
    <3>1. Finish(s, StartOp(n), Flush) \/ Finish(s, StartOp(n), {})
      BY <1>1, <2>3 DEF ProcessStart
    <3>2. UNCHANGED <<pc, stopped, sending>> /\ Answered(s, {StartOp(n)}, "ok")
      BY <1>1, <2>3 DEF ProcessStart
    <3>3. \A t \in Session \ {s} : peer'[t] = peer[t]
      BY <1>1, <2>3 DEF ProcessStart, TypeOK
    <3> QED
      BY <2>1, <3>1, <3>2, <3>3, FinishAnswers
  <2> QED
    BY <2>2, <2>3
<1>2. CASE ProcessReceive(s)
  <2>1. ~stopped[s] /\ ~sending[s]
    BY <1>2, NotStopped DEF ProcessReceive, Takes, Op
  <2>2. CASE Refuses(s)
    BY <1>2, <2>1, <2>2, StopAnswers DEF ProcessReceive, Throw
  <2>3. CASE ~Refuses(s)
    <3>1. /\ Finish(s, Op("FlushRecv"), IF rx[s] = <<>> THEN {} ELSE Flush)
          /\ UNCHANGED <<pc, stopped, sending, answer>>
      BY <1>2, <2>3 DEF ProcessReceive
    <3>2. \A t \in Session \ {s} : peer'[t] = peer[t]
      BY <1>2, <2>3 DEF ProcessReceive, TypeOK
    <3> QED
      BY <2>1, <3>1, <3>2, FinishAnswers
  <2> QED
    BY <2>2, <2>3
<1>3. CASE BeginSend(s)
  <2>1. ~stopped[s] /\ ~sending[s]
    BY <1>3, NotStopped DEF BeginSend, Takes, Op
  <2>2. CASE peer[s] # NoSession /\ ~AgentUsable(s)
    BY <1>3, <2>1, <2>2, StopAnswers DEF BeginSend, Throw
  <2>3. CASE ~(peer[s] # NoSession /\ ~AgentUsable(s))
    <3>1. Finish(s, Op("FlushSend"), {}) /\ UNCHANGED <<pc, stopped, peer, answer>>
      BY <1>3, <2>3 DEF BeginSend
    <3>2. \A t \in Session \ {s} : sending'[t] = sending[t]
      BY <1>3, <2>3 DEF BeginSend, TypeOK
    <3> QED
      BY <2>1, <3>1, <3>2, FinishAnswers
  <2> QED
    BY <2>2, <2>3
<1>4. CASE ProcessTimer(s)
  <2>1. ~stopped[s]
    BY <1>4, NotStopped DEF ProcessTimer, Takes, Op
  <2> QED
    BY <1>4, <2>1, FinishAnswers DEF ProcessTimer
<1>5. CASE ProcessShutdown(s)
  BY <1>5, StopAnswers DEF ProcessShutdown, Takes
<1>6. CASE TimerExpires(s)
  <2>1. \A t \in Session : stopped[t] => ops'[t] = ops[t]
    BY <1>6 DEF TimerExpires, TypeOK
  <2> QED
    BY <1>6, <2>1 DEF TimerExpires, Answers
<1>7. ASSUME NEW arrives \in BOOLEAN, Send(s, arrives) PROVE Answers'
  <2>1. \A t \in Session : sending'[t] => sending[t]
    BY <1>7 DEF Send, TypeOK
  <2> QED
    BY <1>7, <2>1 DEF Send, Answers
<1> QED
  BY <1>1, <1>2, <1>3, <1>4, <1>5, <1>6, <1>7 DEF WorkerStep, Execute

\* What the Worker does to a session that matters to its closing: it stops, and
\* it begins to send when its binding has a handle.
LEMMA ClosingWorker ==
  ASSUME TypeOK, Closing, NEW s \in Session, WorkerStep(s)
  PROVE  Closing'
<1> USE DEF agentVars, callVars, runtimeVars, worldVars
<1>1. UNCHANGED <<juice, closed, bound, pc, overtaken>>
  BY DEF WorkerStep, Execute, ProcessStart, ProcessReceive, BeginSend, ProcessTimer,
         ProcessShutdown, TimerExpires, Send
<1>2. \A t \in Session : stopped[t] => stopped'[t]
  <2>1. \/ UNCHANGED stopped
        \/ stopped' = [stopped EXCEPT ![s] = TRUE]
    BY DEF WorkerStep, Execute, ProcessStart, ProcessReceive, BeginSend, ProcessTimer,
           ProcessShutdown, TimerExpires, Send, Throw, Stop
  <2> QED
    BY <2>1 DEF TypeOK
<1>3. \A t \in Session : sending'[t] => sending[t] \/ bound[t]
  <2>1. CASE BeginSend(s)
    BY <2>1 DEF BeginSend, AgentUsable, TypeOK
  <2>2. ASSUME NEW arrives \in BOOLEAN, Send(s, arrives)
        PROVE  \A t \in Session : sending'[t] => sending[t]
    BY <2>2 DEF Send, TypeOK
  <2>3. CASE ~BeginSend(s) /\ ~\E arrives \in BOOLEAN : Send(s, arrives)
    BY <2>3 DEF WorkerStep, Execute, ProcessStart, ProcessReceive, ProcessTimer,
                ProcessShutdown, TimerExpires
  <2> QED
    BY <2>1, <2>2, <2>3
<1> QED
  BY <1>1, <1>2, <1>3 DEF Closing, Attaching

LEMMA AttachmentWorker ==
  ASSUME Attachment, NEW s \in Session, WorkerStep(s)
  PROVE  Attachment'
<1>1. UNCHANGED <<bound, pc, refs, sink, ice, closed, freed, wrapper>>
  BY DEF agentVars, callVars, WorkerStep, Execute, ProcessStart, ProcessReceive, BeginSend,
         ProcessTimer, ProcessShutdown, TimerExpires, Send
<1> QED
  BY <1>1, AttachmentStays

LEMMA InvICE ==
  ASSUME TypeOK, InductiveInv, ICEStep \/ \E d \in DatagramType : Receive(d)
  PROVE  InductiveInv'
<1> USE DEF agentVars, callVars, runtimeVars, worldVars
<1>1. UNCHANGED <<juice, closed, bound, pc, refs, sink, freed, wrapper, sending, stopped,
                  overtaken, peer, answer>>
  BY DEF ICEStep, InSink, QueueFlush, Receive
<1>2. Closing'
  BY <1>1, ClosingStays DEF InductiveInv
<1>3. ice' # Idle => sink = ice'.on
  <2>1. CASE InSink
    <3>1. ice' = Idle \/ ice' = [ice EXCEPT !.at = "queue"]
      BY <2>1 DEF InSink
    <3>2. ice \in [at : InSinkPC, on : Session, datagram : DatagramType]
      BY <2>1 DEF InSink, TypeOK, ICEType
    <3> QED
      BY <2>1, <3>1, <3>2 DEF InSink, InductiveInv, Attachment
  <2>2. CASE QueueFlush
    BY <2>2 DEF QueueFlush
  <2>3. ASSUME NEW d \in DatagramType, Receive(d) PROVE ice'.on = sink
    BY <2>3 DEF Receive
  <2> QED
    BY <2>1, <2>2, <2>3 DEF ICEStep
<1>4. Attachment'
  BY <1>1, <1>3 DEF InductiveInv, Attachment, Attaching
<1>5. Answers'
  <2>1. CASE QueueFlush
    <3>1. ice.on \in Session
      BY <2>1, ICECall DEF QueueFlush, TypeOK
    <3>2. stopped[ice.on] => Queued(ice.on, Op("FlushRecv")) \subseteq {Op("Shutdown")}
      BY <3>1, QueuedWhenStopped DEF InductiveInv, Answers
    <3>3. \A t \in Session : stopped[t] => ops'[t] \subseteq {Op("Shutdown")}
      BY <2>1, <3>2 DEF QueueFlush, InductiveInv, Answers, TypeOK
    <3> QED
      BY <1>1, <3>3 DEF InductiveInv, Answers
  <2>2. CASE ~QueueFlush
    <3>1. UNCHANGED ops
      BY <2>2 DEF ICEStep, InSink, Receive
    <3> QED
      BY <1>1, <3>1, AnswersStay DEF InductiveInv
  <2> QED
    BY <2>1, <2>2
<1> QED
  BY <1>2, <1>4, <1>5 DEF InductiveInv

LEMMA InvOwner ==
  ASSUME TypeOK, InductiveInv, OwnerStep
  PROVE  InductiveInv'
<1> USE DEF agentVars, callVars, runtimeVars, worldVars
<1>1. UNCHANGED <<pc, stopped, ops, peer, sending, answer, bound, refs, ice>>
  BY DEF OwnerStep, CloseAgent, DestroyJuice, DropAgent, DeallocateAgent
<1>2. Answers'
  BY <1>1, AnswersStay DEF InductiveInv
<1>3. CASE CloseAgent
  <2>1. \A t \in Session : Attaching(t) => pc[t] \notin AtRest
    BY DEF InductiveInv, Attachment, Attaching, BoundPC, AttachedPC, AtRest
  <2>2. Closing'
    BY <1>1, <1>3, <2>1 DEF CloseAgent, InductiveInv, Closing, Attaching
  <2>3. Attachment'
    BY <1>1, <1>3 DEF CloseAgent, LockFree, InductiveInv, Attachment, Attaching
  <2> QED
    BY <1>2, <2>2, <2>3 DEF InductiveInv
<1>4. CASE DestroyJuice
  BY <1>1, <1>2, <1>4 DEF DestroyJuice, InductiveInv, Attachment, Closing, Attaching
<1>5. CASE DropAgent
  BY <1>1, <1>2, <1>5 DEF DropAgent, InductiveInv, Attachment, Closing, Attaching
<1>6. CASE DeallocateAgent
  <2>1. \A t \in Session : ~Attaching(t)
    BY <1>6 DEF DeallocateAgent, InductiveInv, Attachment, Attaching, ReferencePC
  <2>2. Closing'
    BY <1>1, <1>6, <2>1 DEF DeallocateAgent, InductiveInv, Closing, Attaching
  <2>3. Attachment'
    BY <1>1, <1>6, <2>1 DEF DeallocateAgent, LockFree, InductiveInv, Attachment, Attaching
  <2> QED
    BY <1>2, <2>2, <2>3 DEF InductiveInv
<1> QED
  BY <1>3, <1>4, <1>5, <1>6 DEF OwnerStep

LEMMA InvStep == TypeOK /\ InductiveInv /\ [Next]_vars => InductiveInv'
<1> SUFFICES ASSUME TypeOK, InductiveInv, [Next]_vars PROVE InductiveInv'
  OBVIOUS
<1>1. ASSUME NEW s \in Session, SessionStep(s) PROVE InductiveInv'
  BY <1>1, AttachmentCall, AnswersCall, ClosingCall DEF InductiveInv
<1>2. ASSUME NEW s \in Session, WorkerStep(s) PROVE InductiveInv'
  BY <1>2, AttachmentWorker, AnswersWorker, ClosingWorker DEF InductiveInv
<1>3. CASE UNCHANGED vars
  <2>1. /\ UNCHANGED <<bound, pc, refs, sink, ice, closed, freed, wrapper>>
        /\ UNCHANGED <<stopped, ops, peer, sending, answer, juice, overtaken>>
    BY <1>3 DEF vars, agentVars, callVars, runtimeVars, worldVars
  <2> QED
    BY <2>1, AttachmentStays, AnswersStay, ClosingStays DEF InductiveInv
<1> QED
  BY <1>1, <1>2, <1>3, InvICE, InvOwner DEF Next

-----------------------------------------------------------------------------

\* The agent never calls, and no session ever uses, what is gone: the sink and a
\* call in it belong to an attached session, and a binding with a handle to a
\* live agent object, for any sessions and any order of the calls.
THEOREM PointersCorrect == Spec => []PointersValid
<1>1. TypeOK /\ InductiveInv => PointersValid
  <2> SUFFICES ASSUME TypeOK, InductiveInv PROVE SinkValid /\ HandleValid
    BY DEF PointersValid
  <2>1. HandleValid
    BY DEF HandleValid, InductiveInv, Attachment
  <2>2. \A s \in Session : Attaching(s) => pc[s] \in AttachedPC
    BY DEF InductiveInv, Attachment, Attaching, BoundPC, AttachedPC
  <2>3. ice # Idle => ice.on \in Session
    BY ICECall DEF TypeOK
  <2>4. sink \in Session \cup {NoSession} /\ NoSession \notin Session
    BY SessionAssumption DEF TypeOK
  <2>5. SinkValid
    BY <2>2, <2>3, <2>4 DEF SinkValid, InductiveInv, Attachment, Attaching
  <2> QED
    BY <2>1, <2>5
<1> QED
  BY <1>1, InvInit, InvStep, TypeCorrect, PTL DEF Spec

\* The Worker's unlocked check of the agent is good for the send that follows it,
\* unless a call on the session gave up waiting or the agent was closed with the
\* session open: juice_destroy has not begun and the agent object is there.
THEOREM SendsCorrect == Spec => []SendsReachLiveAgent
<1>1. TypeOK /\ InductiveInv => SendsReachLiveAgent
  BY DEF TypeOK, InductiveInv, Attachment, Answers, Closing, Attaching, SendsReachLiveAgent
<1> QED
  BY <1>1, InvInit, InvStep, TypeCorrect, PTL DEF Spec
=============================================================================
