----------------------------- MODULE QUICSession -----------------------------
(***************************************************************************)
(* The life of QUIC sessions on one ICE agent: native/Quic.cpp, the binding  *)
(* of native/ice/JuiceBinding.cpp, start and close of quic::Connection, and  *)
(* the agent of native/P2P.c under them.                                     *)
(*                                                                           *)
(* Four kinds of threads meet here.  An application thread starts a session  *)
(* and closes it, each call with a timeout; its Worker executes the queued   *)
(* operations and sends through the agent; libjuice's thread calls the sink  *)
(* that the session installed; and somebody closes the agent, or drops it.   *)
(* The Worker looks at the agent without its lock and then uses it, the sink *)
(* holds plain pointers, and the Python reference of the session is what     *)
(* keeps the agent object alive: everything rests on the order of the calls. *)
(*                                                                           *)
(* The peer is external.  It opens its end of every session on its own, at   *)
(* any time, and the network loses, delays, duplicates and reorders what the *)
(* two send, so a datagram that could have been sent may arrive now.         *)
(***************************************************************************)
EXTENDS Naturals, Sequences

CONSTANTS
  Session,    \* the QUICSession objects created for this agent
  Foreign,    \* sessions only the peer knows of, of an earlier use of the path
  NoSession,
  MaxStarts,  \* bound: calls of start() for one session
  MaxBatch    \* bound: datagrams waiting for a Worker

ASSUME SessionAssumption ==
  /\ NoSession \notin Session \cup Foreign
  /\ Session \cap Foreign = {}
  /\ MaxStarts \in Nat
  /\ MaxBatch \in Nat \ {0}

VARIABLES
  role,         \* what all sessions of this process are, "client" or "server"
  initial,      \* initial[s]: the constructor was given an initialPacket
  closed,       \* the agent's flag, set under its lock
  juice,        \* the libjuice agent exists
  sink,         \* the session whose binding is the agent's data sink
  wrapper,      \* the NativeAgent refers to the agent object
  refs,         \* the sessions that hold a Python reference to it
  freed,        \* the agent object is gone
  ice,          \* libjuice's thread: in the sink, with the agent's lock
  pc,           \* where the application's thread is with a session
  starts,       \* calls of start() so far
  answer,       \* what the completion of the present call holds
  bound,        \* agentHandle_ and connection_ of the binding are set
  started,      \* started_
  stopped,      \* stopped_
  ops,          \* operationQueue_, an APIStart with the number of its call
  rx,           \* receiveBatch_
  receivePending, \* receiveOperationPending_
  peer,         \* the peer's session the ngtcp2 connection is with, if there is one
  complete,     \* its handshake is complete
  sending,      \* the Worker is inside a send of the agent, past its checks
  heard,        \* heard[s]: the peer's end of s got a packet from here
  strays,       \* history: sessions that read a datagram of another session
  overtaken     \* history: sessions that gave up waiting, or lost their agent while open

agentVars == <<closed, juice, sink, wrapper, freed>>
callVars == <<pc, starts, answer, refs, initial>>
runtimeVars == <<started, stopped, ops, rx, receivePending, peer, complete, sending>>
worldVars == <<role, heard, strays, overtaken>>
vars == <<agentVars, ice, callVars, bound, runtimeVars, worldVars>>

Kind == {"Initial", "Finished", "Reply"}
PeerSession == Session \cup Foreign
DatagramType == [for : PeerSession, kind : Kind]
Idle == [at |-> "idle"]
InSinkPC == {"sink", "queue"}
ICEType == {Idle} \cup [at : InSinkPC, on : Session, datagram : DatagramType]

\* The queue is a set here: whatever is queued may be executed next.  That
\* operations keep their order is KeepsOrder of ConnectionRuntime.
Operation == {"APIStart", "FlushRecv", "FlushSend", "TimerExpired", "Shutdown"} \X (0 .. MaxStarts)

\* From the installation of the sink until it is taken out again.
AttachedPC == {"bind", "queueStart", "startWait", "unbindStart", "running",
               "closeWait", "unbindClose"}
ResetPC == {"resetStart", "resetClose"}
CallPC == AttachedPC \cup ResetPC \cup {"new", "attach", "drop", "failed", "clear", "closed"}
AtRest == {"new", "failed", "closed"}

TypeOK ==
  /\ role \in {"client", "server"}
  /\ initial \in [Session -> BOOLEAN]
  /\ closed \in BOOLEAN /\ juice \in BOOLEAN
  /\ wrapper \in BOOLEAN /\ freed \in BOOLEAN
  /\ sink \in Session \cup {NoSession}
  /\ refs \subseteq Session
  /\ ice \in ICEType
  /\ pc \in [Session -> CallPC]
  /\ starts \in [Session -> 0 .. MaxStarts]
  /\ answer \in [Session -> {"none", "ok", "error"}]
  /\ bound \in [Session -> BOOLEAN]
  /\ started \in [Session -> BOOLEAN]
  /\ stopped \in [Session -> BOOLEAN]
  /\ ops \in [Session -> SUBSET Operation]
  /\ rx \in [Session -> Seq(DatagramType)]
  /\ receivePending \in [Session -> BOOLEAN]
  /\ peer \in [Session -> PeerSession \cup {NoSession}]
  /\ complete \in [Session -> BOOLEAN]
  /\ sending \in [Session -> BOOLEAN]
  /\ heard \in [PeerSession -> BOOLEAN]
  /\ strays \subseteq Session
  /\ overtaken \subseteq Session

\* Only a server can be given an initial packet that makes sense to it.
Init ==
  /\ role \in {"client", "server"}
  /\ initial \in [Session -> IF role = "server" THEN BOOLEAN ELSE {FALSE}]
  /\ closed = FALSE /\ juice = TRUE /\ wrapper = TRUE /\ freed = FALSE
  /\ sink = NoSession
  /\ refs = {}
  /\ ice = Idle
  /\ pc = [s \in Session |-> "new"]
  /\ starts = [s \in Session |-> 0]
  /\ answer = [s \in Session |-> "none"]
  /\ bound = [s \in Session |-> FALSE]
  /\ started = [s \in Session |-> FALSE]
  /\ stopped = [s \in Session |-> FALSE]
  /\ ops = [s \in Session |-> {}]
  /\ rx = [s \in Session |-> <<>>]
  /\ receivePending = [s \in Session |-> FALSE]
  /\ peer = [s \in Session |-> NoSession]
  /\ complete = [s \in Session |-> FALSE]
  /\ sending = [s \in Session |-> FALSE]
  /\ heard = [s \in PeerSession |-> s \in Foreign]
  /\ strays = {}
  /\ overtaken = {}

Goto(s, label) == pc' = [pc EXCEPT ![s] = label]
LockFree == ice = Idle

Op(type) == <<type, 0>>
StartOp(n) == <<"APIStart", n>>

\* queueOperation, for whatever does not look for an answer here: an operation
\* other than Shutdown is dropped once the connection stopped.
Queued(s, op) ==
  IF stopped[s] /\ op # Op("Shutdown") THEN ops[s] ELSE ops[s] \cup {op}

-----------------------------------------------------------------------------
(* The application's thread.                                                *)

\* The application makes one call at a time on a session; calls on two sessions
\* of the agent run at the same time.

\* startSession: a session with an error is refused (requireConnection), one
\* whose Connection was started already is told so.
BeginStart(s) ==
  /\ pc[s] \in {"new", "failed"} /\ wrapper /\ ~stopped[s]
  /\ starts[s] < MaxStarts
  /\ starts' = [starts EXCEPT ![s] = @ + 1]
  /\ answer' = [answer EXCEPT ![s] = "none"]
  /\ refs' = refs \cup {s}
  /\ Goto(s, IF started[s] THEN "drop" ELSE "attach")
  /\ UNCHANGED <<agentVars, ice, initial, bound, runtimeVars, worldVars>>

\* setFFLP2PAgentNativeDataSink, under the agent's lock.
Attach(s) ==
  /\ pc[s] = "attach" /\ LockFree
  /\ IF bound[s] \/ closed \/ ~juice \/ sink # NoSession
       THEN Goto(s, "drop") /\ UNCHANGED sink
       ELSE Goto(s, "bind") /\ sink' = s
  /\ UNCHANGED <<closed, juice, wrapper, freed, ice, starts, answer, refs, initial,
                 bound, runtimeVars, worldVars>>

\* The binding learns of its agent and connection only after the sink is in.
Bind(s) ==
  /\ pc[s] = "bind"
  /\ bound' = [bound EXCEPT ![s] = TRUE]
  /\ Goto(s, "queueStart")
  /\ UNCHANGED <<agentVars, ice, starts, answer, refs, initial, runtimeVars, worldVars>>

QueueStart(s) ==
  /\ pc[s] = "queueStart"
  /\ ops' = [ops EXCEPT ![s] = Queued(s, StartOp(starts[s]))]
  /\ answer' = IF stopped[s] THEN [answer EXCEPT ![s] = "error"] ELSE answer
  /\ Goto(s, "startWait")
  /\ UNCHANGED <<agentVars, ice, starts, refs, initial, bound, started, stopped, rx,
                 receivePending, peer, complete, sending, worldVars>>

\* Connection::queueReceive, with the flush it may have to queue.
AppendDatagram(s, d) ==
  rx' = [rx EXCEPT ![s] = IF stopped[s] THEN @ ELSE Append(@, d)]

\* A start that was answered well queues the initial packet, which is then gone.
StartSucceeds(s) ==
  /\ pc[s] = "startWait" /\ answer[s] = "ok"
  /\ initial' = [initial EXCEPT ![s] = FALSE]
  /\ IF initial[s]
       THEN /\ AppendDatagram(s, [for |-> s, kind |-> "Initial"])
            /\ receivePending' = [receivePending EXCEPT ![s] = @ \/ ~stopped[s]]
            /\ ops' = IF receivePending[s] THEN ops
                        ELSE [ops EXCEPT ![s] = Queued(s, Op("FlushRecv"))]
       ELSE UNCHANGED <<rx, receivePending, ops>>
  /\ Goto(s, "running")
  /\ UNCHANGED <<agentVars, ice, starts, answer, refs, bound, started, stopped,
                 peer, complete, sending, worldVars>>

\* The operation stays queued when its caller gives up.
StartFails(s) ==
  /\ pc[s] = "startWait" /\ answer[s] = "error"
  /\ Goto(s, "unbindStart")
  /\ UNCHANGED <<agentVars, ice, starts, answer, refs, initial, bound, runtimeVars, worldVars>>
StartTimesOut(s) ==
  /\ pc[s] = "startWait" /\ answer[s] = "none"
  /\ overtaken' = overtaken \cup {s}
  /\ Goto(s, "unbindStart")
  /\ UNCHANGED <<agentVars, ice, starts, answer, refs, initial, bound, runtimeVars,
                 role, heard, strays>>

\* close(), and closeSessionNoThrow when the object is collected: a connection
\* that stopped already only has to be detached.
BeginClose(s) ==
  /\ pc[s] \in {"new", "running", "failed"}
  /\ answer' = [answer EXCEPT ![s] = "none"]
  /\ IF stopped[s]
       THEN Goto(s, "unbindClose") /\ UNCHANGED ops
       ELSE Goto(s, "closeWait") /\ ops' = [ops EXCEPT ![s] = Queued(s, Op("Shutdown"))]
  /\ UNCHANGED <<agentVars, ice, starts, refs, initial, bound, started, stopped, rx,
                 receivePending, peer, complete, sending, worldVars>>

CloseAnswered(s) ==
  /\ pc[s] = "closeWait" /\ answer[s] # "none"
  /\ Goto(s, "unbindClose")
  /\ UNCHANGED <<agentVars, ice, starts, answer, refs, initial, bound, runtimeVars, worldVars>>

CloseTimesOut(s) ==
  /\ pc[s] = "closeWait" /\ answer[s] = "none"
  /\ overtaken' = overtaken \cup {s}
  /\ Goto(s, "unbindClose")
  /\ UNCHANGED <<agentVars, ice, starts, answer, refs, initial, bound, runtimeVars,
                 role, heard, strays>>

AfterDetach(s) == IF pc[s] \in {"unbindStart", "resetStart"} THEN "drop" ELSE "clear"

\* Mutant: the sink is taken out without the lock.
DetachUnlocked(s) ==
  /\ pc[s] \in {"unbindStart", "unbindClose"}
  /\ IF bound[s]
       THEN /\ sink' = IF sink = s THEN NoSession ELSE sink
            /\ Goto(s, IF pc[s] = "unbindStart" THEN "resetStart" ELSE "resetClose")
       ELSE Goto(s, AfterDetach(s)) /\ UNCHANGED sink
  /\ UNCHANGED <<closed, juice, wrapper, freed, ice, starts, answer, refs, initial,
                 bound, runtimeVars, worldVars>>

\* JuiceBinding::detach: an unattached binding has nothing to do, another one
\* takes its sink out under the agent's lock, unless it is out already ...
Detach(s) ==
  /\ pc[s] \in {"unbindStart", "unbindClose"}
  /\ IF bound[s]
       THEN /\ LockFree
            /\ sink' = IF sink = s THEN NoSession ELSE sink
            /\ Goto(s, IF pc[s] = "unbindStart" THEN "resetStart" ELSE "resetClose")
       ELSE Goto(s, AfterDetach(s)) /\ UNCHANGED sink
  /\ UNCHANGED <<closed, juice, wrapper, freed, ice, starts, answer, refs, initial,
                 bound, runtimeVars, worldVars>>

\* ... and forgets its agent and connection without a lock.
ResetBinding(s) ==
  /\ pc[s] \in ResetPC
  /\ bound' = [bound EXCEPT ![s] = FALSE]
  /\ Goto(s, AfterDetach(s))
  /\ UNCHANGED <<agentVars, ice, starts, answer, refs, initial, runtimeVars, worldVars>>

\* Py_DECREF of a failed start, Py_CLEAR(agentObject) of a close, after which
\* the session is collected (deallocateSession) with its initial packet.
ReleaseReference(s) ==
  /\ pc[s] \in {"drop", "clear"}
  /\ refs' = refs \ {s}
  /\ answer' = [answer EXCEPT ![s] = "none"]
  /\ initial' = [initial EXCEPT ![s] = @ /\ pc[s] = "drop"]
  /\ Goto(s, IF pc[s] = "drop" THEN "failed" ELSE "closed")
  /\ UNCHANGED <<agentVars, ice, starts, bound, runtimeVars, worldVars>>

\* What a call does by itself once the application made it.
CallStep(s) ==
  \/ Attach(s) \/ Bind(s) \/ QueueStart(s) \/ StartSucceeds(s) \/ StartFails(s)
  \/ CloseAnswered(s) \/ Detach(s) \/ ResetBinding(s) \/ ReleaseReference(s)
SessionStep(s) ==
  CallStep(s) \/ BeginStart(s) \/ BeginClose(s) \/ StartTimesOut(s) \/ CloseTimesOut(s)

-----------------------------------------------------------------------------
(* The agent's owner.                                                       *)

\* closeAgent, first under the lock.
CloseAgent ==
  /\ wrapper /\ ~closed /\ LockFree
  /\ closed' = TRUE
  /\ sink' = NoSession
  /\ overtaken' = overtaken \cup {s \in Session : pc[s] \notin AtRest}
  /\ UNCHANGED <<juice, wrapper, freed, ice, callVars, bound, runtimeVars, role, heard, strays>>

\* juice_destroy returns when libjuice's thread is out of its callbacks; the
\* NativeAgent then forgets the object.
DestroyJuice ==
  /\ wrapper /\ closed /\ LockFree
  /\ juice' = FALSE
  /\ wrapper' = FALSE
  /\ UNCHANGED <<closed, sink, freed, ice, callVars, bound, runtimeVars, worldVars>>

\* The NativeAgent is collected without a close.
DropAgent ==
  /\ wrapper /\ ~closed
  /\ wrapper' = FALSE
  /\ UNCHANGED <<closed, juice, sink, freed, ice, callVars, bound, runtimeVars, worldVars>>

\* deallocateAgent, when the last reference is gone.
DeallocateAgent ==
  /\ ~wrapper /\ refs = {} /\ ~freed /\ LockFree
  /\ closed' = TRUE /\ juice' = FALSE /\ sink' = NoSession /\ freed' = TRUE
  /\ UNCHANGED <<wrapper, ice, callVars, bound, runtimeVars, worldVars>>

OwnerStep == CloseAgent \/ DestroyJuice \/ DropAgent \/ DeallocateAgent

-----------------------------------------------------------------------------
(* libjuice's thread.                                                       *)

\* What the peer can have sent.  Its client sends an Initial until it hears of
\* the server, then it finishes; its server replies to what it hears.
Sendable(s) ==
  IF role = "server"
    THEN {"Initial"} \cup (IF heard[s] THEN {"Finished"} ELSE {})
    ELSE IF heard[s] THEN {"Reply"} ELSE {}
InFlight == {d \in DatagramType : d.kind \in Sendable(d.for)}

\* What the peer's end of s sends again until it gets on.
Retransmitted(s) ==
  [for |-> s, kind |-> IF role = "client" THEN "Reply" ELSE IF heard[s] THEN "Finished" ELSE "Initial"]

\* onReceive of P2P.c with a sink: it is called under the lock.  A datagram that
\* finds no sink goes to the queue of the agent (AgentEvents); nobody reads QUIC
\* packets from there and waitForConnected throws them away, so that it is lost.
Receive(d) ==
  /\ d \in InFlight
  /\ LockFree /\ juice /\ ~closed /\ sink # NoSession
  /\ Len(rx[sink]) < MaxBatch
  /\ ice' = [at |-> "sink", on |-> sink, datagram |-> d]
  /\ UNCHANGED <<agentVars, callVars, bound, runtimeVars, worldVars>>

\* JuiceBinding::onReceive and the first half of Connection::queueReceive.
\* Before Bind the datagram is lost.
InSink ==
  /\ ice # Idle /\ ice.at = "sink"
  /\ LET s == ice.on
         taken == bound[s] /\ ~stopped[s]
         flush == taken /\ ~receivePending[s] IN
     /\ IF taken THEN AppendDatagram(s, ice.datagram) ELSE UNCHANGED rx
     /\ receivePending' = [receivePending EXCEPT ![s] = @ \/ flush]
     /\ ice' = IF flush THEN [ice EXCEPT !.at = "queue"] ELSE Idle
  /\ UNCHANGED <<agentVars, callVars, bound, started, stopped, ops, peer, complete, sending, worldVars>>

QueueFlush ==
  /\ ice # Idle /\ ice.at = "queue"
  /\ ops' = [ops EXCEPT ![ice.on] = Queued(ice.on, Op("FlushRecv"))]
  /\ ice' = Idle
  /\ UNCHANGED <<agentVars, callVars, bound, started, stopped, rx, receivePending,
                 peer, complete, sending, worldVars>>

ICEStep == InSink \/ QueueFlush

-----------------------------------------------------------------------------
(* The Worker.                                                              *)

Takes(s, op) == ~sending[s] /\ op \in ops[s]

\* The call that waits for the completion of this operation.
WaitedFor(s, op) ==
  \/ pc[s] = "startWait" /\ op = StartOp(starts[s])
  \/ pc[s] = "closeWait" /\ op = Op("Shutdown")
Answered(s, O, result) ==
  answer' = IF answer[s] = "none" /\ \E op \in O : WaitedFor(s, op)
              THEN [answer EXCEPT ![s] = result] ELSE answer

\* The operation is done, and left these behind.
Finish(s, op, left) == ops' = [ops EXCEPT ![s] = (@ \ {op}) \cup left]
Flush == {Op("FlushSend")}

\* The end of the connection, in one step (what may come between its stores is in
\* ConnectionRuntime): everything queued is answered.  The datagrams and the flag
\* it leaves behind are never looked at again; the model forgets them.
Stop(s, result) ==
  /\ stopped' = [stopped EXCEPT ![s] = TRUE]
  /\ peer' = [peer EXCEPT ![s] = NoSession]
  /\ complete' = [complete EXCEPT ![s] = FALSE]
  /\ Answered(s, ops[s], result)
  /\ ops' = [ops EXCEPT ![s] = {}]
  /\ rx' = [rx EXCEPT ![s] = <<>>]
  /\ receivePending' = [receivePending EXCEPT ![s] = FALSE]

\* An operation that threw.
Throw(s) == Stop(s, "error")

\* processStart: a client sends its first packet.
ProcessStart(s, n) ==
  /\ Takes(s, StartOp(n))
  /\ IF started[s]
       THEN Throw(s) /\ UNCHANGED started
       ELSE /\ started' = [started EXCEPT ![s] = TRUE]
            /\ Answered(s, {StartOp(n)}, "ok")
            /\ IF role = "client"
                 THEN peer' = [peer EXCEPT ![s] = s] /\ Finish(s, StartOp(n), Flush)
                 ELSE Finish(s, StartOp(n), {}) /\ UNCHANGED peer
            /\ UNCHANGED <<stopped, rx, receivePending, complete>>
  /\ UNCHANGED <<agentVars, ice, pc, starts, refs, initial, bound, sending, worldVars>>

\* feedPacket for every datagram of the batch.  The first one makes the ngtcp2
\* connection of a server, and must be an Initial; ngtcp2 ignores whatever does
\* not belong to the handshake it is in.
Opens(s) == peer[s] = NoSession /\ rx[s] # <<>>
Refuses(s) == Opens(s) /\ (role = "client" \/ Head(rx[s]).kind # "Initial")
HandshakeWith(s) == IF Opens(s) THEN Head(rx[s]).for ELSE peer[s]
Finishes(s) == \E i \in DOMAIN rx[s] : rx[s][i].for = HandshakeWith(s) /\ rx[s][i].kind # "Initial"

ProcessReceive(s) ==
  /\ Takes(s, Op("FlushRecv"))
  /\ strays' = IF \E i \in DOMAIN rx[s] : rx[s][i].for # s THEN strays \cup {s} ELSE strays
  /\ IF Refuses(s)
       THEN Throw(s)
       ELSE /\ rx' = [rx EXCEPT ![s] = <<>>]
            /\ receivePending' = [receivePending EXCEPT ![s] = FALSE]
            /\ peer' = [peer EXCEPT ![s] = HandshakeWith(s)]
            /\ complete' = [complete EXCEPT ![s] = @ \/ Finishes(s)]
            /\ Finish(s, Op("FlushRecv"), IF rx[s] = <<>> THEN {} ELSE Flush)
            /\ UNCHANGED <<stopped, answer>>
  /\ UNCHANGED <<agentVars, ice, pc, starts, refs, initial, bound, started, sending,
                 role, heard, overtaken>>

\* processSendFlush up to the send: JuiceBinding::send looks at its handle, the
\* agent's send at closed and juice, without the lock.
AgentUsable(s) == bound[s] /\ ~closed /\ juice
BeginSend(s) ==
  /\ Takes(s, Op("FlushSend"))
  /\ IF peer[s] # NoSession /\ ~AgentUsable(s)
       THEN Throw(s) /\ UNCHANGED sending
       ELSE /\ Finish(s, Op("FlushSend"), {})
            /\ sending' = [sending EXCEPT ![s] = peer[s] # NoSession]
            /\ UNCHANGED <<stopped, rx, receivePending, peer, complete, answer>>
  /\ UNCHANGED <<agentVars, ice, pc, starts, refs, initial, bound, started, worldVars>>

\* libjuice's send returns; the packet may get there.
Send(s, arrives) ==
  /\ sending[s]
  /\ sending' = [sending EXCEPT ![s] = FALSE]
  /\ heard' = IF arrives THEN [heard EXCEPT ![peer[s]] = TRUE] ELSE heard
  /\ UNCHANGED <<agentVars, ice, callVars, bound, started, stopped, ops, rx,
                 receivePending, peer, complete, role, strays, overtaken>>

\* The Worker's timer wheel, while ngtcp2 waits for the end of the handshake.
TimerExpires(s) ==
  /\ peer[s] # NoSession /\ ~complete[s] /\ ~stopped[s]
  /\ Op("TimerExpired") \notin ops[s]
  /\ ops' = [ops EXCEPT ![s] = Queued(s, Op("TimerExpired"))]
  /\ UNCHANGED <<agentVars, ice, callVars, bound, started, stopped, rx, receivePending,
                 peer, complete, sending, worldVars>>

\* Mutant: an expired timer of ngtcp2 is handled, but nothing is flushed.
ProcessTimerQuietly(s) ==
  /\ Takes(s, Op("TimerExpired"))
  /\ Finish(s, Op("TimerExpired"), {})
  /\ UNCHANGED <<agentVars, ice, callVars, bound, started, stopped, rx, receivePending,
                 peer, complete, sending, worldVars>>

\* processTimer: ngtcp2_conn_handle_expiry makes it send again.
ProcessTimer(s) ==
  /\ Takes(s, Op("TimerExpired"))
  /\ Finish(s, Op("TimerExpired"), IF peer[s] # NoSession /\ ~complete[s] THEN Flush ELSE {})
  /\ UNCHANGED <<agentVars, ice, callVars, bound, started, stopped, rx, receivePending,
                 peer, complete, sending, worldVars>>

\* Mutant: Shutdown is answered, and the connection goes on.
ProcessShutdownLazily(s) ==
  /\ Takes(s, Op("Shutdown"))
  /\ Answered(s, {Op("Shutdown")}, "ok")
  /\ Finish(s, Op("Shutdown"), {})
  /\ UNCHANGED <<agentVars, ice, pc, starts, refs, initial, bound, started, stopped, rx,
                 receivePending, peer, complete, sending, worldVars>>

\* processShutdown, and the operations behind it.
ProcessShutdown(s) ==
  /\ Takes(s, Op("Shutdown"))
  /\ Stop(s, "ok")
  /\ UNCHANGED <<agentVars, ice, pc, starts, refs, initial, bound, started, sending, worldVars>>

Execute(s) ==
  \/ \E n \in 1 .. MaxStarts : ProcessStart(s, n)
  \/ ProcessReceive(s) \/ BeginSend(s) \/ ProcessTimer(s) \/ ProcessShutdown(s)
WorkerStep(s) == Execute(s) \/ TimerExpires(s) \/ \E arrives \in BOOLEAN : Send(s, arrives)

Next ==
  \/ \E s \in Session : SessionStep(s) \/ WorkerStep(s)
  \/ \E d \in DatagramType : Receive(d)
  \/ ICEStep \/ OwnerStep

Spec == Init /\ [][Next]_vars

\* Threads keep running, a queued operation gets its turn (KeepsServing of
\* ConnectionRuntime), and the network does not lose or hold back everything.
\* Nothing makes the application call, close or give up, nor the owner.  What is
\* left out (ProcessStart, ProcessShutdown) the properties below do not need.
Fairness ==
  /\ WF_vars(ICEStep)
  /\ \A s \in Session :
       /\ WF_vars(CallStep(s))
       /\ SF_vars(ProcessReceive(s)) /\ SF_vars(BeginSend(s)) /\ SF_vars(ProcessTimer(s))
       /\ WF_vars(TimerExpires(s))
       /\ SF_vars(Send(s, TRUE))
       /\ SF_vars(Receive(Retransmitted(s)))
FairSpec == Spec /\ Fairness

-----------------------------------------------------------------------------
(* Properties.                                                              *)

\* The plain pointers between agent and session.  Whoever libjuice's thread may
\* call, or is calling, is between its attach and its detach, and a binding with
\* a handle stays the sink until it detaches or the agent is closed: "once
\* clearFFLP2PAgentNativeDataSink() returns, no callback can still be using the
\* runtime object" (P2P.c:311).
SinkValid ==
  /\ sink # NoSession => pc[sink] \in AttachedPC /\ ~freed
  /\ ice # Idle => pc[ice.on] \in AttachedPC /\ ~freed
  /\ \A s \in Session : bound[s] /\ pc[s] \notin ResetPC /\ ~closed => sink = s

\* A binding that has a handle has a reference to the agent behind it, also
\* when a start failed or a close gave up (Quic.cpp:295, 424).
HandleValid == \A s \in Session : bound[s] => s \in refs /\ ~freed

PointersValid == SinkValid /\ HandleValid

\* The Worker's check of the agent is good for the send that follows: libjuice's
\* agent is there until the send returns, unless a call on the session gave up
\* waiting or the agent was closed with the session open.
SendsReachLiveAgent ==
  \A s \in Session \ overtaken : sending[s] => juice /\ ~freed /\ bound[s]

\* The handshake of a session that was started completes, whatever was lost
\* before its sink was installed and on the way, if the application waits, the
\* agent stays open and no datagram of another session gets between.
HandshakeCompletes ==
  \A s \in Session :
    (pc[s] = "running") ~>
      (complete[s] \/ pc[s] # "running" \/ s \in strays \cup overtaken)

=============================================================================
