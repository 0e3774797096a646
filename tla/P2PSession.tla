------------------------------ MODULE P2PSession ------------------------------
(***************************************************************************)
(* How a session over UDP comes about and ends: P2PPublisher and             *)
(* P2PConnector (P2P.py), the UDPConnector each of them has (UDP.py), the    *)
(* HTTP signalling between them, the publisher's handler thread, libjuice's  *)
(* gathering, and the port mapping taken while gathering is on hold.         *)
(*                                                                           *)
(* One publisher and several connectors that all got its offer.  A request   *)
(* may be lost, and so may its response; a request that was given up is       *)
(* still served.  Requests are served by threads of their own, so the steps  *)
(* of two acceptAnswer calls interleave.  libjuice and libplum are external. *)
(*                                                                           *)
(* The application creates its offer before it serves it (README.md 127-136).*)
(* It may close the publisher while requests are still served: the tests stop *)
(* their server first (P2PTest.py 214-215, 249-250), but nothing enforces it. *)
(***************************************************************************)
EXTENDS Naturals

CONSTANTS
  Publisher,    \* the publisher
  Connectors,   \* the connect calls of its downloaders
  UsesMapping,  \* who was constructed with usePortMapping
  None          \* no remote description

Owners == {Publisher} \cup Connectors

ASSUME SessionAssumption ==
  /\ Publisher \notin Connectors
  /\ UsesMapping \subseteq Owners
  /\ None \notin Owners

VARIABLES
  at,        \* where each owner's program is, the steps of gather included
  udp,       \* each owner's UDPConnector: its agent, its mapping and its flags
  ice,       \* what libjuice knows in the agent each owner gathers with (external)
  request,   \* request[c]: where the publisher's thread that serves c's answer is
  answered,  \* P2PPublisher._answerAccepted
  threaded,  \* P2PPublisher._udpHandlerThread is set
  handler    \* handler[c]: the handler thread that c's request started

publisherVars == <<request, answered, threaded, handler>>
setupVars == <<at, udp, ice, publisherVars>>

SetupInit ==
  /\ at = [o \in Owners |-> IF o = Publisher THEN "new" ELSE "offer"]
  /\ udp = [o \in Owners |->
              [agent |-> "none", mapping |-> FALSE, gathered |-> FALSE,
               remoteSet |-> FALSE, role |-> "unknown"]]
  /\ ice = [o \in Owners |->
              [role |-> "unknown", remote |-> None, started |-> FALSE, holds |-> 0,
               done |-> FALSE, event |-> FALSE, connected |-> FALSE]]
  /\ request = [c \in Connectors |-> "none"]
  /\ answered = FALSE
  /\ threaded = FALSE
  /\ handler = [c \in Connectors |-> "none"]

-----------------------------------------------------------------------------
(* UDPConnector.gather, called by createOffer and by connect.               *)

Go(o, place) == at' = [at EXCEPT ![o] = place]

\* An exception leaves createOffer, which may be called again, or reaches the
\* finally clause of connect.
Raised(o) == IF o = Publisher THEN "new" ELSE "close"

\* mutant: the role follows the last call instead of the first.
EitherLatest(role, first) == first

Either(role, first) == IF role = "unknown" THEN first ELSE role

BeginGather(o) ==
  /\ at[o] = IF o = Publisher THEN "new" ELSE "gather"
  /\ udp' = [udp EXCEPT ![o].agent = "open", ![o].role = Either(@, "controlling")]
  /\ Go(o, IF o \in UsesMapping THEN "hold" ELSE "start")
  /\ UNCHANGED <<ice, publisherVars>>

\* mutant: gathering is not held.
SkipHold(o) ==
  /\ at[o] = "hold"
  /\ Go(o, "start")
  /\ UNCHANGED <<udp, ice, publisherVars>>

\* Holding fails when gathering is over already, which it may be when a gather
\* that timed out is tried again.
HoldGathering(o) ==
  /\ at[o] = "hold"
  /\ \/ /\ ~ice[o].done
        /\ ice' = [ice EXCEPT ![o].holds = @ + 1]
        /\ Go(o, "start")
     \/ /\ ice[o].done
        /\ Go(o, Raised(o))
        /\ UNCHANGED ice
  /\ UNCHANGED <<udp, publisherVars>>

StartGathering(o) ==
  /\ at[o] = "start"
  /\ \/ /\ ice' = [ice EXCEPT ![o].started = TRUE, ![o].role = Either(@, "controlling")]
        /\ Go(o, IF o \in UsesMapping THEN "map" ELSE "await")
     \/ /\ Go(o, IF o \in UsesMapping THEN "raise" ELSE Raised(o))
        /\ UNCHANGED ice
  /\ UNCHANGED <<udp, publisherVars>>

TakeMapping(o) == udp' = [udp EXCEPT ![o].mapping = TRUE]
DropMapping(o) == udp' = [udp EXCEPT ![o].mapping = FALSE]

\* _tryPortMapping: a new mapping takes the place of one that an earlier gather
\* left; when it cannot be made, that one is closed.
CreateMapping(o) ==
  /\ at[o] = "map"
  /\ \/ TakeMapping(o) /\ Go(o, "mapping")
     \/ DropMapping(o) /\ Go(o, "release")
  /\ UNCHANGED <<ice, publisherVars>>

\* The mapping succeeds, or fails, or is still pending when its time is over.
MappingAnswered(o) ==
  /\ at[o] = "mapping"
  /\ \/ Go(o, "candidate") /\ UNCHANGED udp
     \/ DropMapping(o) /\ Go(o, "release")
  /\ UNCHANGED <<ice, publisherVars>>

\* libjuice takes the external address as a candidate, or refuses it, and does
\* refuse it once gathering is over.
AddMappedCandidate(o) ==
  /\ at[o] = "candidate"
  /\ \/ ~ice[o].done /\ UNCHANGED udp
     \/ DropMapping(o)
  /\ Go(o, "release")
  /\ UNCHANGED <<ice, publisherVars>>

\* The finally clause.
ReleaseGathering(o) ==
  /\ at[o] \in {"release", "raise"}
  /\ ice' = [ice EXCEPT ![o].holds = @ - 1]
  /\ Go(o, IF at[o] = "release" THEN "await" ELSE Raised(o))
  /\ UNCHANGED <<udp, publisherVars>>

AwaitGatheringDone(o) ==
  /\ at[o] = "await"
  /\ ice[o].event
  /\ ice' = [ice EXCEPT ![o].event = FALSE]
  /\ udp' = [udp EXCEPT ![o].gathered = TRUE]
  /\ Go(o, IF o = Publisher THEN "offered" ELSE "answer")
  /\ UNCHANGED publisherVars

GatheringTimesOut(o) ==
  /\ at[o] = "await"
  /\ Go(o, Raised(o))
  /\ UNCHANGED <<udp, ice, publisherVars>>

Gather(o) ==
  \/ BeginGather(o) \/ HoldGathering(o) \/ StartGathering(o)
  \/ CreateMapping(o) \/ MappingAnswered(o) \/ AddMappedCandidate(o)
  \/ ReleaseGathering(o) \/ AwaitGatheringDone(o)

-----------------------------------------------------------------------------
(* P2PConnector.connect.                                                    *)

\* UDPConnector.close: the mapping is given back, the agent closed and forgotten.
Released(connector) == [connector EXCEPT !.mapping = FALSE, !.agent = "none"]

\* An offer that was created is served, after a close of the publisher too.
GetOffer(c) ==
  /\ at[c] = "offer"
  /\ Go(c, IF udp[Publisher].gathered THEN "describe" ELSE "over")
  /\ UNCHANGED <<udp, ice, publisherVars>>

\* The remote description comes first, so libjuice takes the controlled role.
DescribeOffer(c) ==
  /\ at[c] = "describe"
  /\ \/ /\ udp' = [udp EXCEPT ![c].agent = "open", ![c].role = Either(@, "controlled"),
                              ![c].remoteSet = TRUE]
        /\ ice' = [ice EXCEPT ![c].remote = Publisher, ![c].role = Either(@, "controlled")]
        /\ Go(c, "gather")
     \/ /\ udp' = [udp EXCEPT ![c].agent = "open", ![c].role = Either(@, "controlled")]
        /\ Go(c, "close")
        /\ UNCHANGED ice
  /\ UNCHANGED publisherVars

\* The request reaches the publisher's server.
SendAnswer(c) ==
  /\ at[c] = "answer"
  /\ request' = [request EXCEPT ![c] = "check"]
  /\ Go(c, "response")
  /\ UNCHANGED <<udp, ice, answered, threaded, handler>>

AnswerAccepted(c) ==
  /\ at[c] = "response"
  /\ request[c] = "accepted"
  /\ Go(c, "tcp")
  /\ UNCHANGED <<udp, ice, publisherVars>>

\* A TCP endpoint answers, or none does, or TCP was all that was asked for.
TryTCP(c) ==
  /\ at[c] = "tcp"
  /\ \E place \in {"close", "connect"} : Go(c, place)
  /\ UNCHANGED <<udp, ice, publisherVars>>

\* waitForConnected saw the connection.  The transport has the agent now, and
\* the connector is dropped, which gives its mapping back.
Connect(c) ==
  /\ at[c] = "connect"
  /\ ice[c].connected
  /\ DropMapping(c)
  /\ Go(c, "connected")
  /\ UNCHANGED <<ice, publisherVars>>

\* A lost request, a lost or refused answer, or no connection in time.
ConnectFails(c) ==
  /\ at[c] \in {"offer", "answer", "response", "connect"}
  /\ Go(c, IF at[c] = "offer" THEN "over" ELSE "close")
  /\ UNCHANGED <<udp, ice, publisherVars>>

\* The finally clause of connect, or Connection.close.
CloseConnector(c) ==
  /\ at[c] \in {"close", "connected"}
  /\ udp' = [udp EXCEPT ![c] = Released(@)]
  /\ Go(c, "over")
  /\ UNCHANGED <<ice, publisherVars>>

-----------------------------------------------------------------------------
(* P2PPublisher.acceptAnswer, in the thread that serves c's request.        *)

Step(c, place) == request' = [request EXCEPT ![c] = place]

CheckRemote(c) ==
  /\ request[c] = "check"
  /\ Step(c, IF udp[Publisher].remoteSet THEN "refused" ELSE "set")
  /\ UNCHANGED <<at, udp, ice, answered, threaded, handler>>

\* A publisher that was closed meanwhile makes a new agent for the late answer
\* (_ensureAgent), which nothing closes but a transport made of it.
AnsweredAgent == IF udp[Publisher].agent = "none" THEN "late" ELSE udp[Publisher].agent

\* libjuice keeps the first description it is given, and refuses a later one or
\* ignores it.  A closed agent refuses.
SetRemoteDescription(c) ==
  /\ request[c] = "set"
  /\ udp' = [udp EXCEPT ![Publisher].agent = AnsweredAgent, ![Publisher].role = Either(@, "controlled")]
  /\ \/ /\ AnsweredAgent # "closed"
        /\ ice' = IF AnsweredAgent = "late" THEN ice
                  ELSE [ice EXCEPT ![Publisher].remote = IF @ = None THEN c ELSE @,
                                   ![Publisher].role = Either(@, "controlled")]
        /\ Step(c, "flag")
     \/ Step(c, "refused") /\ UNCHANGED ice
  /\ UNCHANGED <<at, answered, threaded, handler>>

MarkRemoteSet(c) ==
  /\ request[c] = "flag"
  /\ udp' = [udp EXCEPT ![Publisher].remoteSet = TRUE]
  /\ Step(c, "event")
  /\ UNCHANGED <<at, ice, answered, threaded, handler>>

\* mutant: the handler is started, and nobody tells it of the answer.
ForgetAnswered(c) ==
  /\ request[c] = "event"
  /\ Step(c, IF threaded THEN "accepted" ELSE "start")
  /\ UNCHANGED <<at, udp, ice, answered, threaded, handler>>

\* The event is set, and the thread that there may be is looked at.
SetAnswered(c) ==
  /\ request[c] = "event"
  /\ answered' = TRUE
  /\ Step(c, IF threaded THEN "accepted" ELSE "start")
  /\ UNCHANGED <<at, udp, ice, threaded, handler>>

StartHandler(c) ==
  /\ request[c] = "start"
  /\ threaded' = TRUE
  /\ handler' = [handler EXCEPT ![c] = "waiting"]
  /\ Step(c, "accepted")
  /\ UNCHANGED <<at, udp, ice, answered>>

AcceptAnswer(c) ==
  CheckRemote(c) \/ SetRemoteDescription(c) \/ MarkRemoteSet(c) \/ SetAnswered(c) \/ StartHandler(c)

-----------------------------------------------------------------------------
(* P2PPublisher._runUDPHandler.                                             *)

\* Both waits of waitForUDP are over: there is an answer and a connection.
HandlerConnects(c) ==
  /\ handler[c] = "waiting"
  /\ answered
  /\ udp[Publisher].agent = "open"
  /\ udp[Publisher].gathered /\ udp[Publisher].remoteSet
  /\ ice[Publisher].connected
  /\ handler' = [handler EXCEPT ![c] = "connected"]
  /\ UNCHANGED <<at, udp, ice, request, answered, threaded>>

\* UDPTransport is made of the agent the connector has now, and the application's
\* handler is called with it: a publisher that was closed meanwhile has none, or
\* has the agent of a late answer.
HandlerServes(c) ==
  /\ handler[c] = "connected"
  /\ handler' = [handler EXCEPT ![c] =
                   CASE udp[Publisher].agent = "none" -> "hollow"
                     [] udp[Publisher].agent = "late" -> "late"
                     [] OTHER -> "serving"]
  /\ UNCHANGED <<at, udp, ice, request, answered, threaded>>

\* A wait reaches its deadline, or the agent is closed under it.
HandlerFails(c) ==
  /\ handler[c] = "waiting"
  /\ handler' = [handler EXCEPT ![c] = "ended"]
  /\ UNCHANGED <<at, udp, ice, request, answered, threaded>>

\* The application's handler returns or raises, and its transport closes the agent
\* it was made of; one that has none raises in the finally clause.
HandlerReturns(c) ==
  /\ handler[c] \in {"serving", "late", "hollow"}
  /\ handler' = [handler EXCEPT ![c] = "ended"]
  /\ udp' = [udp EXCEPT ![Publisher].agent =
               IF <<handler[c], @>> \in {<<"serving", "open">>, <<"late", "late">>} THEN "closed" ELSE @]
  /\ UNCHANGED <<at, ice, request, answered, threaded>>

\* mutant: close leaves the mapping to the end of the process.
ClosePublisherAgent ==
  /\ at[Publisher] \in {"new", "offered"}
  /\ udp' = [udp EXCEPT ![Publisher].agent = "none"]
  /\ Go(Publisher, "closed")
  /\ UNCHANGED <<ice, publisherVars>>

\* The application closes the publisher, while requests and handlers may be at any
\* place.
ClosePublisher ==
  /\ at[Publisher] \in {"new", "offered"}
  /\ udp' = [udp EXCEPT ![Publisher] = Released(@)]
  /\ Go(Publisher, "closed")
  /\ UNCHANGED <<ice, publisherVars>>

-----------------------------------------------------------------------------
(* libjuice's threads.                                                      *)

GatheringDone(o) ==
  /\ udp[o].agent = "open"
  /\ ice[o].started /\ ~ice[o].done
  /\ ice[o].holds = 0
  /\ ice' = [ice EXCEPT ![o].done = TRUE, ![o].event = TRUE]
  /\ UNCHANGED <<at, udp, publisherVars>>

\* The checks between two agents that know each other succeed, for one side
\* before the other.
IceConnects(o) ==
  /\ ~ice[o].connected
  /\ ice[o].remote \in Owners
  /\ ice[ice[o].remote].remote = o
  /\ \A p \in {o, ice[o].remote} : udp[p].agent = "open" /\ ice[p].started
  /\ ice' = [ice EXCEPT ![o].connected = TRUE]
  /\ UNCHANGED <<at, udp, publisherVars>>

-----------------------------------------------------------------------------

Connector(c) == GetOffer(c) \/ DescribeOffer(c) \/ AnswerAccepted(c) \/ TryTCP(c) \/ Connect(c)

Handler(c) == HandlerConnects(c) \/ HandlerServes(c)

SetupNext ==
  \/ \E o \in Owners : Gather(o) \/ GatheringTimesOut(o) \/ GatheringDone(o) \/ IceConnects(o)
  \/ \E c \in Connectors :
       \/ Connector(c) \/ SendAnswer(c) \/ ConnectFails(c) \/ CloseConnector(c)
       \/ AcceptAnswer(c)
       \/ Handler(c) \/ HandlerFails(c) \/ HandlerReturns(c)
  \/ ClosePublisher

SetupSpec == SetupInit /\ [][SetupNext]_setupVars

\* Threads run, requests that arrived are served, and libjuice goes on.
\* Deadlines, lost messages, closing and returning handlers are not fair.
FairSetup ==
  /\ SetupSpec
  /\ \A o \in Owners : WF_setupVars(Gather(o)) /\ WF_setupVars(GatheringDone(o)) /\ WF_setupVars(IceConnects(o))
  /\ \A c \in Connectors :
       WF_setupVars(Connector(c)) /\ WF_setupVars(AcceptAnswer(c)) /\ WF_setupVars(Handler(c))

-----------------------------------------------------------------------------
(* Properties.                                                              *)

Roles == {"unknown", "controlling", "controlled"}
GatherPlaces == {"gather", "hold", "start", "map", "mapping", "candidate", "release", "raise", "await"}
SetupPlaces == GatherPlaces \cup
  {"new", "offered", "closed",
   "offer", "describe", "answer", "response", "tcp", "connect", "connected", "close", "over"}

UDPState ==
  [agent : {"none", "open", "closed", "late"}, mapping : BOOLEAN, gathered : BOOLEAN,
   remoteSet : BOOLEAN, role : Roles]
ICEState ==
  [role : Roles, remote : Owners \cup {None}, started : BOOLEAN, holds : {0, 1},
   done : BOOLEAN, event : BOOLEAN, connected : BOOLEAN]

SetupTypeOK ==
  /\ at \in [Owners -> SetupPlaces]
  /\ udp \in [Owners -> UDPState]
  /\ ice \in [Owners -> ICEState]
  /\ request \in [Connectors -> {"none", "check", "set", "flag", "event", "start", "accepted", "refused"}]
  /\ answered \in BOOLEAN
  /\ threaded \in BOOLEAN
  /\ handler \in [Connectors -> {"none", "waiting", "connected", "serving", "late", "hollow", "ended"}]

\* "normal offer/answer never relies on role-conflict repair" (UDP.py 134): of two
\* agents that connect the offerer's is controlling and the answerer's is
\* controlled, also after a gather that was tried again and with answers of
\* several connectors, and each connector reports the role that libjuice took.
OffererControls ==
  \A o \in Owners : ice[o].connected =>
    \A p \in {o, ice[o].remote} :
      /\ ice[p].role = IF p = Publisher THEN "controlling" ELSE "controlled"
      /\ udp[p].role = ice[p].role

\* Gathering cannot end while a mapped candidate may still be added, and no way
\* out of gather leaves it on hold, which would make every later wait time out.
HoldCoversMapping ==
  \A o \in Owners :
    /\ at[o] \in {"map", "mapping", "candidate"} => ~ice[o].done
    /\ at[o] \notin GatherPlaces => ice[o].holds = 0

\* Whatever failed, and whatever the handler's thread was doing: when a connect
\* call is over and its connection closed, and when the publisher is closed, the
\* agents that gathered and connected are closed and no port is mapped
\* (UDP.py 159).  Answers may still be served then: one that makes an agent of its
\* own does so after close, and that "late" agent is not what close promises.
NothingLeft ==
  \A o \in Owners :
    at[o] \in {"closed", "over"} => udp[o].agent # "open" /\ ~udp[o].mapping

GaveUp(c) == at[c] \in {"close", "over"} \/ at[Publisher] = "closed" \/ handler[c] = "ended"

AcceptedTwo(c) == \E d \in Connectors \ {c} : request[d] = "accepted"

\* A connector that goes for UDP meets the publisher's handler: both get their
\* transport, unless one of them gives up, or the answer of another connector
\* slipped past the check of remoteSet as well.
PeersMeet ==
  \A c \in Connectors :
    at[c] = "connect" /\ handler[c] = "waiting" ~>
      (at[c] = "connected" /\ handler[c] = "serving") \/ GaveUp(c) \/ AcceptedTwo(c)
=============================================================================
