------------------------------- MODULE Datapath -------------------------------
(***************************************************************************)
(* The two directions of a datapath, DatapathSend and DatapathReceive.  They  *)
(* share no state but the backend they were built for, so that they may take  *)
(* turns as they like; to keep the runs small, one direction runs at a time.  *)
(***************************************************************************)
EXTENDS DatapathSend, DatapathReceive

VARIABLE direction

bothVars == <<direction, vars, receiveVars>>

\* What the other direction does not look at is given one value.
BothInit ==
  /\ direction \in {"in", "out"}
  /\ Init /\ ReceiveInit
  /\ IF direction = "in" THEN backend = "windows" ELSE receiver = "windows" /\ batching

BothNext ==
  \/ direction = "in" /\ ReceiveNext /\ UNCHANGED <<direction, vars>>
  \/ direction = "out" /\ Next /\ UNCHANGED <<direction, receiveVars>>

BothSpec == BothInit /\ [][BothNext]_bothVars /\ KeepsReading
=============================================================================
