------------------------------- MODULE Mailbox -------------------------------
(***************************************************************************)
(* What the QUIC runtime promises its callers.  Every connection has a       *)
(* mailbox.  One executor takes operations from the mailboxes, one at a time *)
(* and in the order they arrived, and answers the call that waits for each.  *)
(* An operation is thrown away, and its caller told so, only when its        *)
(* connection has stopped; one that was let in just before the connection    *)
(* stopped may be thrown away or still executed.                             *)
(***************************************************************************)
EXTENDS Naturals, Sequences

CONSTANTS Connection, Call, Operation, Idle

VARIABLES
  inbox,    \* inbox[c]: the operations waiting for c
  current,  \* the operation being executed with its connection, or Idle
  closed,   \* closed[c]: c has stopped
  answer    \* answer[k]: what call k was told

vars == <<inbox, current, closed, answer>>

Init ==
  /\ inbox = [c \in Connection |-> <<>>]
  /\ current = Idle
  /\ closed = [c \in Connection |-> FALSE]
  /\ answer = [k \in Call |-> "none"]

\* The caller of the operation, if it has one, is answered, and only once.
Answer(op, results) ==
  IF op.by \in Call /\ answer[op.by] = "none"
    THEN \E r \in results : answer' = [answer EXCEPT ![op.by] = r]
    ELSE UNCHANGED answer

\* Operations join at the end of a mailbox.
Submit(c) ==
  /\ Len(inbox'[c]) > Len(inbox[c])
  /\ SubSeq(inbox'[c], 1, Len(inbox[c])) = inbox[c]
  /\ \A d \in Connection \ {c} : inbox'[d] = inbox[d]
  /\ UNCHANGED <<current, closed, answer>>

\* A call on a stopped connection is refused.
Refuse(k) ==
  /\ \E c \in Connection : closed[c]
  /\ answer[k] = "none"
  /\ answer' = [answer EXCEPT ![k] = "error"]
  /\ UNCHANGED <<inbox, current, closed>>

Take(c) ==
  /\ current = Idle
  /\ inbox[c] # <<>>
  /\ current' = [on |-> c, op |-> Head(inbox[c])]
  /\ inbox' = [inbox EXCEPT ![c] = Tail(@)]
  /\ UNCHANGED <<closed, answer>>

Finish ==
  /\ current # Idle
  /\ current' = Idle
  /\ Answer(current.op, {"ok", "error"})
  /\ UNCHANGED <<inbox, closed>>

Close(c) ==
  /\ closed' = [closed EXCEPT ![c] = TRUE]
  /\ UNCHANGED <<inbox, current, answer>>

Discard(c) ==
  /\ closed[c] /\ current = Idle
  /\ inbox[c] # <<>>
  /\ inbox' = [inbox EXCEPT ![c] = Tail(@)]
  /\ Answer(Head(inbox[c]), {"error"})
  /\ UNCHANGED <<current, closed>>

Serve(c) == Take(c) \/ Discard(c)

Next ==
  \/ \E c \in Connection : Submit(c) \/ Serve(c) \/ Close(c)
  \/ \E k \in Call : Refuse(k)
  \/ Finish

Spec == Init /\ [][Next]_vars

\* No mailbox starves: whoever keeps the executor busy, every mailbox that has
\* something gets its turn, and every turn ends.
Fairness ==
  /\ \A c \in Connection : SF_vars(Serve(c))
  /\ WF_vars(Finish)

FairSpec == Spec /\ Fairness
=============================================================================
