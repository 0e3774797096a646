------------------------------ MODULE ByteStream ------------------------------
(***************************************************************************)
(* What one direction of a QUICStream promises the program that reads it:    *)
(* the bytes the peer sent, in the order it sent them, none lost, none       *)
(* twice; the end is announced only when the peer has ended the stream and   *)
(* every byte before the end has been handed out.  A stream may break at any *)
(* time, and the program is then told so instead of being told of an end.    *)
(***************************************************************************)
EXTENDS Naturals, Sequences

VARIABLES
  sent,      \* the bytes of the peer
  finished,  \* the peer has ended the stream
  received,  \* the bytes the program was handed
  status     \* what the program knows of the stream

vars == <<sent, finished, received, status>>

Init ==
  /\ sent = <<>>
  /\ finished = FALSE
  /\ received = <<>>
  /\ status = "open"

IsPrefixOf(s, t) == Len(s) <= Len(t) /\ s = SubSeq(t, 1, Len(s))

Send ==
  /\ ~finished
  /\ IsPrefixOf(sent, sent')
  /\ finished' \in BOOLEAN
  /\ UNCHANGED <<received, status>>

Deliver ==
  /\ status = "open"
  /\ Len(received') > Len(received)
  /\ IsPrefixOf(received, received')
  /\ IsPrefixOf(received', sent)
  /\ UNCHANGED <<sent, finished, status>>

AnnounceEnd ==
  /\ status = "open"
  /\ finished
  /\ received = sent
  /\ status' = "ended"
  /\ UNCHANGED <<sent, finished, received>>

AnnounceBreak ==
  /\ status = "open"
  /\ status' \in {"failed", "timedOut"}
  /\ UNCHANGED <<sent, finished, received>>

Next == Send \/ Deliver \/ AnnounceEnd \/ AnnounceBreak

Spec == Init /\ [][Next]_vars
=============================================================================
