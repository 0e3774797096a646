------------------------------ MODULE MCDatapath ------------------------------
(***************************************************************************)
(* Receiving: five datagrams of any shape, batches of two, a loop that takes *)
(* three, and buffers in which up to four are joined; a batch ends at the    *)
(* limit of the loop, at its own, or with the socket, and a joined buffer    *)
(* needs several.  Sending: seven packets in aggregates of up to four, of    *)
(* which the hook takes at most three at once.                               *)
(***************************************************************************)
EXTENDS Datapath
=============================================================================
