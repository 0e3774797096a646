------------------------------ MODULE MCBuffers ------------------------------
(* Buffers of 3 bytes or 2 datagrams; one more than there are at first makes  *)
(* the pool grow.                                                            *)
EXTENDS Buffers

AllSizes == 1..4
=============================================================================
