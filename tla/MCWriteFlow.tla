---------------------------- MODULE MCWriteFlow ----------------------------
(* An instance of WriteFlow for TLC: a few bytes in writes of one to three,   *)
(* watermarks that make the writer wait, and a peer that first lets two bytes *)
(* through.                                                                   *)
EXTENDS WriteFlow

FewBytes == 5
SmallWrites == 3
SmallWatermark == 3
LittleCredit == 2
=============================================================================
