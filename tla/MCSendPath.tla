---------------------------- MODULE MCSendPath ----------------------------
(* An instance of SendPath for TLC: flushes of three packets stand for the    *)
(* 512 of Connection.cpp, runs of two operations for the 64 of Worker.cpp, a  *)
(* retry two ticks later for one millisecond; a batch may be larger than the  *)
(* room the socket has.                                                        *)
EXTENDS SendPath

SomePackets == 5
SmallBatch == 2
SmallFlush == 3
SmallBudget == 2
ShortDelay == 2
LittleRoom == 2
=============================================================================
