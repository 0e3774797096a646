--------------------------- MODULE MCStreamReceive ---------------------------
(* Instances of StreamReceive for TLC: windows of a few bytes, which stand    *)
(* for the 16 MiB and 64 MiB of Connection.cpp, and a stream longer than both *)
(* windows together, so that the peer runs out of either credit.             *)
EXTENDS StreamReceive

SmallStreamWindow == 3
SmallDataWindow == 4
LongStream == 7
=============================================================================
