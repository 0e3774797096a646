--------------------------- MODULE MCFileTransfer ---------------------------
(* An instance of FileTransfer for TLC: a file of a few parts, asked for from *)
(* its start, from its middle, from its end and from behind it.              *)
EXTENDS FileTransfer

FewParts == 3
SomeOffsets == {0, 1, 3, 4}
=============================================================================
