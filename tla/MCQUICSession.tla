---------------------------- MODULE MCQUICSession ----------------------------
(* An instance of QUICSession for TLC. *)
EXTENDS QUICSession

CONSTANTS s1, s2
=============================================================================
