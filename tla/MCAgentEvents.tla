---------------------------- MODULE MCAgentEvents ----------------------------
(* Instances of AgentEvents for TLC. *)
EXTENDS AgentEvents, TLC

CONSTANTS e1, e2, d1, d2, t1, t2

Symmetry == Permutations(Event) \cup Permutations(Datagram) \cup Permutations(Consumer)
=============================================================================
