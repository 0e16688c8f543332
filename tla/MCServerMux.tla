---------------------------- MODULE MCServerMux ----------------------------
(* Instances of ServerMux for TLC: the ids and the call objects. *)
EXTENDS ServerMux, TLC

CONSTANTS a, b, c1, c2

MCIds == {a, b}
MCOneId == {a}
MCCalls == {c1, c2}

Symmetry == Permutations(MCIds) \cup Permutations(MCCalls)
=============================================================================
