---------------------------- MODULE MCClientMux ----------------------------
(* Instances of ClientMux for TLC. *)
EXTENDS ClientMux, TLC

CONSTANTS c1, c2

MCCalls == {c1, c2}
MCOneCall == {c1}

Symmetry == Permutations(MCCalls)
=============================================================================
