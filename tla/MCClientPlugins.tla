-------------------------- MODULE MCClientPlugins --------------------------
(* An instance of ClientPlugins for TLC: two callers of one key. *)
EXTENDS ClientPlugins

CONSTANTS c1, c2

MCCallers == {c1, c2}
MCPasses == MCCallers \X (0 .. Retries)
MCCallerOf == [p \in MCPasses |-> p[1]]
=============================================================================
