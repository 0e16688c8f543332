---------------------------- MODULE MCConnection ----------------------------
(***************************************************************************)
(* The liveness of a connection for TLC, one part at a time: of one call   *)
(* and of two over both ends, and of one end with a peer that may do       *)
(* anything.                                                               *)
(***************************************************************************)
EXTENDS Connection

VARIABLE part

MCIds == {"a", "b"}

vars == <<connVars, part>>

Init ==
  /\ part \in {"client", "server", "one", "two"}
  /\ IF part \in {"one", "two"} THEN ConnInit
     ELSE Client!Init /\ Server!Init /\ callId = [id \in Ids |-> id]
          /\ up = <<>> /\ down = <<>> /\ joined = FALSE

ClientAlone(A) == part = "client" /\ A /\ UNCHANGED <<serverVars, wire, part>>
ServerAlone(A) == part = "server" /\ A /\ UNCHANGED <<clientVars, wire, part>>

\* Two calls: "a" streams one input, or has none, and is answered by a value; "b"
\* has no input stream and any output.  Neither end closes, and the duplex takes
\* what they send: the part "one" has the rest.
Quiet ==
  /\ ~calls'["b"].streaming /\ iterator'["a"] = "none"
  /\ open' /\ link' # "closed"
  /\ \A id \in Ids :
       /\ calls'[id].drain = "none" /\ drain'[id] = "none"
       /\ phase'[id] \notin {"reporting", "reporting stream"}
       /\ Cardinality({k \in DOMAIN calls'[id].sent : calls'[id].sent[k] = "in-item"}) <= 1

Next ==
  /\ \/ ClientAlone(Client!Next) \/ ServerAlone(Server!Next)
     \/ ConnNext /\ UNCHANGED part
  /\ IF part = "two" THEN Quiet
     ELSE calls'["b"] = calls["b"] /\ phase'["b"] = "unused"

Spec == Init /\ [][Next]_vars

FairSpec ==
  /\ Spec
  /\ ConnFairness
  /\ WF_vars(ClientAlone(Client!FairStep)) /\ WF_vars(ServerAlone(Server!FairStep))

-----------------------------------------------------------------------------
\* Alone, against any peer: every server call ends, a caller whose signal is
\* aborted or whose link closed is answered, a pump ends with its call.  Joined:
\* every call is over, at both ends, unless another one holds it up.  Calls are
\* finitely many and used once, so all of it holds from some time on.
CallsEnd ==
  <>[](/\ part = "server" => Server!AllEnded
       /\ part = "client" => Client!CallersAnswered /\ Client!PumpsEnded
       /\ joined => AllOver)
=============================================================================
