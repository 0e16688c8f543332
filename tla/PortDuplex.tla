----------------------------- MODULE PortDuplex -----------------------------
(***************************************************************************)
(* createPortDuplex (message/src/port.ts) under PortLink or PortHandler:   *)
(* no backpressure and no pause; the port is started after the session has *)
(* subscribed, so that what waited in it is not lost.  The port is         *)
(* external: a queue of messages it holds until start().                   *)
(***************************************************************************)
EXTENDS Naturals, Sequences

CONSTANT MaxPortTexts   \* bound of the model: texts sent each way

VARIABLE port

PortTypeOK ==
  port \in
    [started : BOOLEAN,     \* port.start() ran
     subscribed : BOOLEAN,  \* the session listens
     closed : BOOLEAN,      \* of the duplex
     ownerClosed : BOOLEAN, \* closed of the link or the handler
     told : Nat,            \* history: calls of the close handler
     taken : Nat,           \* history: texts posted
     posted : Nat,          \* texts the peer posted
     received : Nat]        \* history: texts handed to the session

PortInit ==
  port = [started |-> FALSE, subscribed |-> FALSE, closed |-> FALSE,
          ownerClosed |-> FALSE, told |-> 0, taken |-> 0, posted |-> 0,
          received |-> 0]

ClosePort(p) ==
  IF p.closed THEN p
  ELSE [p EXCEPT !.closed = TRUE, !.told = IF p.subscribed THEN @ + 1 ELSE @]

\* The constructor of PortLink, and PortHandler.bind: one turn.
PortBinds ==
  /\ ~port.started
  /\ port' = [port EXCEPT !.subscribed = TRUE, !.started = TRUE]

PeerPosts ==
  /\ port.posted < MaxPortTexts
  /\ port' = [port EXCEPT !.posted = @ + 1]

\* A message that is not a text closes the duplex.
PortMessage ==
  /\ port.started /\ ~port.closed
  /\ port.received < port.posted
  /\ port' \in {[port EXCEPT !.received = @ + 1], ClosePort(port)}

PortSend ==
  /\ port.started /\ ~port.closed
  /\ port.taken < MaxPortTexts
  /\ port' = [port EXCEPT !.taken = @ + 1]

\* The close event: the peer closed its end.
PortClosed ==
  /\ port.started /\ ~port.closed
  /\ port' = ClosePort(port)

\* close() of the link or the handler: the session, then the port.
PortOwnerCloses ==
  /\ port.started /\ ~port.ownerClosed
  /\ port' = ClosePort([port EXCEPT !.ownerClosed = TRUE])

PortNext ==
  \/ PortBinds \/ PeerPosts \/ PortMessage \/ PortSend \/ PortClosed
  \/ PortOwnerCloses

PortSpec == PortInit /\ [][PortNext]_port

PortPipe == INSTANCE DuplexPipe WITH
  taken <- port.taken, arrived <- [i \in 1 .. port.taken |-> i],
  parked <- 0, open <- ~port.closed, told <- port.told > 0
=============================================================================
