------------------------------ MODULE WsDuplex ------------------------------
(***************************************************************************)
(* createWsDuplex (message/src/ws.ts) and its owners: WsHandler.bind       *)
(* (message-server/src/ws.ts), which wraps a socket in whatever state it   *)
(* is, and WsLink (message-client/src/ws.ts), which wraps it once it is    *)
(* open and makes its callers wait for that.  The socket is external: its  *)
(* states and events are those of a WHATWG WebSocket.  A text has size 1.  *)
(***************************************************************************)
EXTENDS Naturals, Sequences, FiniteSets

CONSTANTS WsMark,      \* highWaterMark
          Callers,     \* calls made on the link
          MaxWsTexts   \* bound of the model: texts the duplex takes

VARIABLES ws,          \* the socket and its duplex
          link         \* the WsLink, when it is the owner

wsVars == <<ws, link>>

SocketStates == {"connecting", "open", "closing", "closed"}

WsTypeOK ==
  /\ ws \in
       [socket : SocketStates,
        bufferedAmount : Nat,
        wire : Seq(Nat),        \* history: texts given to socket.send
        bound : BOOLEAN,        \* createWsDuplex ran
        closed : BOOLEAN,
        pending : Seq(Nat),
        poll : BOOLEAN,
        waiters : Nat,          \* drainWaiters
        subscribed : BOOLEAN,   \* the owner called onClose
        late : BOOLEAN,         \* its microtask, for an onClose after the close
        told : Nat,             \* history: calls of the close handler
        taken : Nat]            \* history: texts send() took
  /\ link \in
       [owner : {"handler", "link"},
        closed : BOOLEAN,
        connected : {"pending", "resolved", "rejected"},
        hooked : BOOLEAN,       \* unsubConnect # undefined
        call : [Callers -> {"new", "waiting", "linked", "failed", "aborted"}]]

AboveMark(w) == w.bufferedAmount > WsMark

SettleDrains(w) == [w EXCEPT !.poll = FALSE, !.waiters = 0]

CloseSocket(w) ==
  [w EXCEPT !.socket = IF @ = "closed" THEN @ ELSE "closing"]

\* close(): also run inside a send, by the close event and by a binary message.
CloseWs(w) ==
  IF w.closed THEN w
  ELSE LET shut == SettleDrains(CloseSocket([w EXCEPT !.closed = TRUE,
                                                      !.pending = <<>>]))
       IN  IF shut.subscribed THEN [shut EXCEPT !.told = @ + 1] ELSE shut

\* createWsDuplex and the onClose of the session built on it.
BindDuplex(w) ==
  LET gone == w.socket \in {"closing", "closed"}
  IN  [w EXCEPT !.bound = TRUE, !.closed = gone, !.subscribed = TRUE, !.late = gone]

GiveToSocket(w, texts) ==
  [w EXCEPT !.wire = @ \o texts, !.bufferedAmount = @ + Len(texts)]

\* Mutant of OnOpen: the poll is armed by the next send only.
OnOpenWithoutPoll(w) ==
  IF ~w.bound \/ w.closed THEN w
  ELSE LET sent == [GiveToSocket(w, w.pending) EXCEPT !.pending = <<>>]
       IN  IF AboveMark(sent) THEN sent ELSE SettleDrains(sent)

\* onOpen of the duplex: the texts of the connecting socket, then their drains.
OnOpen(w) ==
  IF ~w.bound \/ w.closed THEN w
  ELSE LET sent == [GiveToSocket(w, w.pending) EXCEPT !.pending = <<>>]
       IN  IF AboveMark(sent) THEN [sent EXCEPT !.poll = TRUE]
           ELSE SettleDrains(sent)

\* send(text), by the socket's readyState.
SendWs(w, text) ==
  CASE w.socket = "connecting" ->
         LET queued == [w EXCEPT !.pending = Append(@, text), !.taken = text]
         IN  IF Len(queued.pending) > WsMark
             THEN [queued EXCEPT !.waiters = @ + 1] ELSE queued
    [] w.socket = "open" ->
         LET sent == GiveToSocket([w EXCEPT !.taken = text], <<text>>)
         IN  IF AboveMark(sent)
             THEN [sent EXCEPT !.poll = TRUE, !.waiters = @ + 1] ELSE sent
    [] w.socket \in {"closing", "closed"} -> CloseWs(w)

-----------------------------------------------------------------------------
(* WsLink *)

FailConnect(l) == [l EXCEPT !.connected = IF @ = "pending" THEN "rejected" ELSE @]

\* boot's listeners, removed by the first of open, error, close and close().
Unhook(l) == [l EXCEPT !.hooked = FALSE]

StartLink(l) ==
  IF l.closed THEN l
  ELSE [l EXCEPT !.connected = IF @ = "pending" THEN "resolved" ELSE @]

\* The constructors, over a socket in state s.
WsBound(s, owner) ==
  LET fresh == [socket |-> s, bufferedAmount |-> 0, wire |-> <<>>,
                bound |-> FALSE, closed |-> FALSE, pending |-> <<>>,
                poll |-> FALSE, waiters |-> 0, subscribed |-> FALSE,
                late |-> FALSE, told |-> 0, taken |-> 0]
  IN  IF owner = "handler" \/ s = "open" THEN BindDuplex(fresh) ELSE fresh

LinkBooted(s, owner) ==
  [owner |-> owner, closed |-> FALSE,
   connected |-> CASE owner = "handler" \/ s = "open" -> "resolved"
                   [] owner = "link" /\ s = "connecting" -> "pending"
                   [] owner = "link" /\ s \in {"closing", "closed"} -> "rejected",
   hooked |-> owner = "link" /\ s = "connecting",
   call |-> [c \in Callers |-> "new"]]

WsInit ==
  \E s \in SocketStates, owner \in {"handler", "link"} :
    /\ ws = WsBound(s, owner)
    /\ link = LinkBooted(s, owner)

-----------------------------------------------------------------------------
(* The turns *)

\* open: the link wraps the socket; a duplex that waited for it flushes.
SocketOpens ==
  /\ ws.socket = "connecting"
  /\ LET opened == [ws EXCEPT !.socket = "open"]
     IN  IF link.owner = "link"
         THEN /\ link' = IF link.hooked THEN StartLink(Unhook(link)) ELSE link
              /\ ws' = IF link.hooked THEN BindDuplex(opened) ELSE opened
         ELSE ws' = OnOpen(opened) /\ UNCHANGED link

\* A connection attempt fails: error, and the close event later.
SocketErrors ==
  /\ ws.socket = "connecting"
  /\ ws' = CloseSocket(ws)
  /\ link' = IF link.hooked THEN FailConnect(Unhook(link)) ELSE link

\* The peer starts the closing handshake: no event yet.
PeerCloses ==
  /\ ws.socket = "open"
  /\ ws' = CloseSocket(ws)
  /\ UNCHANGED link

\* The close event.
SocketCloses ==
  /\ ws.socket # "closed"
  /\ LET gone == [ws EXCEPT !.socket = "closed"]
     IN  ws' = IF ws.bound THEN CloseWs(gone) ELSE gone
  /\ link' = IF link.hooked THEN FailConnect(Unhook(link)) ELSE link

NetworkTakes ==
  /\ ws.socket = "open" /\ ws.bufferedAmount > 0
  /\ ws' = [ws EXCEPT !.bufferedAmount = @ - 1]
  /\ UNCHANGED link

\* The interval of pollDrain.
PollFires ==
  /\ ws.poll
  /\ ws' = IF ws.closed \/ ~AboveMark(ws) THEN SettleDrains(ws) ELSE ws
  /\ UNCHANGED link

\* The owner sends; a closed duplex drops the text.
WsSend ==
  /\ ws.bound /\ ~ws.closed
  /\ ws.taken < MaxWsTexts
  /\ ws' = SendWs(ws, ws.taken + 1)
  /\ UNCHANGED link

\* The owner closes the duplex, or a message that is not a text does.
WsOwnerCloses ==
  /\ ws.bound /\ ~ws.closed
  /\ ws' = CloseWs(ws)
  /\ UNCHANGED link

\* The microtask of an onClose that came after the close.
LateNotify ==
  /\ ws.late
  /\ ws' = [ws EXCEPT !.late = FALSE, !.told = @ + 1]
  /\ UNCHANGED link

\* close() of what WsHandler.bind returned.
HandlerCloses ==
  /\ link.owner = "handler" /\ ~link.closed
  /\ link' = [link EXCEPT !.closed = TRUE]
  /\ ws' = CloseSocket(CloseWs(ws))

\* WsLink.close(), before or after the socket opened.
LinkCloses ==
  /\ link.owner = "link" /\ ~link.closed
  /\ link' = FailConnect(Unhook([link EXCEPT !.closed = TRUE]))
  /\ ws' = CloseSocket(IF ws.bound THEN CloseWs(ws) ELSE ws)

\* callInner: awaitWithAbort(connected), then the DuplexLink's call.
LinkCall(c) ==
  /\ link.owner = "link" /\ link.call[c] = "new"
  /\ link' = [link EXCEPT !.call[c] = "waiting"]
  /\ UNCHANGED ws

CallResumes(c) ==
  /\ link.call[c] = "waiting" /\ link.connected # "pending"
  /\ link' = [link EXCEPT !.call[c] = IF link.connected = "resolved" THEN "linked"
                                      ELSE "failed"]
  /\ UNCHANGED ws

CallAborts(c) ==
  /\ link.call[c] = "waiting"
  /\ link' = [link EXCEPT !.call[c] = "aborted"]
  /\ UNCHANGED ws

WsNext ==
  \/ SocketOpens \/ SocketErrors \/ PeerCloses \/ SocketCloses \/ NetworkTakes
  \/ PollFires \/ WsSend \/ WsOwnerCloses \/ LateNotify
  \/ HandlerCloses \/ LinkCloses
  \/ \E c \in Callers : LinkCall(c) \/ CallResumes(c) \/ CallAborts(c)

WsSpec == WsInit /\ [][WsNext]_wsVars

WsPipe == INSTANCE DuplexPipe WITH
  taken <- ws.taken, arrived <- ws.wire, parked <- ws.waiters,
  open <- ws.bound => ~ws.closed, told <- ws.told > 0

-----------------------------------------------------------------------------
\* A sender waits only on an open duplex: for the socket to open or to close,
\* or for the poll that watches its buffer.
WsParkedIsWoken ==
  ws.waiters > 0 => ~ws.closed /\ (ws.socket = "open" => ws.poll)

\* A call waits for the connect only while an event of the socket is still
\* to come that settles it.
ConnectSettles ==
  link.connected = "pending" =>
    link.hooked /\ ~link.closed /\ ws.socket = "connecting"
=============================================================================
