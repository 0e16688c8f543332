--------------------------- MODULE MessageSession ---------------------------
(***************************************************************************)
(* MessageSession (message/src/session.ts): the handshake, the framing     *)
(* errors and the close of one end of a connection, for either role.       *)
(*                                                                         *)
(* One JavaScript turn is one step.  The turns of a session are its        *)
(* constructor, an inbound text, the settlement of onHello (the only await *)
(* of the class), the hello timer, the close of the duplex, and what its   *)
(* owner calls.  A step that sends chooses what the duplex does with the   *)
(* text, because a send may close the session before it returns.           *)
(***************************************************************************)
EXTENDS Naturals, Sequences

CONSTANTS Roles,         \* the roles of an end: "client", "server"
          HasHelloTimeout,    \* helloTimeoutMs > 0
          Sends,         \* what the duplex may do with a text (see SendText)
          MaxFrames      \* bound of the model: frames sent, frames delivered

ASSUME RolesAssumption == Roles \subseteq {"client", "server"}
ASSUME HasHelloTimeoutAssumption == HasHelloTimeout \in BOOLEAN
ASSUME SendsAssumption ==
  Sends \subseteq {"sent", "drain", "closes", "throws"} /\ Sends # {}
ASSUME MaxFramesAssumption == MaxFrames \in Nat

VARIABLE session   \* the fields of the session, and what it did to its duplex

(***************************************************************************)
(* The texts a peer may send, by what the session tells apart:             *)
(*   hello          a legal hello of this protocol version                 *)
(*   bad hello      any other object whose type is hello                   *)
(*   hello-ok, hello-error, app   legal frames (app: with an id)           *)
(*   bad id         an object that is not a legal frame, with a usable id  *)
(*   bad            an object that is not a legal frame, without one       *)
(*   garbage        not the text of a JSON object                          *)
(*   oversize       longer than maxFrameBytes                              *)
(***************************************************************************)
Frames == {"hello", "hello-ok", "hello-error", "app"}
Texts == Frames \cup {"bad hello", "bad id", "bad", "garbage", "oversize"}

States == {"waiting-hello", "ready", "closed"}

Sessions ==
  [role : Roles,
   state : States,
   ready : {"pending", "resolved", "rejected"},   \* the ready promise
   helloInFlight : BOOLEAN,
   accept : {"none", "waiting", "resolved", "rejected"},  \* onHello's promise
   acceptGeneration : Nat,      \* generation captured by acceptHello
   helloGeneration : Nat,
   closeNotified : BOOLEAN,
   closeCalls : Nat,            \* history: calls of onClose
   timer : BOOLEAN,             \* timeoutId # undefined
   drains : Nat,                \* pendingDrains.size
   listening : BOOLEAN,         \* subscribed to the duplex
   up : BOOLEAN,                \* the duplex is open: it takes texts
   out : Seq(Frames),           \* history: texts the duplex took
   delivered : Nat]             \* history: frames handed to onFrame

SessionTypeOK == session \in Sessions

-----------------------------------------------------------------------------
(* The methods, on the session's record *)

\* failReady / succeedReady: the ready promise settles once.
FailReady(s) == [s EXCEPT !.ready = IF @ = "pending" THEN "rejected" ELSE @]
SucceedReady(s) == [s EXCEPT !.ready = IF @ = "pending" THEN "resolved" ELSE @]

\* Mutant of EnterClosed: parked senders stay parked.
EnterClosedKeepsDrains(s) ==
  [s EXCEPT !.state = "closed", !.helloGeneration = @ + 1, !.timer = FALSE,
            !.listening = FALSE]

\* enterClosed: abandon an accept, drop the timer and the subscriptions, and
\* resolve every drain promise still pending.
EnterClosed(s) ==
  [s EXCEPT !.state = "closed", !.helloGeneration = @ + 1, !.timer = FALSE,
            !.listening = FALSE, !.drains = 0]

NotifyOnClose(s) ==
  IF s.closeNotified THEN s
  ELSE [s EXCEPT !.closeNotified = TRUE, !.closeCalls = @ + 1]

\* close(): also closes the duplex, whose close event is not heard any more.
CloseSession(s) ==
  IF s.state = "closed" THEN s
  ELSE NotifyOnClose([FailReady(EnterClosed(s)) EXCEPT !.up = FALSE])

\* onDuplexClose
DuplexClosed(s) ==
  NotifyOnClose(IF s.state = "closed" THEN s
                ELSE [FailReady(EnterClosed(s)) EXCEPT !.up = FALSE])

(***************************************************************************)
(* send / sendText.  A duplex that is closed drops the text and reports    *)
(* the close later.  An open one takes it ("sent"), takes it and returns a *)
(* drain promise ("drain"), finds its socket closing and closes itself     *)
(* before it returns ("closes": ws.ts), or throws ("throws").              *)
(***************************************************************************)
SendText(s, frame, how) ==
  IF s.state = "closed" \/ ~s.up THEN s
  ELSE CASE how = "sent"   -> [s EXCEPT !.out = Append(@, frame)]
         [] how = "drain"  -> [s EXCEPT !.out = Append(@, frame),
                                        !.drains = @ + 1]
         [] how = "closes" -> DuplexClosed(s)
         [] how = "throws" -> CloseSession(s)

\* The ok of the SendResult: a duplex that closed without throwing says ok.
SendOk(s, how) == s.state # "closed" /\ (s.up => how # "throws")

\* Mutant of FailHandshake: the connection is not closed.
FailHandshakeStaysOpen(s, how) ==
  IF s.state = "closed" THEN s ELSE SendText(FailReady(s), "hello-error", how)

FailHandshake(s, how) ==
  IF s.state = "closed" THEN s
  ELSE CloseSession(SendText(FailReady(s), "hello-error", how))

\* The rest of acceptHello once onHello resolved.
Accepted(s, how) ==
  LET sent == SendText(s, "hello-ok", how)
  IN  IF ~SendOk(s, how) THEN CloseSession(FailReady(sent))
      ELSE SucceedReady([sent EXCEPT !.timer = FALSE, !.state = "ready",
                                     !.helloInFlight = FALSE])

Handshake(s, text, how) ==
  CASE text = "garbage" -> CloseSession(s)
    [] text # "garbage" /\ s.role = "client" ->
         IF text = "hello-ok"
         THEN SucceedReady([s EXCEPT !.timer = FALSE, !.state = "ready"])
         ELSE CloseSession(FailReady(s))
    [] text # "garbage" /\ s.role = "server" ->
         IF text = "hello" /\ ~s.helloInFlight
         THEN [s EXCEPT !.helloInFlight = TRUE, !.accept = "waiting",
                        !.acceptGeneration = s.helloGeneration]
         ELSE FailHandshake(s, how)

ReadyMessage(s, text) ==
  CASE text \in {"garbage", "bad", "bad hello"} -> CloseSession(s)
    [] text = "bad id" -> s                    \* onInvalidFrame: the owner's
    [] text \in Frames -> [s EXCEPT !.delivered = @ + 1]

-----------------------------------------------------------------------------
(* The turns *)

Fresh(role) ==
         [role |-> role, state |-> "waiting-hello", ready |-> "pending",
          helloInFlight |-> FALSE, accept |-> "none", acceptGeneration |-> 0,
          helloGeneration |-> 0, closeNotified |-> FALSE, closeCalls |-> 0,
          timer |-> HasHelloTimeout, drains |-> 0, listening |-> TRUE, up |-> TRUE,
          out |-> <<>>, delivered |-> 0]

\* A socket may have closed before it is wrapped: the adapter says so later.
Bound(role) == {Fresh(role), [Fresh(role) EXCEPT !.up = FALSE]}

\* The constructor; sendClientHello for a client.
Constructed(s, how) ==
  LET sent == SendText(s, "hello", how)
  IN  IF s.role = "server" THEN s
      ELSE IF SendOk(s, how) THEN sent ELSE CloseSession(FailReady(sent))

SessionInit ==
  \E role \in Roles : \E s \in Bound(role), how \in Sends : session = Constructed(s, how)

\* onInbound; nothing is read once the session has unsubscribed.
Inbound(text) ==
  /\ session.listening
  /\ session.state # "closed"
  /\ session.delivered < MaxFrames
  /\ \E how \in Sends :
       session' = IF text = "oversize" THEN CloseSession(FailReady(session))
                  ELSE IF session.state = "waiting-hello"
                  THEN Handshake(session, text, how)
                  ELSE ReadyMessage(session, text)

\* The accept settles; after a close or in a later generation it is ignored.
Abandoned(s) == s.state = "closed" \/ s.acceptGeneration # s.helloGeneration

OnHelloResolves ==
  /\ session.accept = "waiting"
  /\ \E how \in Sends :
       LET s == [session EXCEPT !.accept = "resolved"]
       IN  session' = IF Abandoned(s) THEN s ELSE Accepted(s, how)

OnHelloRejects ==
  /\ session.accept = "waiting"
  /\ \E how \in Sends :
       LET s == [session EXCEPT !.accept = "rejected"]
       IN  session' = IF Abandoned(s) THEN s ELSE FailHandshake(s, how)

OnHelloTimeout ==
  /\ session.timer
  /\ session' = IF session.state = "waiting-hello"
                THEN CloseSession(FailReady(session))
                ELSE [session EXCEPT !.timer = FALSE]

\* The pipe breaks or the peer closes it, and the duplex drops texts until
\* its close event is delivered.
PipeCloses ==
  /\ session.up
  /\ session' = [session EXCEPT !.up = FALSE]

\* The duplex reports that it is closed.  A ws or stdio duplex that was
\* closed when the session subscribed calls the handler even after the
\* session unsubscribed, so the step is allowed in a closed session too.
OnDuplexClose ==
  /\ ~session.up
  /\ session' = DuplexClosed(session)

DrainSettles ==
  /\ session.drains > 0
  /\ session' = [session EXCEPT !.drains = @ - 1]

\* A rejected drain promise is a transport failure.
DrainRejects ==
  /\ session.drains > 0
  /\ session' = CloseSession(session)

\* The owner (attachRouter, DuplexLink) sends after ready settled and closes.
OwnerSends ==
  /\ session.ready # "pending"
  /\ Len(session.out) < MaxFrames
  /\ \E how \in Sends : session' = SendText(session, "app", how)

OwnerCloses == session' = CloseSession(session)

SessionNext ==
  \/ \E text \in Texts : Inbound(text)
  \/ OnHelloResolves \/ OnHelloRejects \/ OnHelloTimeout
  \/ PipeCloses \/ OnDuplexClose \/ DrainSettles \/ DrainRejects
  \/ OwnerSends \/ OwnerCloses

SessionSpec == SessionInit /\ [][SessionNext]_session

\* Timers fire.  Neither the peer nor the context factory has to do anything.
SessionFairSpec == SessionSpec /\ WF_session(OnHelloTimeout)

-----------------------------------------------------------------------------
(* Properties *)

\* The server states are waiting-hello, ready, closed, in this order: once
\* the owner was told of the close, the session is not ready again.
ClosedIsFinal == session.closeNotified => session.state = "closed"

\* The owner hears of the close exactly once, when no timer, subscription or
\* parked sender of the session is left.
ClosedIsClean ==
  /\ session.closeCalls <= 1
  /\ session.state = "closed" =>
       /\ session.closeCalls = 1
       /\ ~session.timer /\ ~session.listening
       /\ session.drains = 0
       /\ session.ready # "pending"

IsReply(frame) == frame \in {"hello-ok", "hello-error"}

\* No frame reaches the server's router before the connection's context
\* exists, and none reaches a client that has not seen hello-ok.
DeliveredAfterHandshake ==
  session.delivered > 0 =>
    /\ session.ready = "resolved"
    /\ session.role = "server" => session.accept = "resolved"

\* One handshake reply, before any other frame; in particular no hello-ok
\* after a hello-error when an abandoned accept succeeds later.  And nothing is
\* delivered before it.
OneReply ==
  /\ DeliveredAfterHandshake
  /\ session.role = "server" =>
       \A i \in 1 .. Len(session.out) : IsReply(session.out[i]) <=> i = 1

\* With a hello timeout a caller that awaits ready is always answered, even
\* when the context factory never settles.
HandshakeSettles == HasHelloTimeout => <>(session.ready # "pending")

=============================================================================
