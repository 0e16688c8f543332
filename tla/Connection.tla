----------------------------- MODULE Connection -----------------------------
(***************************************************************************)
(* The two ends of one connection: ClientMux and ServerMux joined by the   *)
(* frames in flight.  A frame that an end sends is appended to the wire of *)
(* its direction; the other end takes the frames in order, unless it has   *)
(* paused its reads.  When an end closes, what is in flight to it is lost, *)
(* and the other end is told once it reads.                                *)
(***************************************************************************)
EXTENDS Integers, Sequences, FiniteSets

CONSTANTS Ids,        \* ids of the client's calls, never reused
          Objects,    \* ServerCall objects; the one of an id is the id itself
          NoCall, CanPause, ControlFits, Trailing, Sends, Hook,
          HighWaterMark, MaxItems, MaxInputs, MaxSent, MaxBuffered

ASSUME ObjectsAssumption == Ids \subseteq Objects /\ NoCall \notin Objects
ASSUME SendsAssumption ==
  Sends \subseteq {"sent", "drain", "oversize", "stringify", "closes", "throws"}

VARIABLES link, calls, clientPaused, clientReading,
          open, inflight, callId, phase, cancelled, iterator, drain, queue,
          frames, pausedQueues, reading,
          up, down,     \* frames in flight, as records of id and kind
          joined        \* FALSE: each end has a peer of its own, see MCConnection

Client == INSTANCE ClientMux WITH
            Calls <- Ids, pausedQueues <- clientPaused, reading <- clientReading
Server == INSTANCE ServerMux WITH Calls <- Objects

clientVars == <<link, calls, clientPaused, clientReading>>
serverVars == <<open, inflight, callId, phase, cancelled, iterator, drain,
                queue, frames, pausedQueues, reading>>
wire == <<up, down, joined>>
connVars == <<clientVars, serverVars, wire>>

ConnInit ==
  /\ Client!Init /\ Server!Init
  /\ \A id \in Ids : callId[id] = id
  /\ up = <<>> /\ down = <<>> /\ joined = TRUE

-----------------------------------------------------------------------------
\* The frames a step adds to the histories of its end; at most one call sends.
Added(before, after) ==
  LET sender == {id \in Ids : after[id] # before[id]}
  IN  IF sender = {} THEN <<>>
      ELSE LET id == CHOOSE id \in sender : TRUE
           IN  [k \in 1 .. Len(after[id]) - Len(before[id]) |->
                 [id |-> id, kind |-> after[id][Len(before[id]) + k]]]

SentBy(cs) == [id \in Ids |-> cs[id].sent]

\* A step of an end: rest is what it leaves of the frames in flight to it.
ClientStep(A, rest) ==
  /\ joined /\ A
  /\ up' = IF open THEN up \o Added(SentBy(calls), SentBy(calls')) ELSE <<>>
  /\ down' = IF link' = "closed" THEN <<>> ELSE rest
  /\ UNCHANGED <<serverVars, joined>>

ServerStep(A, rest) ==
  /\ joined /\ A
  /\ down' = IF link # "closed" THEN down \o Added(frames, frames') ELSE <<>>
  /\ up' = IF open' THEN rest ELSE <<>>
  /\ UNCHANGED <<clientVars, joined>>

\* handleFrame on the next frame; a frame of an id without a call is ignored.
ServerReceives ==
  /\ open /\ Server!Delivers /\ up # <<>>
  /\ LET id == Head(up).id
         kind == Head(up).kind
     IN  ServerStep(
           \/ kind = "call" /\ Server!RecvCall(id, id, calls[id].streaming)
           \/ kind = "in-item" /\ Server!RecvInItem(id)
           \/ kind = "in-done" /\ Server!RecvInDone(id)
           \/ kind = "cancel" /\ Server!RecvCancel(id)
           \/ kind # "call" /\ inflight[id] = NoCall /\ UNCHANGED serverVars,
           Tail(up))

\* The kinds of the server's frames, as ClientMux names them.
AsReceived(kind) ==
  CASE kind = "result" -> "result ok" [] kind = "error" -> "result error"
    [] OTHER -> kind

\* onFrame on the next frame; a frame of a call that is over is dropped.
ClientReceives ==
  /\ link = "open" /\ (clientReading \/ Trailing) /\ down # <<>>
  /\ LET id == Head(down).id
     IN  ClientStep(
           IF calls[id].mode \in Client!Live
           THEN Client!RecvFrame(id, AsReceived(Head(down).kind))
           ELSE UNCHANGED clientVars,
           Tail(down))

\* An end closes by itself, or is told that the other end did.
ClientCloses == ClientStep(Client!LinkCloses, down)
ServerCloses == ServerStep(Server!SessionCloses, up)

ClientTurn(id) ==
  \/ \E streaming \in BOOLEAN : ClientStep(Client!StartCall(id, streaming), down)
  \/ ClientStep(\/ Client!Resume(id) \/ Client!Abort(id) \/ Client!ConsumerNext(id)
                \/ \E how \in {"ended", "failed"} : Client!ConsumerStops(id, how)
                \/ Client!PumpSettles(id) \/ Client!AfterDrain(id)
                \/ \E result \in {"drained", "timeout"} :
                     Client!DrainSettles(id, result),
                down)

ServerTurn(id) ==
  ServerStep(\/ Server!PullInput(id) \/ Server!HandlerSettles(id)
             \/ Server!IteratorSettles(id) \/ Server!AfterDrain(id)
             \/ Server!OnErrorSettles(id)
             \/ \E result \in {"drained", "timeout"} :
                  Server!DrainSettles(id, result),
             up)

ConnNext ==
  \/ ClientStep(Client!HandshakeOk, down)
  \/ ClientReceives \/ ServerReceives \/ ClientCloses \/ ServerCloses
  \/ \E id \in Ids : ClientTurn(id) \/ ServerTurn(id)

ConnSpec == ConnInit /\ [][ConnNext]_connVars

-----------------------------------------------------------------------------
\* User code on the server may wait for the whole input before it goes on.
InputTaken(id) == queue[id].closed # "open" /\ queue[id].entries = <<>>

\* Both ends take frames that arrive and are told of the other's close when
\* they read; the handshake ends; consumers take from a stream until it ends or
\* they stop it; handlers take what they are given and user code settles, on the
\* server once its input is at its end; timers fire.  No end has to close, abort,
\* stop early or drain.
FairTurn(id) ==
  \/ ClientStep(\/ Client!Resume(id) \/ Client!PumpSettles(id)
                \/ Client!AfterDrain(id) \/ Client!DrainSettles(id, "timeout")
                \/ calls[id].queue.closed = "open" /\ Client!ConsumerNext(id),
                down)
  \/ ServerStep(\/ Server!PullInput(id) \/ Server!AfterDrain(id)
                \/ Server!OnErrorSettles(id) \/ Server!DrainSettles(id, "timeout")
                \/ InputTaken(id) /\ (Server!HandlerSettles(id)
                                       \/ Server!IteratorSettles(id)),
                up)

FairStep ==
  \/ ClientReceives \/ ServerReceives \/ ClientStep(Client!HandshakeOk, down)
  \/ ~open /\ clientReading /\ ClientCloses
  \/ link = "closed" /\ reading /\ ServerCloses
  \/ \E id \in Ids : FairTurn(id)

\* While one of these steps can be taken, one of them is.  Calls are finitely many
\* and finitely long, so none of the steps is put off for ever.
ConnFairness == WF_connVars(FairStep)

ConnFairSpec == ConnSpec /\ ConnFairness

-----------------------------------------------------------------------------
(* Properties *)

\* A stream that was cut never looks complete, in either direction: a handler
\* that gets to the end of its input without being cancelled has the input of
\* a generator that finished, item by item; and an iterator the server's done
\* ended has every item the server's generator yielded before it finished.
StreamsAreWhole ==
  joined => \A id \in Ids :
    /\ /\ phase[id] \in Server!Active /\ ~cancelled[id]
       /\ calls[id].streaming /\ queue[id].closed = "ended"
       => calls[id].input = "finished"
    /\ /\ calls[id].answered /\ calls[id].promise = "iterator"
       /\ calls[id].queue.closed = "ended"
       => iterator[id] = "finished" /\ frames[id][Len(frames[id])] = "done"

\* A handler that answers without taking the input it was sent leaves its queue
\* above the mark.  Nothing takes from that queue any more, so the server's reads
\* stay paused until the link closes, and the other calls wait with them.
HeldUp(id) ==
  \E other \in Ids \ {id} :
    queue[other].paused /\ phase[other] = "ended" /\ ~cancelled[other]

\* In the end, every call the client made is over at both ends, though both may
\* pause their reads and both directions may stall.  Nothing but the input another
\* call left lying holds it up: consumption, cancel, in-done and the end of the link
\* give every other pause back, whichever call it was made for.
AllOver ==
  \A id \in Ids :
    calls[id].mode = "idle" \/ (calls[id].mode = "done" /\ inflight[id] = NoCall)
      \/ HeldUp(id)
=============================================================================
