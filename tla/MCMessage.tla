----------------------------- MODULE MCMessage ------------------------------
(***************************************************************************)
(* The parts of the package message for TLC, one at a time: part says which *)
(* of them this behaviour is about, the others stay in an initial state.   *)
(***************************************************************************)
EXTENDS PushQueue, DrainWaiter, MessageSession,
        MemoryDuplex, WsDuplex, StdioDuplex, PortDuplex

VARIABLE part

MCPeerText == <<"a", " ", "nl", "nl", "b", "c", "nl", " ", "nl", "d">>

duplexVars == <<memory, ws, link, stdio, port>>
vars == <<queueVars, waitVars, session, duplexVars, part>>

Init ==
  /\ part \in {"queue", "wait", "session", "memory", "ws", "stdio", "port"}
  /\ QueueInit /\ WaitInit /\ SessionInit /\ MemoryInit /\ StdioInit /\ PortInit
  /\ part # "session" => session = Fresh("server")
  /\ IF part = "ws" THEN WsInit
     ELSE ws = WsBound("open", "handler") /\ link = LinkBooted("open", "handler")

Queue(A) == part = "queue" /\ A /\ UNCHANGED <<waitVars, session, duplexVars, part>>
Waiter(A) == part = "wait" /\ A /\ UNCHANGED <<queueVars, session, duplexVars, part>>
Session(A) == part = "session" /\ A /\ UNCHANGED <<queueVars, waitVars, duplexVars, part>>
Duplex(kind, A) == part = kind /\ A /\ UNCHANGED <<queueVars, waitVars, session, part>>
Memory(A) == Duplex("memory", A) /\ UNCHANGED <<ws, link, stdio, port>>
Ws(A) == Duplex("ws", A) /\ UNCHANGED <<memory, stdio, port>>

Next ==
  \/ Queue(QueueNext) \/ Waiter(WaitNext) \/ Session(SessionNext)
  \/ Memory(MemoryNext) \/ Ws(WsNext)
  \/ Duplex("stdio", StdioNext) /\ UNCHANGED <<memory, ws, link, port>>
  \/ Duplex("port", PortNext) /\ UNCHANGED <<memory, ws, link, stdio>>

Spec == Init /\ [][Next]_vars

\* A consumer in a for-await loop asks for the next value, armed timers fire and
\* microtasks run.
FairSpec ==
  /\ Spec
  /\ WF_vars(Queue(CallNext))
  /\ \A n \in Waits : WF_vars(Waiter(TimerFires(n)))
  /\ WF_vars(Session(OnHelloTimeout))
  /\ WF_vars(Memory(MemoryTask)) /\ WF_vars(Ws(LateNotify))

-----------------------------------------------------------------------------
\* Each adapter is a pipe: texts leave in the order send() took them, nothing
\* leaves after the owner was told of the close, the owner is told, and no
\* drain promise outlives the close.
PipesKeepOrder ==
  /\ ToA!PipeSpec /\ ToB!PipeSpec /\ WsPipe!PipeSpec
  /\ StdioPipe!PipeSpec /\ PortPipe!PipeSpec

\* A drain promise is pending only while an event that settles it is to come:
\* a flush, a resume, the open or close of the socket, a poll, a 'drain'; and a
\* call waits for the connect only while the socket still is to open or close.
ParkedIsWoken ==
  /\ MemoryParkedIsWoken
  /\ WsParkedIsWoken
  /\ stdio.drainWaiters > 0 => ~stdio.closed
  /\ ConnectSettles

\* A consumer whose queue is closed gets to the end of its loop, no wait of a
\* call outlives its drain timeout, and with a hello timeout whoever awaits the
\* handshake is answered, though neither the peer nor the context factory does
\* anything.
EveryWaitEnds ==
  /\ part = "queue" => LoopEnds
  /\ part = "wait" => WaitEnds
  /\ part = "session" => HandshakeSettles
=============================================================================
