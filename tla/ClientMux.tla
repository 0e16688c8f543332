------------------------------ MODULE ClientMux ------------------------------
(***************************************************************************)
(* The client side of one connection: DuplexLink                           *)
(* (message-client/src/duplex.ts) gives each call an id and routes frames  *)
(* by id to its ClientCall (message-client/src/call.ts), which settles the *)
(* caller's promise, feeds the output iterator it may resolve to, and      *)
(* pumps a streamed input.                                                 *)
(*                                                                         *)
(* Ids are never reused, so a call stands for its id.  One JavaScript turn *)
(* is one step: an inbound frame, the resumption of an await, an abort, a  *)
(* call of the consumer.  A send may close the session before it returns,  *)
(* and the close then runs through every call in flight, the sending one   *)
(* included.                                                               *)
(***************************************************************************)
EXTENDS PushQueueOps, Integers, FiniteSets

CONSTANTS Calls,      \* calls made on the link
          CanPause,   \* the duplex has pause() and resume()
          Trailing,   \* a paused duplex delivers what it has already read
          Sends,      \* what may become of a frame that is sent
          ControlFits, \* maxFrameBytes leaves room for in-done and cancel
          MaxSent,    \* bound of the model: in-items of one call
          MaxBuffered \* bound of the model: items buffered per call

ASSUME CallsAssumption == IsFiniteSet(Calls)
ASSUME DuplexAssumption == CanPause \in BOOLEAN /\ Trailing \in BOOLEAN
ASSUME SendsAssumption ==
  Sends \subseteq {"sent", "drain", "oversize", "stringify", "closes", "throws"}
ASSUME ControlFitsAssumption == ControlFits \in BOOLEAN
ASSUME BoundsAssumption == MaxSent \in Nat /\ MaxBuffered \in Nat

VARIABLES link,          \* the session: "handshaking", "open" or "closed"
          calls,         \* the calls, as records
          pausedQueues,  \* DuplexLink's counter
          reading        \* the duplex is not paused

vars == <<link, calls, pausedQueues, reading>>

\* Modes in which the inflight map holds the call.
Live == {"pending-first", "streaming-out"}

OutputEntry == [size : {1}]

Call ==
  [mode : Live \cup {"idle", "awaiting", "done"},
   promise : {"pending", "value", "iterator", "rejected", "aborted"},
   aborted : BOOLEAN,       \* the caller's signal
   armed : BOOLEAN,         \* the abort listener is attached
   streaming : BOOLEAN,     \* the input is an async iterable
   sendingInput : BOOLEAN,
   input : {"none", "open", "finished", "threw", "returned"},   \* inputIterator
   pump : {"none", "pulling", "draining", "ended"},     \* what pumpInput awaits
   drain : {"none", "pending", "drained", "timeout", "cancelled"},
   queue : [entries : Seq(OutputEntry), buffered : Int, paused : BOOLEAN,
            pending : BOOLEAN, closed : Closings],
   answered : BOOLEAN,      \* history: a terminal frame settled the call
   sent : Seq({"call", "in-item", "in-done", "cancel"})]    \* history

TypeOK ==
  /\ link \in {"handshaking", "open", "closed"}
  /\ calls \in [Calls -> Call]
  /\ pausedQueues \in Int
  /\ reading \in BOOLEAN

NewCall == [mode |-> "idle", promise |-> "pending", aborted |-> FALSE,
            armed |-> FALSE, streaming |-> FALSE, sendingInput |-> FALSE,
            input |-> "none", pump |-> "none", drain |-> "none",
            queue |-> NewQueue, answered |-> FALSE, sent |-> <<>>]

Init ==
  /\ link = "handshaking"
  /\ calls = [c \in Calls |-> NewCall]
  /\ pausedQueues = 0
  /\ reading = TRUE

-----------------------------------------------------------------------------
(* A call's own methods *)

\* finish(), before its action: one-shot, releases what the call holds.
Finish(r) ==
  [r EXCEPT !.mode = "done", !.sendingInput = FALSE, !.armed = FALSE,
            !.drain = IF @ = "pending" THEN "cancelled" ELSE @,
            !.input = IF @ = "open" THEN "returned" ELSE @]

\* The action of fail(): reject the promise, or fail the output iterator.
Settled(r, before, how) ==
  IF before = "pending-first" THEN [r EXCEPT !.promise = how]
  ELSE [r EXCEPT !.queue = Close(@, "failed")]

\* fail(error, false); a call that is done ignores it.
Fail(r, how) ==
  IF r.mode = "done" THEN r ELSE Settled(Finish(r), r.mode, how)

\* Mutant of CloseAll: streams are left to their consumers.
CloseAllPromises(cs) ==
  [c \in Calls |-> IF cs[c].mode = "pending-first" THEN Fail(cs[c], "rejected")
                   ELSE cs[c]]

\* DuplexLink.onClose: every call in flight fails.
CloseAll(cs) ==
  [c \in Calls |-> IF cs[c].mode \in Live THEN Fail(cs[c], "rejected") ELSE cs[c]]

-----------------------------------------------------------------------------
(* Steps *)

\* The step ends with the calls cs; if the session closed in it, its close ran
\* through the calls.  The queues of a step that pause or resume reads do so
\* connection-wide: the first pauses, the last one resumes.
Commit(cs, closes) ==
  LET paused == Cardinality({c \in Calls : cs[c].queue.paused /\ ~calls[c].queue.paused})
      resumed == Cardinality({c \in Calls : calls[c].queue.paused /\ ~cs[c].queue.paused})
      count == pausedQueues + paused - resumed
  IN  /\ calls' = cs
      /\ link' = IF closes THEN "closed" ELSE link
      /\ pausedQueues' = count
      /\ reading' = IF pausedQueues = 0 /\ count > 0 THEN ~CanPause
                    ELSE IF pausedQueues > 0 /\ count = 0 THEN TRUE
                    ELSE reading

Sent(c) == calls[c].sent
Has(c, frame) == \E i \in 1 .. Len(Sent(c)) : Sent(c)[i] = frame

Put(c, r) == [calls EXCEPT ![c] = r]

\* host.send of a frame of a call that goes on; a closed session takes nothing.
Hows(frame) ==
  IF link = "closed" THEN {"closed"}
  ELSE IF frame \in {"in-done", "cancel"}
  THEN Sends \ ({"stringify", "drain"} \cup IF ControlFits THEN {"oversize"} ELSE {})
  ELSE Sends

Taken(r, frame, how) ==
  IF how \in {"sent", "drain"} THEN [r EXCEPT !.sent = Append(@, frame)] ELSE r

Closes(how) == how \in {"closes", "throws"}

\* A finish() of call c that sends a cancel and leaves it as over: the call is
\* done before the cancel goes out, so a close in that send fails the others.
FinishWithCancel(c, over) ==
  \E how \in Hows("cancel") :
    LET cs == Put(c, Taken(over, "cancel", how))
    IN  Commit(IF Closes(how) THEN CloseAll(cs) ELSE cs, Closes(how))

-----------------------------------------------------------------------------
(* The caller *)

\* call(): callInner awaits the handshake, or the abort.
StartCall(c, streaming) ==
  /\ calls[c].mode = "idle"
  /\ Commit(Put(c, [calls[c] EXCEPT !.mode = "awaiting", !.streaming = streaming]),
            FALSE)

\* What open() goes on to after its send said ok, whatever happened meanwhile:
\* arm the signal and start pumping.
Opened(r) ==
  [r EXCEPT !.armed = TRUE, !.sendingInput = r.streaming,
            !.input = IF r.streaming THEN "open" ELSE "none",
            !.pump = IF r.streaming THEN "pulling" ELSE "none"]

Open(c) ==
  \E how \in Hows("call") :
    LET r == [calls[c] EXCEPT !.mode = "pending-first"]
    IN  CASE how \in {"sent", "drain"} -> Commit(Put(c, Opened(Taken(r, "call", how))), FALSE)
          [] how \in {"oversize", "stringify"} -> Commit(Put(c, Fail(r, "rejected")), FALSE)
          [] how = "throws" -> Commit(CloseAll(Put(c, r)), TRUE)
          [] how = "closes" ->
               Commit([CloseAll(Put(c, r)) EXCEPT ![c] = Opened(@)], TRUE)

\* awaitWithAbort: the handshake is over, or the abort comes first.
ReadyOrAborted(r) == link # "handshaking" \/ r.aborted

\* callInner resumes: aborted, connection closed, or a call to open.
Resume(c) ==
  /\ calls[c].mode = "awaiting"
  /\ ReadyOrAborted(calls[c])
  /\ IF calls[c].aborted
     THEN Commit(Put(c, [calls[c] EXCEPT !.mode = "done", !.promise = "aborted"]), FALSE)
     ELSE IF link = "closed"
     THEN Commit(Put(c, [calls[c] EXCEPT !.mode = "done", !.promise = "rejected"]), FALSE)
     ELSE Open(c)

\* The signal aborts: its listener fails the call with a cancel.
Abort(c) ==
  LET r == [calls[c] EXCEPT !.aborted = TRUE]
  IN  /\ ~calls[c].aborted
      /\ IF r.armed /\ r.mode # "done" THEN FinishWithCancel(c, Fail(r, "aborted"))
         ELSE Commit(Put(c, r), FALSE)

-----------------------------------------------------------------------------
(* The session *)

HandshakeOk ==
  /\ link = "handshaking"
  /\ link' = "open"
  /\ UNCHANGED <<calls, pausedQueues, reading>>

\* The peer or the owner closes, the handshake fails, or a second handshake
\* frame arrives.
LinkCloses == link # "closed" /\ Commit(CloseAll(calls), TRUE)

\* The frames of one id, by what the client tells apart.
FrameKinds == {"result ok", "result error", "item", "done", "other"}
Item == [size |-> 1]

\* The first frame decides what the call resolves to.
First(r, kind) ==
  CASE kind = "result ok" -> [Finish(r) EXCEPT !.promise = "value", !.answered = TRUE]
    [] kind = "result error" -> [Fail(r, "rejected") EXCEPT !.answered = TRUE]
    [] kind = "item" -> [r EXCEPT !.mode = "streaming-out", !.promise = "iterator",
                                  !.queue = Push(@, Item)]
    [] kind = "done" -> [Finish([r EXCEPT !.queue = Close(@, "ended"),
                                          !.promise = "iterator"])
                         EXCEPT !.answered = TRUE]
    [] kind = "other" -> Fail(r, "rejected")

\* Mutant of Later: done does not end the output queue.
LaterKeepsQueue(r, kind) ==
  IF kind = "item" THEN [r EXCEPT !.queue = Push(@, Item)]
  ELSE IF kind = "done" THEN [Finish(r) EXCEPT !.answered = TRUE] ELSE r

\* onStreamFrame: later frames drive the iterator; the rest is ignored.
Later(r, kind) ==
  CASE kind = "item" -> [r EXCEPT !.queue = Push(@, Item)]
    [] kind = "done" -> [Finish(r) EXCEPT !.queue = Close(@, "ended"), !.answered = TRUE]
    [] kind = "result error" -> [Fail(r, "rejected") EXCEPT !.answered = TRUE]
    [] kind \in {"result ok", "other"} -> r

\* A frame of a call that is not in flight finds no entry and is dropped.
RecvFrame(c, kind) ==
  /\ link = "open"
  /\ reading \/ Trailing
  /\ calls[c].mode \in Live
  /\ Len(calls[c].queue.entries) < MaxBuffered
  /\ Commit(Put(c, IF calls[c].mode = "pending-first" THEN First(calls[c], kind)
                   ELSE Later(calls[c], kind)), FALSE)

-----------------------------------------------------------------------------
(* The consumer of an output iterator: for await, break, throw() *)

ConsumerNext(c) ==
  /\ calls[c].promise = "iterator"
  /\ ~calls[c].queue.pending
  /\ Commit(Put(c, [calls[c] EXCEPT !.queue = Pull(@)]), FALSE)

\* return() and throw() of the wrapped iterator.
ConsumerStops(c, how) ==
  /\ calls[c].promise = "iterator"
  /\ calls[c].mode # "done"
  /\ FinishWithCancel(c, [Finish(calls[c]) EXCEPT !.queue = Close(@, how)])

-----------------------------------------------------------------------------
(* pumpInput *)

Pumps(c, at) == calls[c].pump = at
\* Mutant of Stopped: the pump does not look at the call after its await.
StoppedNever(r) == FALSE

Stopped(r) == ~r.sendingInput \/ r.mode = "done"
PumpEnded(r) == [r EXCEPT !.pump = "ended"]

\* iterator.next() gives an item.
PumpYields(c) ==
  /\ Pumps(c, "pulling")
  /\ Len(calls[c].sent) <= MaxSent
  /\ IF Stopped(calls[c]) THEN Commit(Put(c, PumpEnded(calls[c])), FALSE)
     ELSE \/ \E how \in Hows("in-item") \cap {"sent"} :
               Commit(Put(c, Taken(calls[c], "in-item", how)), FALSE)
          \/ \E how \in Hows("in-item") \cap {"drain"} :
               Commit(Put(c, [Taken(calls[c], "in-item", how)
                              EXCEPT !.pump = "draining", !.drain = "pending"]), FALSE)
          \/ \E how \in Hows("in-item") \cap {"closes", "throws"} :
               Commit(CloseAll(Put(c, PumpEnded(calls[c]))), TRUE)
          \/ /\ Hows("in-item") \cap {"oversize", "stringify"} # {}
             /\ FinishWithCancel(c, PumpEnded(Fail(calls[c], "rejected")))

\* The iterator is done: in-done.
PumpEnds(c) ==
  /\ Pumps(c, "pulling")
  /\ LET r == PumpEnded([calls[c] EXCEPT !.input = IF @ = "open" THEN "finished" ELSE @])
     IN  IF Stopped(calls[c]) THEN Commit(Put(c, r), FALSE)
         ELSE \E how \in Hows("in-done") :
                LET done == Taken([r EXCEPT !.sendingInput = FALSE], "in-done", how)
                IN  Commit(IF Closes(how) THEN CloseAll(Put(c, done)) ELSE Put(c, done),
                           Closes(how))

\* Mutant of PumpThrows: a generator that failed is a generator that ended.
PumpThrowsDone(c) ==
  /\ Pumps(c, "pulling") /\ ~Stopped(calls[c])
  /\ \E how \in Hows("in-done") \cap {"sent"} :
       LET r == [PumpEnded(calls[c]) EXCEPT !.input = "threw", !.sendingInput = FALSE]
       IN  Commit(Put(c, Taken(r, "in-done", how)), FALSE)

\* iterator.next() rejects: not a successful end, so a cancel and no in-done.
PumpThrows(c) ==
  /\ Pumps(c, "pulling")
  /\ IF calls[c].mode = "done"
     THEN Commit(Put(c, [PumpEnded(calls[c])
                         EXCEPT !.input = IF @ = "open" THEN "threw" ELSE @]), FALSE)
     ELSE FinishWithCancel(c, [PumpEnded(Fail(calls[c], "rejected"))
                               EXCEPT !.input = "threw"])

\* The duplex drains, or drainTimeout elapses.
DrainSettles(c, result) ==
  /\ calls[c].drain = "pending"
  /\ Commit(Put(c, [calls[c] EXCEPT !.drain = result]), FALSE)

\* pumpInput resumes after the wait.
AfterDrain(c) ==
  /\ Pumps(c, "draining")
  /\ calls[c].drain # "pending"
  /\ IF calls[c].drain = "timeout" /\ calls[c].mode # "done"
     THEN FinishWithCancel(c, PumpEnded(Fail(calls[c], "rejected")))
     ELSE Commit(Put(c, [calls[c] EXCEPT !.pump =
            IF calls[c].drain = "drained" /\ calls[c].sendingInput THEN "pulling"
            ELSE "ended"]), FALSE)

-----------------------------------------------------------------------------
PumpSettles(c) == PumpYields(c) \/ PumpEnds(c) \/ PumpThrows(c)

Next ==
  \/ HandshakeOk \/ LinkCloses
  \/ \E c \in Calls :
       \/ \E streaming \in BOOLEAN : StartCall(c, streaming)
       \/ Resume(c) \/ Abort(c)
       \/ \E kind \in FrameKinds : RecvFrame(c, kind)
       \/ ConsumerNext(c)
       \/ \E how \in {"ended", "failed"} : ConsumerStops(c, how)
       \/ PumpSettles(c) \/ AfterDrain(c)
       \/ \E result \in {"drained", "timeout"} : DrainSettles(c, result)

Spec == Init /\ [][Next]_vars

\* Awaits resume, input iterators settle and drain timers fire; nothing is
\* assumed of the peer, of the handshake or of the consumer.
FairStep ==
  \E c \in Calls : \/ Resume(c) \/ PumpSettles(c) \/ AfterDrain(c)
                   \/ DrainSettles(c, "timeout")

FairSpec == Spec /\ WF_vars(FairStep)

-----------------------------------------------------------------------------
(* Properties *)

\* A call that is over holds no input generator, no drain timer and no abort
\* listener.  A call whose own first frame found the socket closing is left
\* out: open() goes on after that send.
NothingHeld ==
  \A c \in Calls : calls[c].mode = "done" /\ Has(c, "call") =>
    calls[c].input # "open" /\ calls[c].drain # "pending" /\ ~calls[c].armed

\* No caller hangs: a call that is over has settled and holds nothing, and a
\* close leaves no call in flight, also when it happens inside the send of one.
NobodyHangs ==
  /\ \A c \in Calls : calls[c].mode = "done" => calls[c].promise # "pending"
  /\ NothingHeld
  /\ link = "closed" => \A c \in Calls : calls[c].mode \notin Live

\* After a terminal frame, a cancel or a close the pump, the abort listener and
\* the consumer send nothing more under the id.
SilentWhenDone ==
  [][\A c \in Calls : calls[c].mode = "done" => calls'[c].sent = calls[c].sent]_vars

\* Reads stay paused only for a stream in flight that holds items to take.
PausedByStream ==
  ~reading => \E c \in Calls : /\ calls[c].mode = "streaming-out"
                              /\ calls[c].queue.paused /\ calls[c].queue.entries # <<>>

\* In the end, every call whose signal was aborted or whose link is closed has
\* settled its caller, be it before the handshake, in it or after it.
CallersAnswered ==
  \A c \in Calls :
    calls[c].mode # "idle" /\ (calls[c].aborted \/ link = "closed")
      => calls[c].promise # "pending"

\* In the end, the pump of a call that is over has ended, wherever it was.
PumpsEnded ==
  \A c \in Calls : calls[c].mode = "done" => calls[c].pump \in {"none", "ended"}
=============================================================================
