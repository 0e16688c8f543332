------------------------------ MODULE ServerMux ------------------------------
(***************************************************************************)
(* The server side of one connection after its handshake: attachRouter     *)
(* (message-server/src/shared.ts) routes frames by id to ServerCalls       *)
(* (message-server/src/call.ts), which run the procedure and emit its      *)
(* answer.                                                                 *)
(*                                                                         *)
(* Calls are ServerCall objects, not ids: an id is free for reuse after    *)
(* its terminal frame or its cancel, so an object of an earlier use may    *)
(* still run beside the one that owns the id.  One JavaScript turn is one  *)
(* step: an inbound frame, the settlement of a promise a call awaits, a    *)
(* timer.  A step that sends chooses what becomes of the frame.            *)
(***************************************************************************)
EXTENDS PushQueueOps, Integers, FiniteSets

CONSTANTS Ids,        \* ids the peer uses
          Calls,      \* ServerCall objects
          NoCall,     \* no ServerCall: an absent entry of the inflight map
          CanPause,   \* the duplex has pause() and resume()
          Trailing,   \* a paused duplex delivers the lines of a chunk it has
                      \* read (stdio.ts); the other adapters deliver nothing
          Sends,      \* what may become of a frame that is sent
          Hook,       \* onError: "none", "works", or "fails" when it may throw
          MaxItems,   \* bound of the model: items of one output stream
          MaxInputs   \* bound of the model: input values buffered per call

ASSUME CallsAssumption == IsFiniteSet(Calls) /\ NoCall \notin Calls
ASSUME CanPauseAssumption == CanPause \in BOOLEAN /\ Trailing \in BOOLEAN
ASSUME HookAssumption == Hook \in {"none", "works", "fails"}
ASSUME SendsAssumption ==
  Sends \subseteq {"sent", "drain", "oversize", "stringify", "closes", "throws"}
ASSUME BoundsAssumption == MaxItems \in Nat /\ MaxInputs \in Nat

VARIABLES
  open,          \* the session is not closed
  inflight,      \* attachRouter's map of ids to calls
  callId,        \* ServerCall.id; any id before the object exists
  phase,         \* what the call's run() awaits
  cancelled,     \* ServerCall.cancelled (its signal is aborted with it)
  iterator,      \* the output iterator held by the call
  drain,         \* the call's DrainWaiter: its wait, or the decided outcome
  queue,         \* ServerCall.inputQueue, for a call with streaming input
  frames,        \* history: the kinds of the frames the call sent
  pausedQueues,  \* attachRouter's counter
  reading        \* the duplex is not paused

vars == <<open, inflight, callId, phase, cancelled, iterator, drain, queue,
          frames, pausedQueues, reading>>

\* run() awaits the procedure, the iterator's next(), the drain of the duplex,
\* or onError (called from emitStream's catch or from run's).
Active == {"running", "pulling", "draining", "reporting stream", "reporting"}
Phases == Active \cup {"unused", "ended", "rejected"}
Terminal == {"result", "done", "error"}
Kinds == Terminal \cup {"item"}

InputEntry == [size : {1}]
NoQueue == [NewQueue EXCEPT !.closed = "ended"]   \* a unary call has none

TypeOK ==
  /\ open \in BOOLEAN
  /\ inflight \in [Ids -> Calls \cup {NoCall}]
  /\ callId \in [Calls -> Ids]
  /\ phase \in [Calls -> Phases]
  /\ cancelled \in [Calls -> BOOLEAN]
  /\ iterator \in [Calls -> {"none", "open", "finished", "returned"}]
  /\ drain \in [Calls -> {"none", "pending", "drained", "timeout", "cancelled"}]
  /\ queue \in [Calls -> [entries : Seq(InputEntry), buffered : Int,
                          paused : BOOLEAN, pending : BOOLEAN,
                          closed : Closings]]
  /\ frames \in [Calls -> Seq(Kinds)]
  /\ pausedQueues \in Int
  /\ reading \in BOOLEAN

Init ==
  /\ open = TRUE
  /\ inflight = [id \in Ids |-> NoCall]
  /\ callId \in [Calls -> Ids]
  /\ phase = [c \in Calls |-> "unused"]
  /\ cancelled = [c \in Calls |-> FALSE]
  /\ iterator = [c \in Calls |-> "none"]
  /\ drain = [c \in Calls |-> "none"]
  /\ queue = [c \in Calls |-> NoQueue]
  /\ frames = [c \in Calls |-> <<>>]
  /\ pausedQueues = 0
  /\ reading = TRUE

-----------------------------------------------------------------------------
(* Sending.  An outcome says which frames went out, whether the session    *)
(* closed inside the send, whether the id was settled, the result of       *)
(* sendOutbound (ok, drained), and whether onError threw inside it.        *)

Nothing == [out |-> <<>>, closes |-> FALSE, settles |-> FALSE, ok |-> FALSE,
            drained |-> FALSE, throws |-> FALSE]

Closed(ok) == [Nothing EXCEPT !.closes = TRUE, !.ok = ok]

\* sendResultErr: the error settles the id; one that does not fit closes.
ResultErr ==
  {[Nothing EXCEPT !.out = <<"error">>, !.settles = TRUE] :
      how \in Sends \cap {"sent", "drain"}}
  \cup {Closed(FALSE) : how \in Sends \cap {"oversize", "closes", "throws"}}

\* The session refuses a frame it cannot encode or that is too long: the
\* substitute error, after a report to onError for one it cannot encode.
Substitute(how) ==
  ResultErr \cup
  {[Nothing EXCEPT !.throws = TRUE] :
      h \in {Hook} \cap (IF how = "stringify" THEN {"fails"} ELSE {})}

\* Mutant of Handed: a done frame does not free the id.
HandedKeepsId(kind, how) ==
  [Nothing EXCEPT !.out = <<kind>>, !.ok = TRUE,
                  !.settles = kind \in {"result", "error"}, !.drained = (how = "drain")]

Handed(kind, how) ==
  [Nothing EXCEPT !.out = <<kind>>, !.ok = TRUE,
                  !.settles = kind \in Terminal, !.drained = (how = "drain")]

\* Mutant of Outbound: the cancelled flag is not looked at.
OutboundUnguarded(c, kind) ==
  IF ~open THEN {Nothing}
  ELSE {Handed(kind, how) : how \in Sends \cap {"sent", "drain"}}

\* sendOutbound: a cancelled call and a closed session send nothing.  A done
\* frame can always be encoded.
Outbound(c, kind) ==
  IF cancelled[c] \/ ~open THEN {Nothing}
  ELSE LET hows == IF kind = "done" THEN Sends \ {"stringify"} ELSE Sends
       IN  {Handed(kind, how) : how \in hows \cap {"sent", "drain"}}
           \cup {Closed(TRUE) : how \in hows \cap {"closes"}}
           \cup {Closed(FALSE) : how \in hows \cap {"throws"}}
           \cup UNION {Substitute(how) : how \in hows \cap {"oversize", "stringify"}}

-----------------------------------------------------------------------------
(* Steps *)

Inflight == {inflight[id] : id \in Ids} \ {NoCall}

\* The queues of a step, with the callbacks of those that pause and resume:
\* pause() at the first paused queue, resume() when the last one resumes.
Requeue(queues) ==
  LET paused == Cardinality({c \in Calls : queues[c].paused /\ ~queue[c].paused})
      resumed == Cardinality({c \in Calls : queue[c].paused /\ ~queues[c].paused})
      count == pausedQueues + paused - resumed
  IN  /\ queue' = queues
      /\ pausedQueues' = count
      /\ reading' = IF pausedQueues = 0 /\ count > 0 THEN ~CanPause
                    ELSE IF pausedQueues > 0 /\ count = 0 THEN TRUE
                    ELSE reading

\* Mutant of CancelCalls: the input queue is not ended.
CancelCallsKeepsQueue(stopped, iterators, drains) ==
  /\ cancelled' = [c \in Calls |-> cancelled[c] \/ c \in stopped]
  /\ UNCHANGED <<queue, pausedQueues, reading>>
  /\ drain' = [c \in Calls |->
                IF c \in stopped /\ drains[c] = "pending"
                THEN "cancelled" ELSE drains[c]]
  /\ iterator' = [c \in Calls |->
                   IF c \in stopped /\ iterators[c] = "open"
                   THEN "returned" ELSE iterators[c]]

\* cancel() on a set of calls, with the state of the iterators before it:
\* abort, end the input queue, cancel the drain wait, return the iterator.
CancelCalls(stopped, iterators, drains) ==
  /\ cancelled' = [c \in Calls |-> cancelled[c] \/ c \in stopped]
  /\ Requeue([c \in Calls |->
               IF c \in stopped THEN Close(queue[c], "ended") ELSE queue[c]])
  /\ drain' = [c \in Calls |->
                IF c \in stopped /\ drains[c] = "pending"
                THEN "cancelled" ELSE drains[c]]
  /\ iterator' = [c \in Calls |->
                   IF c \in stopped /\ iterators[c] = "open"
                   THEN "returned" ELSE iterators[c]]

\* abortAll, when the session closes.
AbortAll(iterators, drains) ==
  /\ open' = FALSE
  /\ inflight' = [id \in Ids |-> NoCall]
  /\ CancelCalls(Inflight, iterators, drains)

\* A turn of call c that leaves it in phase next, after a send with outcome
\* sent; stopped is {c} when the turn itself aborts the call.
Turn(c, next, sent, stopped, iter, wait) ==
  LET iterators == [iterator EXCEPT ![c] = iter]
      drains == [drain EXCEPT ![c] = wait]
  IN  /\ phase' = [phase EXCEPT ![c] = next]
      /\ frames' = [frames EXCEPT ![c] = @ \o sent.out]
      /\ UNCHANGED callId
      /\ IF sent.closes
         THEN /\ open' = FALSE
              /\ inflight' = [id \in Ids |-> NoCall]
              /\ CancelCalls(stopped \cup Inflight, iterators, drains)
         ELSE /\ inflight' = IF sent.settles
                             THEN [inflight EXCEPT ![callId[c]] = NoCall]
                             ELSE inflight
              /\ CancelCalls(stopped, iterators, drains)
              /\ UNCHANGED open

\* Mutant of Returned: the generator is left suspended.
ReturnedNever(c) == iterator[c]

\* closeIterator: return() is called once on an iterator the call holds.
Returned(c) == IF iterator[c] = "open" THEN "returned" ELSE iterator[c]

-----------------------------------------------------------------------------
(* Inbound frames (handleFrame), unless the duplex is paused.              *)
(* Frames that are ignored (a duplicate call, in-* and cancel without an   *)
(* entry, an invalid frame of an in-flight id) change nothing.             *)

\* A paused duplex delivers nothing, or the rest of what it has already read.
Delivers == reading \/ Trailing

\* Mutant of RecvCall: a second call frame with the id is served.
RecvCallDuplicate(id, c, streaming) ==
  /\ open /\ Delivers
  /\ phase[c] = "unused"
  /\ callId' = [callId EXCEPT ![c] = id]
  /\ inflight' = [inflight EXCEPT ![id] = c]
  /\ phase' = [phase EXCEPT ![c] = "running"]
  /\ queue' = [queue EXCEPT ![c] = IF streaming THEN NewQueue ELSE NoQueue]
  /\ UNCHANGED <<open, cancelled, iterator, drain, frames, pausedQueues, reading>>

RecvCall(id, c, streaming) ==
  /\ open /\ Delivers
  /\ inflight[id] = NoCall
  /\ phase[c] = "unused"
  /\ callId' = [callId EXCEPT ![c] = id]
  /\ inflight' = [inflight EXCEPT ![id] = c]
  /\ phase' = [phase EXCEPT ![c] = "running"]
  /\ queue' = [queue EXCEPT ![c] = IF streaming THEN NewQueue ELSE NoQueue]
  /\ UNCHANGED <<open, cancelled, iterator, drain, frames, pausedQueues, reading>>

RecvInItem(id) ==
  /\ open /\ Delivers
  /\ inflight[id] # NoCall
  /\ LET c == inflight[id]
     IN  /\ Len(queue[c].entries) < MaxInputs
         /\ Requeue([queue EXCEPT ![c] = Push(@, [size |-> 1])])
  /\ UNCHANGED <<open, inflight, callId, phase, cancelled, iterator, drain, frames>>

RecvInDone(id) ==
  /\ open /\ Delivers
  /\ inflight[id] # NoCall
  /\ Requeue([queue EXCEPT ![inflight[id]] = Close(@, "ended")])
  /\ UNCHANGED <<open, inflight, callId, phase, cancelled, iterator, drain, frames>>

RecvCancel(id) ==
  /\ open /\ Delivers
  /\ inflight[id] # NoCall
  /\ CancelCalls({inflight[id]}, iterator, drain)
  /\ inflight' = [inflight EXCEPT ![id] = NoCall]
  /\ UNCHANGED <<open, callId, phase, frames>>

\* An invalid or wrong-direction frame whose id is not in flight is answered
\* with BAD_REQUEST; only a failing answer changes the connection.
RecvStray(id) ==
  /\ open /\ Delivers
  /\ inflight[id] = NoCall
  /\ \E sent \in ResultErr : sent.closes
  /\ AbortAll(iterator, drain)
  /\ UNCHANGED <<callId, phase, frames>>

\* The duplex closes, the owner closes, or a handshake frame arrives.
SessionCloses ==
  /\ open
  /\ AbortAll(iterator, drain)
  /\ UNCHANGED <<callId, phase, frames>>

-----------------------------------------------------------------------------
(* The procedure of a call *)

\* The handler, or the generator it returned, asks for the next input value.
PullInput(c) ==
  /\ phase[c] \in {"running", "pulling"}
  /\ ~queue[c].pending
  /\ Requeue([queue EXCEPT ![c] = Pull(@)])
  /\ UNCHANGED <<open, inflight, callId, phase, cancelled, iterator, drain, frames>>

\* fail(error) from run's catch ("reporting") or emitStream's: a protocol
\* error is sent; another one is reported to onError first.
Fails(c, kind, report, iter) ==
  IF kind = "pf" \/ Hook = "none" \/ (cancelled[c] /\ kind = "abort")
  THEN \E sent \in Outbound(c, "error") :
         Turn(c, IF ~sent.throws THEN "ended"
                 ELSE IF report = "reporting stream" THEN "reporting"
                 ELSE "rejected",
              sent, {}, iter, drain[c])
  ELSE Turn(c, report, Nothing, {}, iter, drain[c])

Errors == {"pf", "abort", "other"}

HandlerThrows(c, kind) ==
  /\ phase[c] = "running"
  /\ Fails(c, kind, "reporting", iterator[c])

HandlerReturnsValue(c) ==
  /\ phase[c] = "running"
  /\ \E sent \in Outbound(c, "result") :
       Turn(c, IF sent.throws THEN "reporting" ELSE "ended",
            sent, {}, iterator[c], drain[c])

\* The output of a call cancelled meanwhile is dropped, not iterated.
HandlerReturnsStream(c) ==
  /\ phase[c] = "running"
  /\ IF cancelled[c] THEN Turn(c, "ended", Nothing, {}, iterator[c], drain[c])
     ELSE Turn(c, "pulling", Nothing, {}, "open", drain[c])

\* iterator.next() gives an item: send it, then pull, wait or stop.
IteratorYields(c) ==
  /\ phase[c] = "pulling"
  /\ Len(frames[c]) < MaxItems
  /\ IF cancelled[c] THEN Turn(c, "ended", Nothing, {}, iterator[c], drain[c])
     ELSE \E sent \in Outbound(c, "item") :
            Turn(c, IF sent.throws THEN "reporting stream"
                    ELSE IF ~sent.ok THEN "ended"
                    ELSE IF sent.drained THEN "draining" ELSE "pulling",
                 sent, {}, IF sent.ok THEN iterator[c] ELSE Returned(c),
                 IF sent.drained THEN "pending" ELSE "none")

\* A nested stream or a file is not an item: BAD_REQUEST.
IteratorYieldsBadItem(c) ==
  /\ phase[c] = "pulling"
  /\ IF cancelled[c] THEN Turn(c, "ended", Nothing, {}, iterator[c], drain[c])
     ELSE Fails(c, "pf", "reporting stream", Returned(c))

IteratorEnds(c) ==
  /\ phase[c] = "pulling"
  /\ \E sent \in Outbound(c, "done") :
       Turn(c, "ended", sent, {},
            IF iterator[c] = "open" THEN "finished" ELSE iterator[c], drain[c])

IteratorThrows(c, kind) ==
  /\ phase[c] = "pulling"
  /\ Fails(c, kind, "reporting stream",
           IF iterator[c] = "open" THEN "finished" ELSE iterator[c])

\* The wait between two items: the duplex drains or drainTimeout elapses.
DrainSettles(c, result) ==
  /\ drain[c] = "pending"
  /\ drain' = [drain EXCEPT ![c] = result]
  /\ UNCHANGED <<open, inflight, callId, phase, cancelled, iterator, queue,
                 frames, pausedQueues, reading>>

\* Mutant of AfterDrain: abortStalled tells the peer nothing.
AfterDrainSilently(c) ==
  /\ phase[c] = "draining"
  /\ drain[c] # "pending"
  /\ IF drain[c] = "timeout" /\ ~cancelled[c]
     THEN Turn(c, "ended", Nothing, {c}, Returned(c), "none")
     ELSE Turn(c, IF drain[c] = "drained" /\ ~cancelled[c]
                  THEN "pulling" ELSE "ended",
               Nothing, {}, iterator[c], "none")

\* awaitDrain resumes, with abortStalled on a timeout.
AfterDrain(c) ==
  /\ phase[c] = "draining"
  /\ drain[c] # "pending"
  /\ IF drain[c] = "timeout" /\ ~cancelled[c]
     THEN \E sent \in IF open THEN ResultErr ELSE {Nothing} :
            Turn(c, "ended", sent, {c}, Returned(c), "none")
     ELSE Turn(c, IF drain[c] = "drained" /\ ~cancelled[c]
                  THEN "pulling" ELSE "ended",
               Nothing, {}, iterator[c], "none")

\* onError settles; in fail called from emitStream a failure of it, or of the
\* report of an error frame that cannot be encoded, is caught again by run.
OnErrorResolves(c) ==
  /\ phase[c] \in {"reporting", "reporting stream"}
  /\ \E sent \in Outbound(c, "error") :
       Turn(c, IF ~sent.throws THEN "ended"
               ELSE IF phase[c] = "reporting stream" THEN "reporting"
               ELSE "rejected",
            sent, {}, iterator[c], drain[c])

OnErrorRejects(c) ==
  /\ Hook = "fails"
  /\ phase[c] \in {"reporting", "reporting stream"}
  /\ Turn(c, IF phase[c] = "reporting stream" THEN "reporting" ELSE "rejected",
          Nothing, {}, iterator[c], drain[c])

-----------------------------------------------------------------------------
HandlerSettles(c) ==
  \/ HandlerReturnsValue(c) \/ HandlerReturnsStream(c)
  \/ \E kind \in Errors : HandlerThrows(c, kind)

IteratorSettles(c) ==
  \/ IteratorYields(c) \/ IteratorYieldsBadItem(c) \/ IteratorEnds(c)
  \/ \E kind \in Errors : IteratorThrows(c, kind)

OnErrorSettles(c) == OnErrorResolves(c) \/ OnErrorRejects(c)

Next ==
  \/ \E id \in Ids :
       \/ \E c \in Calls, streaming \in BOOLEAN : RecvCall(id, c, streaming)
       \/ RecvInItem(id) \/ RecvInDone(id) \/ RecvCancel(id) \/ RecvStray(id)
  \/ SessionCloses
  \/ \E c \in Calls :
       \/ PullInput(c) \/ HandlerSettles(c) \/ IteratorSettles(c)
       \/ \E result \in {"drained", "timeout"} : DrainSettles(c, result)
       \/ AfterDrain(c) \/ OnErrorSettles(c)

Spec == Init /\ [][Next]_vars

\* Handlers, generators and hooks settle, and drain timers fire; nothing is
\* assumed of the peer.
FairStep ==
  \E c \in Calls : \/ HandlerSettles(c) \/ IteratorSettles(c) \/ OnErrorSettles(c)
                   \/ DrainSettles(c, "timeout") \/ AfterDrain(c)

FairSpec == Spec /\ WF_vars(FairStep)

-----------------------------------------------------------------------------
(* Properties *)

Service == INSTANCE CallService
             WITH owner <- inflight, out <- frames,
                  used <- {c \in Calls : phase[c] # "unused"}

\* The connection implements CallService: each turn is silent or is exactly one
\* of its steps.  An id is freed by the frame that answers its call, by its
\* cancel or by the close, never before or after, and nobody but the owner of
\* the id is heard under it.
ImplementsService == Service!Spec

\* At most one terminal frame per call, and no frame of the call after it:
\* over all interleavings of handler, drain timer, cancel, close and
\* substituted errors.
TerminalIsLast ==
  \A c \in Calls : \A i \in 1 .. Len(frames[c]) :
     frames[c][i] \in Terminal => i = Len(frames[c])

\* After a cancel or a close a late completion of the procedure sends nothing.
SilentAfterCancel ==
  [][\A c \in Calls : cancelled[c] => frames'[c] = frames[c]]_vars

\* Whoever may still send under an id owns the id: an object of an earlier
\* use never answers, or settles, a later call with the same id.
SenderOwnsId ==
  \A c \in Calls : phase[c] \in Active /\ ~cancelled[c]
                     => inflight[callId[c]] = c

Answered(c) == frames[c] # <<>> /\ frames[c][Len(frames[c])] \in Terminal

\* A turn that ends a call nobody had cancelled before it leaves the call
\* answered by a terminal frame, or closes the connection: also when a frame of
\* the call cannot be encoded or is too long, and when its frames do not drain,
\* where the turn cancels the call itself before it answers.  A call whose
\* onError rejects does not end in this sense: see EveryEndIsAnswered.
AnsweredUnlessCancelled ==
  [][\A c \in Calls :
       phase[c] \in Active /\ ~cancelled[c] /\ phase'[c] = "ended"
         => Answered(c)' \/ ~open']_vars

\* What the comment of ServerCall promises without exception: one terminal frame
\* unless the call was cancelled first.  A call that run() leaves by a rejection,
\* because onError threw, has none.
EveryEndIsAnswered ==
  \A c \in Calls : phase[c] \in {"ended", "rejected"} /\ ~cancelled[c] => Answered(c)

\* No producer is left suspended: an iterator still held belongs to a call
\* that goes on pulling it.
ProducerReleased ==
  \A c \in Calls : iterator[c] = "open" =>
     phase[c] \in {"pulling", "draining"} /\ ~cancelled[c]

\* Reads stay paused only for a call that was not cancelled and whose queue
\* holds values to consume: cancel, close, in-done and the drain timeout all
\* give back the pause of their call, and the connection's counter follows.
PausedByOpenQueue ==
  ~reading => \E c \in Calls : /\ queue[c].paused /\ queue[c].entries # <<>>
                              /\ ~cancelled[c]

\* Reads are paused on behalf of a call in flight, whose handler can resume
\* them by consuming its input.
PausedByInflight ==
  ~reading => \E id \in Ids : inflight[id] # NoCall /\ queue[inflight[id]].paused

\* In the end, no call goes on: a peer that stops reading holds no call beyond the
\* drain timeout.
AllEnded == \A c \in Calls : phase[c] \notin Active
=============================================================================
