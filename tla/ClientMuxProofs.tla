-------------------------- MODULE ClientMuxProofs --------------------------
(***************************************************************************)
(* Proofs about ClientMux, for every finite set of calls, every mark and   *)
(* every behaviour of the duplex.                                          *)
(*                                                                         *)
(* The invariant is local but for the link and the counter: CallInv says   *)
(* of one call which promise, queue and resources go with its mode.  Every *)
(* step is a Commit of new calls, so a step is shown by showing CallInv of *)
(* the calls it commits (Commits); CloseAll keeps it too, also inside the  *)
(* send of another call's frame.                                           *)
(***************************************************************************)
EXTENDS ClientMux, PushQueueLemmas

\* What finish() releases.
Clean(r) == r.input # "open" /\ r.drain # "pending" /\ ~r.armed

SaidCall(r) == \E i \in 1 .. Len(r.sent) : r.sent[i] = "call"

\* A call that was not opened has nothing to settle or to send.
Unopened(r) ==
  /\ r.promise = "pending" /\ r.pump = "none" /\ r.sent = <<>>
  /\ Clean(r) /\ ~r.sendingInput

CallInv(r) ==
  /\ r \in Call
  /\ PauseJustified(r.queue)
  /\ r.queue.paused => r.mode = "streaming-out"
  /\ r.mode \in {"idle", "awaiting"} => Unopened(r)
  /\ r.mode = "pending-first" => r.promise = "pending"
  /\ r.mode = "streaming-out" => r.promise = "iterator"
  /\ r.mode = "done" => r.promise # "pending"
  /\ r.mode = "done" /\ SaidCall(r) => Clean(r)

PausedCalls == {c \in Calls : calls[c].queue.paused}

\* The counter of the link counts the paused queues, and reads are off only
\* for one of them.
PauseInv ==
  /\ pausedQueues = Cardinality(PausedCalls)
  /\ reading \/ pausedQueues > 0

NoneLive == \A c \in Calls : calls[c].mode \notin Live

Inv ==
  /\ TypeOK
  /\ \A c \in Calls : CallInv(calls[c])
  /\ PauseInv
  /\ link = "closed" => NoneLive

-----------------------------------------------------------------------------
(* One call *)

LEMMA CallQueue ==
  ASSUME NEW r \in Call
  PROVE  /\ r.queue \in UnitQueues
         /\ \A q \in UnitQueues : /\ [r EXCEPT !.queue = q] \in Call
                                  /\ [r EXCEPT !.queue = q].queue = q
                                  /\ [r EXCEPT !.queue = q].mode = r.mode
                                  /\ [r EXCEPT !.queue = q].promise = r.promise
                                  /\ [r EXCEPT !.queue = q].sent = r.sent
                                  /\ Clean(r) => Clean([r EXCEPT !.queue = q])
BY ZenonT(30) DEF Call, UnitQueues, OutputEntry, UnitEntry, Clean

\* A call that is over, settled and clean satisfies the invariant.
LEMMA OverInv ==
  ASSUME NEW r \in Call, r.mode = "done", r.promise # "pending", Clean(r),
         PauseJustified(r.queue), ~r.queue.paused
  PROVE  CallInv(r)
BY DEF CallInv

LEMMA FinishOver ==
  ASSUME NEW r \in Call
  PROVE  LET t == Finish(r)
         IN  /\ t \in Call /\ t.mode = "done" /\ Clean(t)
             /\ t.promise = r.promise /\ t.queue = r.queue /\ t.sent = r.sent
<1> DEFINE drain == IF r.drain = "pending" THEN "cancelled" ELSE r.drain
           input == IF r.input = "open" THEN "returned" ELSE r.input
           t == [r EXCEPT !.mode = "done", !.sendingInput = FALSE, !.armed = FALSE,
                          !.drain = drain, !.input = input]
<1>1. /\ drain \in {"none", "pending", "drained", "timeout", "cancelled"} \ {"pending"}
      /\ input \in {"none", "open", "finished", "threw", "returned"} \ {"open"}
  BY DEF Call
<1>2. Finish(r) = t
  BY DEF Finish
<1> HIDE DEF drain, input
<1>3. /\ t \in Call /\ t.mode = "done" /\ ~t.armed
      /\ t.drain = drain /\ t.input = input
      /\ t.promise = r.promise /\ t.queue = r.queue /\ t.sent = r.sent
  BY <1>1, ZenonT(30) DEF Call
<1> HIDE DEF t
<1> QED BY <1>1, <1>2, <1>3 DEF Clean

\* fail() of a call in flight, whichever of its two forms it takes.
LEMMA FailOver ==
  ASSUME NEW r, CallInv(r), r.mode \in Live, NEW how \in {"rejected", "aborted"}
  PROVE  LET t == Fail(r, how)
         IN  /\ CallInv(t) /\ t.mode = "done" /\ Clean(t) /\ t.sent = r.sent
             /\ t.promise # "pending" /\ ~t.queue.paused /\ PauseJustified(t.queue)
<1> DEFINE f == Finish(r)
           t == Fail(r, how)
<1>1. r \in Call /\ r.queue \in UnitQueues /\ PauseJustified(r.queue)
  BY CallQueue DEF CallInv
<1>2. /\ f \in Call /\ f.mode = "done" /\ Clean(f)
      /\ f.promise = r.promise /\ f.queue = r.queue /\ f.sent = r.sent
  BY <1>1, FinishOver
<1>3. t = IF r.mode = "pending-first" THEN [f EXCEPT !.promise = how]
          ELSE [f EXCEPT !.queue = Close(f.queue, "failed")]
  BY DEF Fail, Settled, Live
<1> HIDE DEF f
<1>4. CASE r.mode = "pending-first"
  <2>1. t = [f EXCEPT !.promise = how]
    BY <1>3, <1>4
  <2> HIDE DEF t
  <2>2. /\ t \in Call /\ t.mode = "done" /\ t.promise = how /\ t.queue = f.queue
        /\ t.sent = f.sent /\ Clean(t)
    BY <1>2, <2>1 DEF Call, Clean
  <2>3. ~t.queue.paused
    BY <1>2, <1>4, <2>2 DEF CallInv
  <2> QED BY <1>1, <1>2, <2>2, <2>3, OverInv DEF t
<1>5. CASE r.mode # "pending-first"
  <2>1. r.promise = "iterator"
    BY <1>5 DEF CallInv, Live
  <2>2. t = [f EXCEPT !.queue = Close(f.queue, "failed")]
    BY <1>3, <1>5
  <2> HIDE DEF t
  <2>3. /\ Close(f.queue, "failed") \in UnitQueues
        /\ PauseJustified(Close(f.queue, "failed"))
        /\ ~Close(f.queue, "failed").paused
    BY <1>1, <1>2, CloseUnit
  <2>4. /\ t \in Call /\ t.mode = "done" /\ t.promise = f.promise /\ t.sent = f.sent
        /\ t.queue = Close(f.queue, "failed") /\ Clean(t)
    BY <1>2, <2>2, <2>3, CallQueue
  <2> QED BY <1>2, <2>1, <2>3, <2>4, OverInv DEF t
<1> QED BY <1>4, <1>5

-----------------------------------------------------------------------------
(* Commits *)

\* What every step has to show of the calls it commits.
Commits(cs) ==
  /\ cs \in [Calls -> Call]
  /\ \A c \in Calls : CallInv(cs[c])
  /\ \A c \in Calls : calls[c].mode = "done" => cs[c].sent = calls[c].sent

NoLive(cs) == \A c \in Calls : cs[c].mode \notin Live

\* A call that is over sends nothing in this step.
Quiet == \A c \in Calls : calls[c].mode = "done" => calls'[c].sent = calls[c].sent

LEMMA CommitInv ==
  ASSUME Inv, NEW cs, Commits(cs), NEW closes \in BOOLEAN, Commit(cs, closes),
         closes \/ link = "closed" => NoLive(cs)
  PROVE  Inv' /\ Quiet
<1> DEFINE A == PausedCalls
           B == {c \in Calls : cs[c].queue.paused}
           paused == {c \in Calls : cs[c].queue.paused /\ ~calls[c].queue.paused}
           resumed == {c \in Calls : calls[c].queue.paused /\ ~cs[c].queue.paused}
           count == pausedQueues + Cardinality(paused) - Cardinality(resumed)
<1>1. /\ calls' = cs /\ link' = (IF closes THEN "closed" ELSE link)
      /\ pausedQueues' = count
      /\ reading' = IF pausedQueues = 0 /\ count > 0 THEN ~CanPause
                    ELSE IF pausedQueues > 0 /\ count = 0 THEN TRUE
                    ELSE reading
  BY DEF Commit
<1>2. paused = B \ A /\ resumed = A \ B
  BY DEF PausedCalls
<1>3. PausedCalls' = B
  BY <1>1 DEF PausedCalls
<1> HIDE DEF paused, resumed
<1>4. A \subseteq Calls /\ B \subseteq Calls
  BY DEF PausedCalls
<1> HIDE DEF A, B
<1>5. /\ Cardinality(B) = Cardinality(A) + Cardinality(B \ A) - Cardinality(A \ B)
      /\ Cardinality(A) \in Nat /\ Cardinality(B) \in Nat
  <2>1. IsFiniteSet(Calls)
    BY CallsAssumption
  <2>2. Cardinality(B) = Cardinality(A) + Cardinality(B \ A) - Cardinality(A \ B)
    BY <1>4, <2>1, CountPaused, SMT
  <2>3. Cardinality(A) \in Nat /\ Cardinality(B) \in Nat
    BY <1>4, <2>1, CountPaused
  <2> QED BY <2>2, <2>3
<1>6. pausedQueues = Cardinality(A)
  BY DEF Inv, PauseInv, A
<1>7. count = Cardinality(B)
  BY <1>2, <1>5, <1>6
<1> HIDE DEF count
<1>8. PauseInv'
  BY <1>1, <1>3, <1>5, <1>6, <1>7 DEF Inv, PauseInv
<1>9. TypeOK'
  <2>1. pausedQueues' \in Int
    BY <1>1, <1>5, <1>7
  <2>2. reading' \in BOOLEAN
    BY <1>1, DuplexAssumption DEF Inv, TypeOK
  <2> QED BY <1>1, <2>1, <2>2 DEF Inv, TypeOK, Commits
<1>10. (link = "closed" => NoneLive)'
  BY <1>1 DEF NoLive, NoneLive
<1>11. Quiet
  BY <1>1 DEF Quiet, Commits
<1> QED BY <1>1, <1>8, <1>9, <1>10, <1>11 DEF Inv, Commits

\* A step that changes one call.
LEMMA PutCommits ==
  ASSUME Inv, NEW c \in Calls, NEW r, CallInv(r),
         calls[c].mode = "done" => r.sent = calls[c].sent
  PROVE  /\ Commits(Put(c, r))
         /\ link = "closed" /\ r.mode \notin Live => NoLive(Put(c, r))
         /\ Put(c, r)[c] = r
         /\ \A d \in Calls : d # c => Put(c, r)[d] = calls[d]
<1>1. calls \in [Calls -> Call] /\ r \in Call
  BY DEF Inv, TypeOK, CallInv
<1>2. \A d \in Calls : Put(c, r)[d] = IF d = c THEN r ELSE calls[d]
  BY <1>1 DEF Put
<1>3. Put(c, r) \in [Calls -> Call]
  BY <1>1 DEF Put
<1> QED BY <1>2, <1>3 DEF Inv, Commits, NoLive, NoneLive

\* The close of the link, also inside a send.
LEMMA CloseAllCommits ==
  ASSUME NEW cs, Commits(cs)
  PROVE  Commits(CloseAll(cs)) /\ NoLive(CloseAll(cs))
<1>1. ASSUME NEW c \in Calls
      PROVE  /\ CallInv(CloseAll(cs)[c]) /\ CloseAll(cs)[c].mode \notin Live
             /\ CloseAll(cs)[c].sent = cs[c].sent
  <2>1. CASE cs[c].mode \in Live
    <3>1. CloseAll(cs)[c] = Fail(cs[c], "rejected")
      BY <2>1 DEF CloseAll
    <3>2. /\ CallInv(Fail(cs[c], "rejected"))
          /\ Fail(cs[c], "rejected").mode = "done"
          /\ Fail(cs[c], "rejected").sent = cs[c].sent
      BY <2>1, FailOver DEF Commits
    <3> QED BY <3>1, <3>2 DEF Live
  <2>2. CASE cs[c].mode \notin Live
    BY <2>2 DEF CloseAll, Commits
  <2> QED BY <2>1, <2>2
<1>2. CloseAll(cs) \in [Calls -> Call]
  <2>1. CloseAll(cs) = [c \in Calls |-> CloseAll(cs)[c]]
    BY DEF CloseAll
  <2> QED BY <1>1, <2>1 DEF CallInv
<1> QED BY <1>1, <1>2 DEF Commits, NoLive

\* A call that ends with a cancel is over before the cancel goes out.
LEMMA CancelInv ==
  ASSUME Inv, NEW c \in Calls, calls[c].mode # "done",
         NEW over, CallInv(over), over.mode = "done", Clean(over),
         FinishWithCancel(c, over)
  PROVE  Inv' /\ Quiet
<1>1. PICK how \in Hows("cancel") :
        LET cs == Put(c, Taken(over, "cancel", how))
        IN  Commit(IF Closes(how) THEN CloseAll(cs) ELSE cs, Closes(how))
  BY DEF FinishWithCancel
<1> DEFINE r == Taken(over, "cancel", how)
           cs == Put(c, r)
<1>2. CallInv(r) /\ r.mode = "done"
  <2>1. CASE how \in {"sent", "drain"}
    <3>1. r = [over EXCEPT !.sent = Append(@, "cancel")]
      BY <2>1 DEF Taken
    <3>2. Append(over.sent, "cancel") \in Seq({"call", "in-item", "in-done", "cancel"})
      BY AppendProperties DEF CallInv, Call
    <3> HIDE DEF r
    <3>3. /\ r \in Call /\ r.mode = "done" /\ r.promise = over.promise
          /\ r.queue = over.queue /\ Clean(r)
      BY <3>1, <3>2 DEF CallInv, Call, Clean
    <3> QED BY <3>3 DEF CallInv
  <2>2. CASE how \notin {"sent", "drain"}
    BY <2>2 DEF Taken
  <2> QED BY <2>1, <2>2
<1> HIDE DEF r
<1>3. Commits(cs) /\ (link = "closed" => NoLive(cs))
  BY <1>2, PutCommits DEF Live
<1>4. Commits(CloseAll(cs)) /\ NoLive(CloseAll(cs))
  BY <1>3, CloseAllCommits
<1>5. Commit(IF Closes(how) THEN CloseAll(cs) ELSE cs, Closes(how))
  BY <1>1 DEF r
<1> HIDE DEF cs
<1>6. Closes(how) \in BOOLEAN
  BY DEF Closes
<1> QED BY <1>3, <1>4, <1>5, <1>6, CommitInv

-----------------------------------------------------------------------------
(* Steps *)

\* A step of one call that leaves the link as it is.
LEMMA OneInv ==
  ASSUME Inv, NEW c \in Calls, NEW r, CallInv(r),
         calls[c].mode = "done" => r.sent = calls[c].sent,
         r.mode \in Live => calls[c].mode \in Live \/ link # "closed",
         Commit(Put(c, r), FALSE)
  PROVE  Inv' /\ Quiet
<1>1. link = "closed" => r.mode \notin Live
  BY DEF Inv, NoneLive
<1> QED BY <1>1, PutCommits, CommitInv

\* A step of one call in which the link closes.
LEMMA OneCloseInv ==
  ASSUME Inv, NEW c \in Calls, NEW r, CallInv(r),
         calls[c].mode = "done" => r.sent = calls[c].sent,
         Commit(CloseAll(Put(c, r)), TRUE)
  PROVE  Inv' /\ Quiet
BY PutCommits, CloseAllCommits, CommitInv

LEMMA InitInv == Init => Inv
<1> SUFFICES ASSUME Init PROVE Inv
  OBVIOUS
<1>1. NewQueue \in UnitQueues /\ PauseJustified(NewQueue) /\ ~NewQueue.paused
  BY LenProperties, EmptySeq DEF NewQueue, UnitQueues, PauseJustified, Closings
<1>2. NewCall \in Call /\ NewCall.queue = NewQueue
  <2>1. <<>> \in Seq({"call", "in-item", "in-done", "cancel"})
    BY EmptySeq
  <2> QED BY <1>1, <2>1 DEF NewCall, Call, UnitQueues, UnitEntry, OutputEntry, Closings
<1>3. CallInv(NewCall)
  <2>1. Unopened(NewCall) /\ NewCall.mode = "idle"
    BY DEF NewCall, Unopened, Clean
  <2> QED BY <1>1, <1>2, <2>1 DEF CallInv
<1>4. \A c \in Calls : calls[c] = NewCall
  BY DEF Init
<1>5. TypeOK
  BY <1>2 DEF Init, TypeOK
<1>6. PauseInv
  <2>1. PausedCalls = {}
    BY <1>1, <1>2, <1>4 DEF PausedCalls
  <2> QED BY <2>1, FS_EmptySet DEF PauseInv, Init
<1> QED BY <1>3, <1>4, <1>5, <1>6 DEF Inv, Init

LEMMA StartCallInv ==
  ASSUME Inv, NEW c \in Calls, NEW streaming \in BOOLEAN, StartCall(c, streaming)
  PROVE  Inv' /\ Quiet
<1> DEFINE r == [calls[c] EXCEPT !.mode = "awaiting", !.streaming = streaming]
<1>1. Commit(Put(c, r), FALSE) /\ calls[c].mode = "idle" /\ CallInv(calls[c])
  BY DEF StartCall, Inv
<1>2. /\ r \in Call /\ r.mode = "awaiting" /\ Unopened(r)
      /\ r.queue = calls[c].queue
  BY <1>1 DEF CallInv, Call, Unopened, Clean
<1> HIDE DEF r
<1>3. CallInv(r)
  BY <1>1, <1>2 DEF CallInv
<1> QED BY <1>1, <1>2, <1>3, OneInv DEF Live

LEMMA OpenInv ==
  ASSUME Inv, NEW c \in Calls, calls[c].mode = "awaiting", link # "closed", Open(c)
  PROVE  Inv' /\ Quiet
<1> DEFINE r == [calls[c] EXCEPT !.mode = "pending-first"]
<1>1. CallInv(calls[c]) /\ calls[c] \in Call /\ Unopened(calls[c])
      /\ ~calls[c].queue.paused /\ PauseJustified(calls[c].queue)
  BY DEF Inv, CallInv
<1>2. /\ r \in Call /\ r.mode = "pending-first" /\ r.promise = "pending"
      /\ r.sent = <<>> /\ r.queue = calls[c].queue
  BY <1>1 DEF Call, Unopened, Live
<1>3. PICK how \in Hows("call") :
        CASE how \in {"sent", "drain"} -> Commit(Put(c, Opened(Taken(r, "call", how))), FALSE)
          [] how \in {"oversize", "stringify"} -> Commit(Put(c, Fail(r, "rejected")), FALSE)
          [] how = "throws" -> Commit(CloseAll(Put(c, r)), TRUE)
          [] how = "closes" ->
               Commit([CloseAll(Put(c, r)) EXCEPT ![c] = Opened(@)], TRUE)
  BY DEF Open
<1> HIDE DEF r
<1>4. CallInv(r)
  BY <1>1, <1>2 DEF CallInv
<1>5. how \in {"sent", "drain", "oversize", "stringify", "closes", "throws"}
  BY SendsAssumption DEF Hows
<1>6. ASSUME NEW x \in Call
      PROVE  /\ Opened(x) \in Call /\ Opened(x).mode = x.mode
             /\ Opened(x).promise = x.promise /\ Opened(x).queue = x.queue
             /\ Opened(x).sent = x.sent
  BY ZenonT(30) DEF Opened, Call
<1>7. CASE how \in {"sent", "drain"}
  <2> DEFINE t == Taken(r, "call", how)
  <2>1. Commit(Put(c, Opened(t)), FALSE)
    BY <1>3, <1>7
  <2>2. t = [r EXCEPT !.sent = Append(r.sent, "call")]
    BY <1>7 DEF Taken
  <2>3. Append(r.sent, "call") \in Seq({"call", "in-item", "in-done", "cancel"})
    BY <1>2, AppendProperties DEF Call
  <2> HIDE DEF t
  <2>4. /\ t \in Call /\ t.mode = "pending-first" /\ t.promise = "pending"
        /\ t.queue = calls[c].queue
    BY <1>2, <2>2, <2>3 DEF Call
  <2>5. CallInv(Opened(t)) /\ Opened(t).mode = "pending-first"
    BY <1>1, <1>6, <2>4 DEF CallInv
  <2> QED BY <2>1, <2>5, OneInv
<1>8. CASE how \in {"oversize", "stringify"}
  <2>1. Commit(Put(c, Fail(r, "rejected")), FALSE)
    BY <1>3, <1>8
  <2>2. CallInv(Fail(r, "rejected")) /\ Fail(r, "rejected").mode = "done"
    BY <1>2, <1>4, FailOver DEF Live
  <2> QED BY <2>1, <2>2, OneInv DEF Live
<1>9. CASE how = "throws"
  <2>1. Commit(CloseAll(Put(c, r)), TRUE)
    BY <1>3, <1>9
  <2> QED BY <1>4, <2>1, OneCloseInv
<1>10. CASE how = "closes"
  <2> DEFINE cs == CloseAll(Put(c, r))
             f == Fail(r, "rejected")
             t == [cs EXCEPT ![c] = Opened(cs[c])]
  <2>1. Commit(t, TRUE)
    BY <1>3, <1>10
  <2>2. Commits(Put(c, r)) /\ Put(c, r)[c] = r
    BY <1>4, PutCommits
  <2>3. Commits(cs) /\ NoLive(cs)
    BY <2>2, CloseAllCommits
  <2>4. cs[c] = f
    BY <1>2, <2>2 DEF CloseAll, Live
  <2>5. /\ f.mode = "done" /\ f \in Call /\ f.promise # "pending"
        /\ f.sent = <<>> /\ ~f.queue.paused /\ PauseJustified(f.queue)
    BY <1>2, <1>4, FailOver DEF Live, CallInv
  <2> HIDE DEF cs, f
  <2>6. CallInv(Opened(f)) /\ Opened(f).mode = "done" /\ Opened(f) \in Call
    BY <1>6, <2>5 DEF CallInv, SaidCall
  <2>7. /\ t \in [Calls -> Call]
        /\ \A d \in Calls : t[d] = IF d = c THEN Opened(f) ELSE cs[d]
    BY <2>3, <2>4, <2>6 DEF Commits
  <2> HIDE DEF t
  <2>8. Commits(t) /\ NoLive(t)
    BY <2>3, <2>6, <2>7 DEF Commits, NoLive, Live
  <2> QED BY <2>1, <2>8, CommitInv
<1> QED BY <1>5, <1>7, <1>8, <1>9, <1>10

LEMMA ResumeInv ==
  ASSUME Inv, NEW c \in Calls, Resume(c)
  PROVE  Inv' /\ Quiet
<1>1. calls[c].mode = "awaiting" /\ CallInv(calls[c])
  BY DEF Resume, Inv
<1>2. ASSUME NEW how \in {"aborted", "rejected"},
             Commit(Put(c, [calls[c] EXCEPT !.mode = "done", !.promise = how]), FALSE)
      PROVE  Inv' /\ Quiet
  <2> DEFINE r == [calls[c] EXCEPT !.mode = "done", !.promise = how]
  <2>1. /\ r \in Call /\ r.mode = "done" /\ r.promise = how
        /\ r.queue = calls[c].queue /\ Clean(r)
    BY <1>1 DEF CallInv, Call, Unopened, Clean
  <2> HIDE DEF r
  <2>2. CallInv(r)
    BY <1>1, <2>1 DEF CallInv
  <2>3. Commit(Put(c, r), FALSE)
    BY <1>2 DEF r
  <2> QED BY <1>1, <2>1, <2>2, <2>3, OneInv DEF Live
<1> QED BY <1>1, <1>2, OpenInv DEF Resume

LEMMA AbortInv ==
  ASSUME Inv, NEW c \in Calls, Abort(c)
  PROVE  Inv' /\ Quiet
<1> DEFINE r == [calls[c] EXCEPT !.aborted = TRUE]
<1>1. CallInv(calls[c])
  BY DEF Inv
<1>2. /\ r \in Call /\ r.mode = calls[c].mode /\ r.promise = calls[c].promise
      /\ r.queue = calls[c].queue /\ r.sent = calls[c].sent
      /\ r.armed = calls[c].armed
      /\ Clean(calls[c]) => Clean(r)
      /\ Unopened(calls[c]) => Unopened(r)
  BY <1>1, ZenonT(30) DEF CallInv, Call, Unopened, Clean
<1>3. \/ r.armed /\ r.mode # "done" /\ FinishWithCancel(c, Fail(r, "aborted"))
      \/ Commit(Put(c, r), FALSE)
  BY DEF Abort
<1> HIDE DEF r
<1>4. CallInv(r)
  BY <1>1, <1>2 DEF CallInv, SaidCall
<1>5. CASE r.armed /\ r.mode # "done" /\ FinishWithCancel(c, Fail(r, "aborted"))
  <2>1. r.mode \in Live
    BY <1>4, <1>5 DEF CallInv, Call, Unopened, Clean, Live
  <2>2. LET t == Fail(r, "aborted") IN CallInv(t) /\ t.mode = "done" /\ Clean(t)
    BY <1>4, <2>1, FailOver
  <2> QED BY <1>2, <1>5, <2>2, CancelInv
<1>6. CASE Commit(Put(c, r), FALSE)
  BY <1>2, <1>4, <1>6, OneInv
<1> QED BY <1>3, <1>5, <1>6

LEMMA LinkClosesInv ==
  ASSUME Inv, LinkCloses
  PROVE  Inv' /\ Quiet
<1>1. Commits(calls)
  BY DEF Commits, Inv, TypeOK
<1> QED BY <1>1, CloseAllCommits, CommitInv DEF LinkCloses

-----------------------------------------------------------------------------
(* Frames and the consumer *)

\* A queue that changes while the call stays in flight.
LEMMA QueueInv ==
  ASSUME NEW r, CallInv(r), r.mode = "streaming-out" \/ r.mode = "done",
         NEW q \in UnitQueues, PauseJustified(q),
         q.paused => r.mode = "streaming-out"
  PROVE  CallInv([r EXCEPT !.queue = q])
<1> DEFINE t == [r EXCEPT !.queue = q]
<1>1. /\ t \in Call /\ t.queue = q /\ t.mode = r.mode /\ t.promise = r.promise
      /\ t.sent = r.sent
      /\ Clean(r) => Clean(t)
  BY CallQueue DEF CallInv
<1> HIDE DEF t
<1>2. CallInv(t)
  BY <1>1 DEF CallInv, SaidCall
<1> QED BY <1>2 DEF t

\* What a terminal frame leaves, but for the note that the call is answered.
LEMMA AnsweredInv ==
  ASSUME NEW r, CallInv(r)
  PROVE  LET t == [r EXCEPT !.answered = TRUE]
         IN  CallInv(t) /\ t.mode = r.mode
<1> DEFINE t == [r EXCEPT !.answered = TRUE]
<1>1. /\ t \in Call /\ t.queue = r.queue /\ t.mode = r.mode
      /\ t.promise = r.promise /\ t.sent = r.sent
      /\ Clean(r) => Clean(t)
      /\ Unopened(r) => Unopened(t)
  BY ZenonT(30) DEF CallInv, Call, Clean, Unopened
<1> HIDE DEF t
<1>2. CallInv(t)
  BY <1>1 DEF CallInv, SaidCall
<1> QED BY <1>1, <1>2 DEF t

\* The end of a call whose output queue ends with it.
LEMMA FinishClosed ==
  ASSUME NEW r, r \in Call, r.promise = "iterator", PauseJustified(r.queue),
         NEW how \in {"ended", "failed"}
  PROVE  LET t == [Finish(r) EXCEPT !.queue = Close(@, how)]
         IN  CallInv(t) /\ t.mode = "done" /\ Clean(t) /\ t.sent = r.sent
<1> DEFINE f == Finish(r)
           q == Close(f.queue, how)
           t == [f EXCEPT !.queue = q]
<1>1. /\ f \in Call /\ f.mode = "done" /\ Clean(f)
      /\ f.promise = "iterator" /\ f.queue = r.queue /\ f.sent = r.sent
  BY FinishOver
<1> HIDE DEF f
<1>2. q \in UnitQueues /\ PauseJustified(q) /\ ~q.paused
  BY <1>1, CallQueue, CloseUnit
<1> HIDE DEF q
<1>3. /\ t \in Call /\ t.mode = "done" /\ t.promise = "iterator"
      /\ t.sent = r.sent /\ t.queue = q /\ Clean(t)
  BY <1>1, <1>2, CallQueue
<1> HIDE DEF t
<1>4. CallInv(t)
  BY <1>2, <1>3, OverInv
<1> QED BY <1>3, <1>4 DEF t, q, f

LEMMA FirstInv ==
  ASSUME NEW r, CallInv(r), r.mode = "pending-first", NEW kind \in FrameKinds
  PROVE  CallInv(First(r, kind))
<1>0. r \in Call /\ r.queue \in UnitQueues /\ PauseJustified(r.queue) /\ ~r.queue.paused
  BY CallQueue DEF CallInv
<1>1. CASE kind = "result ok"
  <2> DEFINE f == Finish(r)
             t == [f EXCEPT !.promise = "value", !.answered = TRUE]
  <2>1. f \in Call /\ f.mode = "done" /\ Clean(f) /\ f.queue = r.queue
    BY <1>0, FinishOver
  <2>2. First(r, kind) = t
    BY <1>1 DEF First
  <2> HIDE DEF f
  <2>3. /\ t \in Call /\ t.mode = "done" /\ t.promise = "value" /\ Clean(t)
        /\ t.queue = r.queue
    BY <2>1 DEF Call, Clean
  <2> HIDE DEF t
  <2> QED BY <1>0, <2>2, <2>3, OverInv
<1>2. CASE kind = "result error"
  <2>1. First(r, kind) = [Fail(r, "rejected") EXCEPT !.answered = TRUE]
    BY <1>2 DEF First
  <2>2. CallInv(Fail(r, "rejected"))
    BY FailOver DEF Live
  <2> QED BY <2>1, <2>2, AnsweredInv
<1>3. CASE kind = "item"
  <2> DEFINE q == Push(r.queue, Item)
             o == [r EXCEPT !.mode = "streaming-out", !.promise = "iterator"]
             t == [o EXCEPT !.queue = q]
  <2>1. First(r, kind) = t
    BY <1>0, <1>3 DEF First, Call
  <2>2. q \in UnitQueues /\ PauseJustified(q)
    BY <1>0, PushUnit DEF Item
  <2>3. /\ o \in Call /\ o.mode = "streaming-out" /\ o.promise = "iterator"
        /\ o.queue = r.queue
    BY <1>0 DEF Call, Live
  <2> HIDE DEF q, o
  <2>4. CallInv(o)
    BY <1>0, <2>3 DEF CallInv
  <2> QED BY <2>1, <2>2, <2>3, <2>4, QueueInv
<1>4. CASE kind = "done"
  <2> DEFINE q == Close(r.queue, "ended")
             o == [r EXCEPT !.queue = q, !.promise = "iterator"]
             f == Finish(o)
  <2>1. First(r, kind) = [f EXCEPT !.answered = TRUE]
    BY <1>4 DEF First
  <2>2. q \in UnitQueues /\ PauseJustified(q) /\ ~q.paused
    BY <1>0, CloseUnit
  <2> HIDE DEF q
  <2>3. o \in Call /\ o.promise = "iterator" /\ o.queue = q
    BY <1>0, <2>2 DEF Call, UnitQueues, UnitEntry, OutputEntry
  <2> HIDE DEF o
  <2>4. CallInv(f)
    <3>1. /\ f \in Call /\ f.mode = "done" /\ Clean(f)
          /\ f.promise = "iterator" /\ f.queue = q
      BY <2>3, FinishOver
    <3> HIDE DEF f
    <3> QED BY <2>2, <3>1, OverInv
  <2> QED BY <2>1, <2>4, AnsweredInv
<1>5. CASE kind = "other"
  <2>1. First(r, kind) = Fail(r, "rejected")
    BY <1>5 DEF First
  <2> QED BY <2>1, FailOver DEF Live
<1> QED BY <1>1, <1>2, <1>3, <1>4, <1>5 DEF FrameKinds

LEMMA LaterInv ==
  ASSUME NEW r, CallInv(r), r.mode = "streaming-out", NEW kind \in FrameKinds
  PROVE  CallInv(Later(r, kind))
<1>0. /\ r \in Call /\ r.queue \in UnitQueues /\ PauseJustified(r.queue)
      /\ r.promise = "iterator"
  BY CallQueue DEF CallInv
<1>1. CASE kind = "item"
  <2>1. Later(r, kind) = [r EXCEPT !.queue = Push(r.queue, Item)]
    BY <1>1 DEF Later
  <2>2. Push(r.queue, Item) \in UnitQueues /\ PauseJustified(Push(r.queue, Item))
    BY <1>0, PushUnit DEF Item
  <2> QED BY <2>1, <2>2, QueueInv
<1>2. CASE kind = "done"
  <2> DEFINE t == [Finish(r) EXCEPT !.queue = Close(@, "ended")]
  <2>1. CallInv(t)
    BY <1>0, FinishClosed
  <2>2. Later(r, kind) = [t EXCEPT !.answered = TRUE]
    BY <1>0, <1>2, FinishOver DEF Later, Call
  <2> HIDE DEF t
  <2> QED BY <2>1, <2>2, AnsweredInv
<1>3. CASE kind = "result error"
  <2>1. Later(r, kind) = [Fail(r, "rejected") EXCEPT !.answered = TRUE]
    BY <1>3 DEF Later
  <2>2. CallInv(Fail(r, "rejected"))
    BY FailOver DEF Live
  <2> QED BY <2>1, <2>2, AnsweredInv
<1>4. CASE kind \in {"result ok", "other"}
  <2>1. Later(r, kind) = r
    BY <1>4 DEF Later
  <2> QED BY <2>1
<1> QED BY <1>1, <1>2, <1>3, <1>4 DEF FrameKinds

LEMMA RecvFrameInv ==
  ASSUME Inv, NEW c \in Calls, NEW kind \in FrameKinds, RecvFrame(c, kind)
  PROVE  Inv' /\ Quiet
<1> DEFINE r == IF calls[c].mode = "pending-first" THEN First(calls[c], kind)
                ELSE Later(calls[c], kind)
<1>1. link = "open" /\ calls[c].mode \in Live /\ Commit(Put(c, r), FALSE)
  BY DEF RecvFrame
<1>2. CallInv(r)
  BY <1>1, FirstInv, LaterInv DEF Inv, Live
<1> HIDE DEF r
<1> QED BY <1>1, <1>2, OneInv DEF Live

LEMMA ConsumerNextInv ==
  ASSUME Inv, NEW c \in Calls, ConsumerNext(c)
  PROVE  Inv' /\ Quiet
<1> DEFINE q == Pull(calls[c].queue)
           r == [calls[c] EXCEPT !.queue = q]
<1>1. Commit(Put(c, r), FALSE) /\ calls[c].promise = "iterator" /\ CallInv(calls[c])
  BY DEF ConsumerNext, Inv
<1>2. calls[c] \in Call /\ calls[c].queue \in UnitQueues /\ PauseJustified(calls[c].queue)
  BY <1>1, CallQueue DEF CallInv
<1>3. q \in UnitQueues /\ PauseJustified(q) /\ (q.paused => calls[c].queue.paused)
  BY <1>2, PullUnit
<1>4. calls[c].mode \in {"streaming-out", "done"}
  BY <1>1, <1>2 DEF CallInv, Unopened, Call, Live
<1> HIDE DEF q
<1>5. CallInv(r) /\ r.mode = calls[c].mode /\ r.sent = calls[c].sent
  BY <1>1, <1>2, <1>3, <1>4, CallQueue, QueueInv DEF CallInv
<1> HIDE DEF r
<1> QED BY <1>1, <1>5, OneInv

LEMMA ConsumerStopsInv ==
  ASSUME Inv, NEW c \in Calls, NEW how \in {"ended", "failed"}, ConsumerStops(c, how)
  PROVE  Inv' /\ Quiet
<1> DEFINE t == [Finish(calls[c]) EXCEPT !.queue = Close(@, how)]
<1>1. CallInv(t) /\ t.mode = "done" /\ Clean(t)
  BY FinishClosed DEF ConsumerStops, Inv, CallInv
<1>2. calls[c].mode # "done" /\ FinishWithCancel(c, t)
  BY DEF ConsumerStops
<1> HIDE DEF t
<1> QED BY <1>1, <1>2, CancelInv

-----------------------------------------------------------------------------
(* pumpInput *)

\* A change of what the pump keeps of an opened call.
LEMMA KeptInv ==
  ASSUME NEW r, CallInv(r), r.mode \notin {"idle", "awaiting"},
         NEW t \in Call, t.mode = r.mode, t.promise = r.promise,
         t.queue = r.queue, t.sent = r.sent, Clean(r) => Clean(t)
  PROVE  CallInv(t)
BY DEF CallInv, SaidCall

\* A call that has a pump was opened; one that still sends is in flight.
LEMMA PumpOpened ==
  ASSUME NEW r, CallInv(r), r.pump # "none"
  PROVE  /\ r.mode \in Live \cup {"done"}
         /\ r.mode \notin {"idle", "awaiting"}
BY DEF CallInv, Unopened, Call, Live

LEMMA PumpEndedInv ==
  ASSUME NEW r, CallInv(r), r.mode \notin {"idle", "awaiting"}
  PROVE  LET t == PumpEnded(r)
         IN  /\ CallInv(t) /\ t.mode = r.mode /\ t.sent = r.sent
             /\ Clean(r) => Clean(t)
<1> DEFINE t == PumpEnded(r)
<1>1. /\ t \in Call /\ t.mode = r.mode /\ t.promise = r.promise
      /\ t.queue = r.queue /\ t.sent = r.sent
      /\ Clean(r) => Clean(t)
  BY DEF PumpEnded, CallInv, Call, Clean
<1> HIDE DEF t
<1> QED BY <1>1, KeptInv DEF t

\* A call in flight sends a frame.
LEMMA TakenInv ==
  ASSUME NEW r, CallInv(r), r.mode \in Live, NEW how,
         NEW frame \in {"in-item", "in-done"}
  PROVE  LET t == Taken(r, frame, how)
         IN  CallInv(t) /\ t.mode = r.mode /\ t.pump = r.pump
<1> DEFINE t == Taken(r, frame, how)
<1>1. CASE how \in {"sent", "drain"}
  <2>1. t = [r EXCEPT !.sent = Append(r.sent, frame)]
    BY <1>1 DEF Taken
  <2>2. Append(r.sent, frame) \in Seq({"call", "in-item", "in-done", "cancel"})
    BY AppendProperties DEF CallInv, Call
  <2> HIDE DEF t
  <2>3. /\ t \in Call /\ t.mode = r.mode /\ t.promise = r.promise
        /\ t.queue = r.queue /\ t.pump = r.pump
    BY <2>1, <2>2 DEF CallInv, Call
  <2> QED BY <2>3 DEF CallInv, Live, t
<1>2. CASE how \notin {"sent", "drain"}
  BY <1>2 DEF Taken
<1> QED BY <1>1, <1>2

\* The call that a failing pump leaves behind.
LEMMA FailPump ==
  ASSUME NEW r, CallInv(r), r.mode \in Live
  PROVE  LET t == PumpEnded(Fail(r, "rejected"))
         IN  /\ CallInv(t) /\ t.mode = "done" /\ Clean(t)
             /\ CallInv([t EXCEPT !.input = "threw"])
             /\ [t EXCEPT !.input = "threw"].mode = "done"
             /\ Clean([t EXCEPT !.input = "threw"])
<1> DEFINE f == Fail(r, "rejected")
           t == PumpEnded(f)
           u == [t EXCEPT !.input = "threw"]
<1>1. CallInv(f) /\ f.mode = "done" /\ Clean(f)
  BY FailOver
<1> HIDE DEF f
<1>2. CallInv(t) /\ t.mode = "done" /\ Clean(t)
  BY <1>1, PumpEndedInv
<1> HIDE DEF t
<1>3. /\ u \in Call /\ u.mode = "done" /\ u.promise = t.promise /\ u.queue = t.queue
      /\ u.sent = t.sent /\ Clean(u)
  BY <1>2, ZenonT(30) DEF CallInv, Call, Clean
<1> HIDE DEF u
<1>4. CallInv(u)
  BY <1>2, <1>3, KeptInv
<1> QED BY <1>2, <1>3, <1>4 DEF u, t, f

LEMMA PumpYieldsInv ==
  ASSUME Inv, NEW c \in Calls, PumpYields(c)
  PROVE  Inv' /\ Quiet
<1> DEFINE r == calls[c]
<1>0. CallInv(r) /\ r.pump = "pulling" /\ r.mode \notin {"idle", "awaiting"}
  BY PumpOpened DEF PumpYields, Pumps, Inv
<1>1. CASE Stopped(r)
  <2>1. Commit(Put(c, PumpEnded(r)), FALSE)
    BY <1>1 DEF PumpYields
  <2> QED BY <1>0, <2>1, PumpEndedInv, OneInv
<1>2. CASE ~Stopped(r)
  <2>1. r.mode \in Live
    BY <1>0, <1>2, PumpOpened DEF Stopped
  <2>2. \/ \E how \in Hows("in-item") : Commit(Put(c, Taken(r, "in-item", how)), FALSE)
        \/ \E how \in Hows("in-item") \cap {"drain"} :
             Commit(Put(c, [Taken(r, "in-item", how)
                            EXCEPT !.pump = "draining", !.drain = "pending"]), FALSE)
        \/ Commit(CloseAll(Put(c, PumpEnded(r))), TRUE)
        \/ FinishWithCancel(c, PumpEnded(Fail(r, "rejected")))
    BY <1>2 DEF PumpYields
  <2>3. ASSUME NEW how \in Hows("in-item"), Commit(Put(c, Taken(r, "in-item", how)), FALSE)
        PROVE  Inv' /\ Quiet
    <3>1. CallInv(Taken(r, "in-item", how)) /\ Taken(r, "in-item", how).mode = r.mode
      BY <1>0, <2>1, TakenInv
    <3> QED BY <2>1, <2>3, <3>1, OneInv DEF Live
  <2>4. ASSUME NEW how \in Hows("in-item"),
               Commit(Put(c, [Taken(r, "in-item", how)
                              EXCEPT !.pump = "draining", !.drain = "pending"]), FALSE)
        PROVE  Inv' /\ Quiet
    <3> DEFINE s == Taken(r, "in-item", how)
               t == [s EXCEPT !.pump = "draining", !.drain = "pending"]
    <3>1. CallInv(s) /\ s.mode = r.mode
      BY <1>0, <2>1, TakenInv
    <3>2. Commit(Put(c, t), FALSE)
      BY <2>4
    <3> HIDE DEF s
    <3>3. /\ t \in Call /\ t.mode = r.mode /\ t.promise = s.promise
          /\ t.queue = s.queue
      BY <3>1 DEF CallInv, Call
    <3> HIDE DEF t
    <3>4. CallInv(t)
      BY <2>1, <3>1, <3>3 DEF CallInv, Live
    <3> QED BY <2>1, <3>2, <3>3, <3>4, OneInv DEF Live
  <2>5. CASE Commit(CloseAll(Put(c, PumpEnded(r))), TRUE)
    BY <1>0, <2>5, PumpEndedInv, OneCloseInv
  <2>6. CASE FinishWithCancel(c, PumpEnded(Fail(r, "rejected")))
    <3>1. LET t == PumpEnded(Fail(r, "rejected"))
          IN  CallInv(t) /\ t.mode = "done" /\ Clean(t)
      BY <1>0, <2>1, FailPump
    <3> QED BY <2>1, <2>6, <3>1, CancelInv DEF Live
  <2> QED BY <2>2, <2>3, <2>4, <2>5, <2>6
<1> QED BY <1>1, <1>2

LEMMA PumpEndsInv ==
  ASSUME Inv, NEW c \in Calls, PumpEnds(c)
  PROVE  Inv' /\ Quiet
<1> DEFINE input == IF calls[c].input = "open" THEN "finished" ELSE calls[c].input
           o == [calls[c] EXCEPT !.input = input]
           r == PumpEnded(o)
<1>0. /\ CallInv(calls[c]) /\ calls[c].pump = "pulling"
      /\ calls[c].mode \in Live \cup {"done"}
      /\ calls[c].mode \notin {"idle", "awaiting"}
  BY PumpOpened DEF PumpEnds, Pumps, Inv
<1>1. \/ Stopped(calls[c]) /\ Commit(Put(c, r), FALSE)
      \/ /\ ~Stopped(calls[c])
         /\ \E how \in Hows("in-done") :
              LET done == Taken([r EXCEPT !.sendingInput = FALSE], "in-done", how)
              IN  Commit(IF Closes(how) THEN CloseAll(Put(c, done)) ELSE Put(c, done),
                         Closes(how))
  BY DEF PumpEnds
<1>2. input \in {"none", "finished", "threw", "returned"}
  BY <1>0 DEF CallInv, Call
<1> HIDE DEF input
<1>3. /\ o \in Call /\ o.mode = calls[c].mode /\ o.promise = calls[c].promise
      /\ o.queue = calls[c].queue /\ o.sent = calls[c].sent
      /\ Clean(calls[c]) => Clean(o)
  BY <1>0, <1>2 DEF CallInv, Call, Clean
<1> HIDE DEF o
<1>4. CallInv(o)
  BY <1>0, <1>3, KeptInv
<1>5. CallInv(r) /\ r.mode = calls[c].mode /\ r.sent = calls[c].sent
  BY <1>0, <1>3, <1>4, PumpEndedInv
<1> HIDE DEF r
<1>6. CASE Stopped(calls[c]) /\ Commit(Put(c, r), FALSE)
  BY <1>5, <1>6, OneInv
<1>7. CASE ~Stopped(calls[c])
  <2>1. calls[c].mode \in Live /\ calls[c].mode # "done"
    BY <1>0, <1>7 DEF Stopped
  <2> DEFINE s == [r EXCEPT !.sendingInput = FALSE]
  <2>2. /\ s \in Call /\ s.mode = r.mode /\ s.promise = r.promise
        /\ s.queue = r.queue /\ s.sent = r.sent
        /\ Clean(r) => Clean(s)
    BY <1>5 DEF CallInv, Call, Clean
  <2>3. PICK how \in Hows("in-done") :
          LET done == Taken(s, "in-done", how)
          IN  Commit(IF Closes(how) THEN CloseAll(Put(c, done)) ELSE Put(c, done),
                     Closes(how))
    BY <1>1, <1>7
  <2> HIDE DEF s
  <2>4. CallInv(s)
    BY <1>0, <1>5, <2>2, KeptInv
  <2> DEFINE t == Taken(s, "in-done", how)
  <2>5. CallInv(t) /\ t.mode \in Live
    BY <1>5, <2>1, <2>2, <2>4, TakenInv
  <2>6. Commit(IF Closes(how) THEN CloseAll(Put(c, t)) ELSE Put(c, t), Closes(how))
    BY <2>3
  <2> HIDE DEF t
  <2>7. CASE Closes(how)
    <3>1. Commit(CloseAll(Put(c, t)), TRUE)
      BY <2>6, <2>7 DEF Commit
    <3> QED BY <2>1, <2>5, <3>1, OneCloseInv
  <2>8. CASE ~Closes(how)
    <3>1. Commit(Put(c, t), FALSE)
      BY <2>6, <2>8 DEF Commit
    <3> QED BY <2>1, <2>5, <3>1, OneInv
  <2> QED BY <2>7, <2>8
<1> QED BY <1>1, <1>6, <1>7

LEMMA PumpThrowsInv ==
  ASSUME Inv, NEW c \in Calls, PumpThrows(c)
  PROVE  Inv' /\ Quiet
<1>0. CallInv(calls[c]) /\ calls[c].mode \in Live \cup {"done"}
  BY PumpOpened DEF PumpThrows, Pumps, Inv
<1>1. CASE calls[c].mode = "done"
  <2> DEFINE o == PumpEnded(calls[c])
             input == IF o.input = "open" THEN "threw" ELSE o.input
             r == [o EXCEPT !.input = input]
  <2>1. Commit(Put(c, r), FALSE)
    BY <1>1 DEF PumpThrows
  <2>2. CallInv(o) /\ o.mode = "done" /\ o.sent = calls[c].sent
    BY <1>0, <1>1, PumpEndedInv
  <2> HIDE DEF o
  <2>3. input \in {"none", "finished", "threw", "returned"}
    BY <2>2 DEF CallInv, Call
  <2> HIDE DEF input
  <2>4. /\ r \in Call /\ r.mode = o.mode /\ r.promise = o.promise
        /\ r.queue = o.queue /\ r.sent = o.sent
        /\ Clean(o) => Clean(r)
    BY <2>2, <2>3 DEF CallInv, Call, Clean
  <2> HIDE DEF r
  <2>5. CallInv(r)
    BY <2>2, <2>4, KeptInv
  <2> QED BY <2>1, <2>2, <2>4, <2>5, OneInv DEF Live
<1>2. CASE calls[c].mode # "done"
  <2>1. FinishWithCancel(c, [PumpEnded(Fail(calls[c], "rejected")) EXCEPT !.input = "threw"])
    BY <1>2 DEF PumpThrows
  <2>2. LET t == [PumpEnded(Fail(calls[c], "rejected")) EXCEPT !.input = "threw"]
        IN  CallInv(t) /\ t.mode = "done" /\ Clean(t)
    BY <1>0, <1>2, FailPump
  <2> QED BY <1>2, <2>1, <2>2, CancelInv
<1> QED BY <1>1, <1>2

LEMMA DrainSettlesInv ==
  ASSUME Inv, NEW c \in Calls, NEW result \in {"drained", "timeout"},
         DrainSettles(c, result)
  PROVE  Inv' /\ Quiet
<1> DEFINE r == [calls[c] EXCEPT !.drain = result]
<1>1. Commit(Put(c, r), FALSE) /\ calls[c].drain = "pending" /\ CallInv(calls[c])
  BY DEF DrainSettles, Inv
<1>2. /\ r \in Call /\ r.mode = calls[c].mode /\ r.promise = calls[c].promise
      /\ r.queue = calls[c].queue /\ r.sent = calls[c].sent
      /\ Clean(calls[c]) => Clean(r)
  BY <1>1 DEF CallInv, Call, Clean
<1>3. calls[c].mode \notin {"idle", "awaiting"}
  BY <1>1 DEF CallInv, Unopened, Clean
<1> HIDE DEF r
<1>4. CallInv(r)
  BY <1>1, <1>2, <1>3, KeptInv
<1> QED BY <1>1, <1>2, <1>4, OneInv

LEMMA AfterDrainInv ==
  ASSUME Inv, NEW c \in Calls, AfterDrain(c)
  PROVE  Inv' /\ Quiet
<1>0. CallInv(calls[c]) /\ calls[c].mode \in Live \cup {"done"}
      /\ calls[c].mode \notin {"idle", "awaiting"}
  BY PumpOpened DEF AfterDrain, Pumps, Inv
<1> DEFINE over == PumpEnded(Fail(calls[c], "rejected"))
           pump == IF calls[c].drain = "drained" /\ calls[c].sendingInput THEN "pulling"
                   ELSE "ended"
           r == [calls[c] EXCEPT !.pump = pump]
<1>1. \/ calls[c].mode # "done" /\ FinishWithCancel(c, over)
      \/ Commit(Put(c, r), FALSE)
  BY DEF AfterDrain
<1>2. CASE calls[c].mode # "done" /\ FinishWithCancel(c, over)
  <2>1. CallInv(over) /\ over.mode = "done" /\ Clean(over)
    BY <1>0, <1>2, FailPump
  <2> HIDE DEF over
  <2> QED BY <1>2, <2>1, CancelInv
<1>3. CASE Commit(Put(c, r), FALSE)
  <2>1. pump \in {"none", "pulling", "draining", "ended"}
    OBVIOUS
  <2> HIDE DEF pump
  <2>2. /\ r \in Call /\ r.mode = calls[c].mode /\ r.promise = calls[c].promise
        /\ r.queue = calls[c].queue /\ r.sent = calls[c].sent
        /\ Clean(calls[c]) => Clean(r)
    BY <1>0, <2>1 DEF CallInv, Call, Clean
  <2> HIDE DEF r
  <2>3. CallInv(r)
    BY <1>0, <2>2, KeptInv
  <2> QED BY <1>3, <2>2, <2>3, OneInv
<1> QED BY <1>1, <1>2, <1>3

-----------------------------------------------------------------------------
(* The specification *)

LEMMA NextInv ==
  ASSUME Inv, Next
  PROVE  Inv' /\ Quiet
<1>1. CASE HandshakeOk
  BY <1>1 DEF HandshakeOk, Inv, TypeOK, PauseInv, PausedCalls, NoneLive, Quiet
<1>2. CASE LinkCloses
  BY <1>2, LinkClosesInv
<1>3. ASSUME NEW c \in Calls,
             \/ \E streaming \in BOOLEAN : StartCall(c, streaming)
             \/ Resume(c) \/ Abort(c)
             \/ \E kind \in FrameKinds : RecvFrame(c, kind)
             \/ ConsumerNext(c)
             \/ \E how \in {"ended", "failed"} : ConsumerStops(c, how)
             \/ PumpSettles(c) \/ AfterDrain(c)
             \/ \E result \in {"drained", "timeout"} : DrainSettles(c, result)
      PROVE  Inv' /\ Quiet
  <2>1. CASE \E streaming \in BOOLEAN : StartCall(c, streaming)
    BY <2>1, StartCallInv
  <2>2. CASE Resume(c)
    BY <2>2, ResumeInv
  <2>3. CASE Abort(c)
    BY <2>3, AbortInv
  <2>4. CASE \E kind \in FrameKinds : RecvFrame(c, kind)
    BY <2>4, RecvFrameInv
  <2>5. CASE ConsumerNext(c)
    BY <2>5, ConsumerNextInv
  <2>6. CASE \E how \in {"ended", "failed"} : ConsumerStops(c, how)
    BY <2>6, ConsumerStopsInv
  <2>7. CASE PumpSettles(c)
    BY <2>7, PumpYieldsInv, PumpEndsInv, PumpThrowsInv DEF PumpSettles
  <2>8. CASE AfterDrain(c)
    BY <2>8, AfterDrainInv
  <2>9. CASE \E result \in {"drained", "timeout"} : DrainSettles(c, result)
    BY <2>9, DrainSettlesInv
  <2> QED BY <1>3, <2>1, <2>2, <2>3, <2>4, <2>5, <2>6, <2>7, <2>8, <2>9
<1> QED BY <1>1, <1>2, <1>3 DEF Next

LEMMA StutterInv ==
  ASSUME Inv, UNCHANGED vars
  PROVE  Inv'
BY DEF vars, Inv, TypeOK, PauseInv, PausedCalls, NoneLive

\* The invariant the properties of a link rest on: what goes with the mode of
\* each call, the count of paused queues, and a closed link without calls.
THEOREM LinkInvariant == Spec => []Inv
<1>1. Inv /\ [Next]_vars => Inv'
  BY NextInv, StutterInv
<1> QED BY <1>1, InitInv, PTL DEF Spec

\* Types, for every set of calls and every mark.
THEOREM LinkType == Spec => []TypeOK
<1>1. Inv => TypeOK
  BY DEF Inv
<1> QED BY <1>1, LinkInvariant, PTL

\* No caller hangs: a call that is over has settled and given back its
\* generator, drain timer and abort listener, and a close of the socket,
\* wherever it happens, leaves no call in flight (call.ts finish and fail,
\* duplex.ts onClose).
THEOREM HangTheorem == Spec => []NobodyHangs
<1>1. Inv => NobodyHangs
  <2> SUFFICES ASSUME Inv PROVE NobodyHangs
    OBVIOUS
  <2>1. ASSUME NEW c \in Calls, calls[c].mode = "done"
        PROVE  /\ calls[c].promise # "pending"
               /\ Has(c, "call") => Clean(calls[c])
    BY <2>1 DEF Inv, CallInv, Has, Sent, SaidCall
  <2> QED BY <2>1 DEF NobodyHangs, NothingHeld, Clean, Inv, NoneLive
<1> QED BY <1>1, LinkInvariant, PTL

\* Once a call is over nothing more goes out under its id, whoever still runs
\* for it: the pump after its await, the abort listener, the consumer.
THEOREM SilenceTheorem == Spec => SilentWhenDone
<1>1. Inv /\ [Next]_vars => [Quiet]_vars
  BY NextInv
<1>2. Quiet <=> \A c \in Calls : calls[c].mode = "done" => calls'[c].sent = calls[c].sent
  BY DEF Quiet
<1> QED BY <1>1, <1>2, LinkInvariant, PTL DEF Spec, SilentWhenDone

\* Reads of the shared socket stay off only for a stream in flight whose
\* consumer has items to take: no closed, failed or drained stream starves the
\* other calls (duplex.ts pause and resume accounting).
THEOREM PauseTheorem == Spec => []PausedByStream
<1>1. Inv => PausedByStream
  <2> SUFFICES ASSUME Inv, ~reading
               PROVE  \E c \in Calls : /\ calls[c].mode = "streaming-out"
                                       /\ calls[c].queue.paused
                                       /\ calls[c].queue.entries # <<>>
    BY DEF PausedByStream
  <2>1. Cardinality(PausedCalls) # 0 /\ PausedCalls \subseteq Calls
    BY DEF Inv, PauseInv, PausedCalls
  <2>2. PausedCalls # {}
    BY <2>1, FS_EmptySet
  <2>3. PICK c \in Calls : calls[c].queue.paused
    BY <2>2 DEF PausedCalls
  <2>4. calls[c].queue \in UnitQueues /\ PauseJustified(calls[c].queue)
        /\ calls[c].mode = "streaming-out"
    BY <2>3, CallQueue DEF Inv, CallInv
  <2> QED BY <2>3, <2>4, PausedHolds
<1> QED BY <1>1, LinkInvariant, PTL
=============================================================================
