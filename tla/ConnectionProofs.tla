--------------------------- MODULE ConnectionProofs ---------------------------
(***************************************************************************)
(* Proof that a stream which was cut never looks complete at the other end *)
(* of a connection, for any number of calls and any bounds.                *)
(*                                                                         *)
(* It follows the sign of completeness from end to end.  The client sends  *)
(* in-done only once its input finished (PumpEndsMoves), so every in-done  *)
(* on the wire says so (GoodUp), and only an in-done or a cancel closes    *)
(* the server's queue; the server sends done only as its last turn, once   *)
(* its generator finished (IteratorMoves), so every done on the wire says  *)
(* so (GoodDown), and only a done lets the client's queue end answered.    *)
(* ClientMoves and ServerMoves are what any step of an end does to that;   *)
(* each action is shown to be one, closes inside its sends included.       *)
(***************************************************************************)
EXTENDS Connection, SequenceTheorems, TLAPS

-----------------------------------------------------------------------------
(* One call of the client *)

QueueFields == {"entries", "buffered", "paused", "pending", "closed"}

CallFields ==
  {"mode", "promise", "aborted", "armed", "streaming", "sendingInput", "input",
   "pump", "drain", "queue", "answered", "sent"}

ClientFrames == {"call", "in-item", "in-done", "cancel"}

\* Whether a call can still be sent input decides what its fields can be.
CallOK(r) ==
  /\ DOMAIN r = CallFields /\ DOMAIN r.queue = QueueFields
  /\ r.sent \in Seq(ClientFrames)
  /\ r.answered \in BOOLEAN /\ r.sendingInput \in BOOLEAN /\ r.streaming \in BOOLEAN
  /\ r.mode \in {"idle", "awaiting"} =>
       r.input = "none" /\ r.pump = "none" /\ ~r.sendingInput /\ ~r.armed
  /\ r.mode # "done" => r.queue.closed = "open" /\ ~r.answered
  /\ r.mode # "done" /\ r.sendingInput => r.input = "open"
  /\ r.input = "finished" => r.pump = "ended"

\* The iterator ended with what the server's done says.
WholeOutput(r) ==
  r.answered /\ r.promise = "iterator" /\ r.queue.closed = "ended"

\* What one step of the client, on a frame of some kind or none, does to a call.
Keeps(r, s, kind) ==
  /\ CallOK(s)
  /\ r.mode # "idle" => s.mode # "idle" /\ s.streaming = r.streaming
  /\ r.input = "finished" => s.input = "finished"
  /\ WholeOutput(s) => WholeOutput(r) \/ kind = "done"

\* What it sends.
Puts(r, s) ==
  \/ s.sent = r.sent
  \/ \E f \in ClientFrames :
       /\ s.sent = Append(r.sent, f) /\ s.mode # "idle"
       /\ f = "in-done" => s.input = "finished"

-----------------------------------------------------------------------------
(* The queues of both ends *)

LEMMA ClientQueues ==
  ASSUME NEW q, DOMAIN q = QueueFields, NEW how, how # "open", NEW entry
  PROVE  /\ DOMAIN Client!Close(q, how) = QueueFields
         /\ Client!Close(q, how).closed = IF q.closed = "open" THEN how ELSE q.closed
         /\ DOMAIN Client!Push(q, entry) = QueueFields
         /\ Client!Push(q, entry).closed = q.closed
         /\ DOMAIN Client!Pull(q) = QueueFields /\ Client!Pull(q).closed = q.closed
<1> USE DEF QueueFields
<1>1. ASSUME NEW p, DOMAIN p = QueueFields
      PROVE  DOMAIN Client!Take(p) = QueueFields /\ Client!Take(p).closed = p.closed
  BY <1>1 DEF Client!Take
<1>2. ASSUME NEW p, DOMAIN p = QueueFields
      PROVE  /\ DOMAIN Client!SettleWaiter(p) = QueueFields
             /\ Client!SettleWaiter(p).closed = p.closed
  <2>1. DOMAIN [p EXCEPT !.pending = FALSE] = QueueFields
        /\ [p EXCEPT !.pending = FALSE].closed = p.closed
    BY <1>2
  <2> QED BY <1>1, <1>2, <2>1 DEF Client!SettleWaiter
<1>3. /\ DOMAIN Client!Close(q, how) = QueueFields
      /\ Client!Close(q, how).closed = IF q.closed = "open" THEN how ELSE q.closed
  <2> DEFINE p == [q EXCEPT !.closed = how]
  <2>1. DOMAIN p = QueueFields /\ p.closed = how
    OBVIOUS
  <2> HIDE DEF p
  <2>2. DOMAIN Client!SettleWaiter(p) = QueueFields /\ Client!SettleWaiter(p).closed = how
    BY <1>2, <2>1
  <2>3. Client!Close(q, how) = IF q.closed # "open" THEN q
                               ELSE [Client!SettleWaiter(p) EXCEPT !.paused = FALSE]
    BY DEF Client!Close, p
  <2> QED BY <2>2, <2>3
<1>4. DOMAIN Client!Push(q, entry) = QueueFields /\ Client!Push(q, entry).closed = q.closed
  <2> DEFINE p == [q EXCEPT !.entries = Append(q.entries, entry),
                            !.buffered = q.buffered + entry.size]
             s == Client!SettleWaiter(p)
  <2>1. DOMAIN p = QueueFields /\ p.closed = q.closed
    OBVIOUS
  <2> HIDE DEF p
  <2>2. DOMAIN s = QueueFields /\ s.closed = q.closed
    BY <1>2, <2>1
  <2>3. Client!Push(q, entry) = IF q.closed # "open" THEN q
          ELSE [s EXCEPT !.paused = s.paused \/ s.buffered > HighWaterMark]
    BY DEF Client!Push, p
  <2> HIDE DEF s
  <2> QED BY <2>2, <2>3
<1>5. DOMAIN Client!Pull(q) = QueueFields /\ Client!Pull(q).closed = q.closed
  BY <1>1 DEF Client!Pull
<1> QED BY <1>3, <1>4, <1>5

LEMMA ServerQueues ==
  ASSUME NEW q, DOMAIN q = QueueFields, NEW how, how # "open", NEW entry
  PROVE  /\ DOMAIN Server!Close(q, how) = QueueFields
         /\ Server!Close(q, how).closed = IF q.closed = "open" THEN how ELSE q.closed
         /\ DOMAIN Server!Push(q, entry) = QueueFields
         /\ Server!Push(q, entry).closed = q.closed
         /\ DOMAIN Server!Pull(q) = QueueFields /\ Server!Pull(q).closed = q.closed
<1> USE DEF QueueFields
<1>1. ASSUME NEW p, DOMAIN p = QueueFields
      PROVE  DOMAIN Server!Take(p) = QueueFields /\ Server!Take(p).closed = p.closed
  BY <1>1 DEF Server!Take
<1>2. ASSUME NEW p, DOMAIN p = QueueFields
      PROVE  /\ DOMAIN Server!SettleWaiter(p) = QueueFields
             /\ Server!SettleWaiter(p).closed = p.closed
  <2>1. DOMAIN [p EXCEPT !.pending = FALSE] = QueueFields
        /\ [p EXCEPT !.pending = FALSE].closed = p.closed
    BY <1>2
  <2> QED BY <1>1, <1>2, <2>1 DEF Server!SettleWaiter
<1>3. /\ DOMAIN Server!Close(q, how) = QueueFields
      /\ Server!Close(q, how).closed = IF q.closed = "open" THEN how ELSE q.closed
  <2> DEFINE p == [q EXCEPT !.closed = how]
  <2>1. DOMAIN p = QueueFields /\ p.closed = how
    OBVIOUS
  <2> HIDE DEF p
  <2>2. DOMAIN Server!SettleWaiter(p) = QueueFields /\ Server!SettleWaiter(p).closed = how
    BY <1>2, <2>1
  <2>3. Server!Close(q, how) = IF q.closed # "open" THEN q
                               ELSE [Server!SettleWaiter(p) EXCEPT !.paused = FALSE]
    BY DEF Server!Close, p
  <2> QED BY <2>2, <2>3
<1>4. DOMAIN Server!Push(q, entry) = QueueFields /\ Server!Push(q, entry).closed = q.closed
  <2> DEFINE p == [q EXCEPT !.entries = Append(q.entries, entry),
                            !.buffered = q.buffered + entry.size]
             s == Server!SettleWaiter(p)
  <2>1. DOMAIN p = QueueFields /\ p.closed = q.closed
    OBVIOUS
  <2> HIDE DEF p
  <2>2. DOMAIN s = QueueFields /\ s.closed = q.closed
    BY <1>2, <2>1
  <2>3. Server!Push(q, entry) = IF q.closed # "open" THEN q
          ELSE [s EXCEPT !.paused = s.paused \/ s.buffered > HighWaterMark]
    BY DEF Server!Push, p
  <2> HIDE DEF s
  <2> QED BY <2>2, <2>3
<1>5. DOMAIN Server!Pull(q) = QueueFields /\ Server!Pull(q).closed = q.closed
  BY <1>1 DEF Server!Pull
<1> QED BY <1>3, <1>4, <1>5

-----------------------------------------------------------------------------
(* The steps of the client *)

LEMMA KeepsSame == ASSUME NEW r, CallOK(r), NEW kind PROVE Keeps(r, r, kind) /\ Puts(r, r)
BY DEF Keeps, Puts

\* finish(), and fail() of a call that was opened.
LEMMA FinishKeeps ==
  ASSUME NEW r, CallOK(r), NEW kind
  PROVE  /\ Client!Finish(r).mode = "done" /\ Client!Finish(r).sent = r.sent
         /\ Client!Finish(r).answered = r.answered
         /\ Client!Finish(r).promise = r.promise /\ Client!Finish(r).queue = r.queue
         /\ Client!Finish(r).pump = r.pump
         /\ Client!Finish(r).streaming = r.streaming
         /\ r.input = "finished" => Client!Finish(r).input = "finished"
         /\ DOMAIN Client!Finish(r) = CallFields
         /\ Keeps(r, Client!Finish(r), kind)
<1> DEFINE s == Client!Finish(r)
<1>1. /\ DOMAIN s = CallFields /\ s.mode = "done" /\ s.sent = r.sent
      /\ s.answered = r.answered /\ s.promise = r.promise /\ s.queue = r.queue
      /\ s.pump = r.pump /\ s.streaming = r.streaming /\ s.sendingInput = FALSE
      /\ s.input = (IF r.input = "open" THEN "returned" ELSE r.input)
  BY DEF CallOK, CallFields, Client!Finish
<1> HIDE DEF s
<1>2. CallOK(s)
  BY <1>1 DEF CallOK
<1>3. WholeOutput(s) => WholeOutput(r)
  BY <1>1 DEF WholeOutput
<1> QED BY <1>1, <1>2, <1>3 DEF Keeps, s

LEMMA FailKeeps ==
  ASSUME NEW r, CallOK(r), r.mode \notin {"idle", "awaiting"},
         NEW how, how # "iterator", NEW kind
  PROVE  /\ Client!Fail(r, how).mode = "done" /\ Client!Fail(r, how).sent = r.sent
         /\ Client!Fail(r, how).streaming = r.streaming
         /\ r.input = "finished" => Client!Fail(r, how).input = "finished"
         /\ Client!Fail(r, how).pump = r.pump
         /\ DOMAIN Client!Fail(r, how) = CallFields
         /\ r.mode # "done" => ~WholeOutput([Client!Fail(r, how) EXCEPT !.answered = TRUE])
         /\ Keeps(r, Client!Fail(r, how), kind)
<1> DEFINE t == Client!Finish(r)
           s == Client!Fail(r, how)
<1>1. CASE r.mode = "done"
  <2>1. s = r
    BY <1>1 DEF Client!Fail
  <2> QED BY <1>1, <2>1, KeepsSame DEF CallOK
<1>2. CASE r.mode # "done"
  <2>1. s = Client!Settled(t, r.mode, how)
    BY <1>2 DEF Client!Fail
  <2>2. /\ t.mode = "done" /\ t.sent = r.sent /\ t.answered = r.answered
        /\ t.promise = r.promise /\ t.queue = r.queue /\ t.pump = r.pump
        /\ t.streaming = r.streaming /\ DOMAIN t = CallFields
        /\ r.input = "finished" => t.input = "finished"
        /\ CallOK(t)
    BY FinishKeeps DEF Keeps
  <2>3. /\ DOMAIN Client!Close(r.queue, "failed") = QueueFields
        /\ Client!Close(r.queue, "failed").closed = "failed"
    BY <1>2, ClientQueues DEF CallOK
  <2> DEFINE q == Client!Close(r.queue, "failed")
  <2> HIDE DEF t, q
  <2>4. s = [t EXCEPT !.promise = how] \/ s = [t EXCEPT !.queue = q]
    BY <2>1, <2>2 DEF Client!Settled, q
  <2> HIDE DEF s
  <2>5. /\ DOMAIN s = CallFields
        /\ s.mode = t.mode /\ s.sent = t.sent /\ s.answered = t.answered /\ s.pump = t.pump
        /\ s.input = t.input /\ s.streaming = t.streaming
        /\ s.sendingInput = t.sendingInput
    BY <2>2, <2>4 DEF CallFields
  <2>6. \/ s.promise = how /\ s.queue = t.queue
        \/ s.promise = t.promise /\ s.queue = q
    BY <2>2, <2>4 DEF CallFields
  <2>7. CallOK(s)
    BY <2>2, <2>3, <2>5, <2>6 DEF CallOK, q
  <2> DEFINE u == [s EXCEPT !.answered = TRUE]
  <2>8. u.promise = s.promise /\ u.queue = s.queue
    BY <2>5 DEF CallFields
  <2>9. ~WholeOutput(u) /\ ~WholeOutput(s)
    BY <1>2, <2>2, <2>3, <2>6, <2>8 DEF WholeOutput, q, CallOK
  <2> QED BY <2>2, <2>5, <2>7, <2>9 DEF Keeps, s
<1> QED BY <1>1, <1>2

\* What a step does to the calls of the client, c the only one to send.
ClientMoves(c, kind) ==
  /\ calls' = [i \in Ids |-> calls'[i]]
  /\ \A i \in Ids : Keeps(calls[i], calls'[i], IF i = c THEN kind ELSE "none")
  /\ \A i \in Ids \ {c} : calls'[i].sent = calls[i].sent
  /\ Puts(calls[c], calls'[c])

ClientOK == calls = [i \in Ids |-> calls[i]] /\ \A i \in Ids : CallOK(calls[i])

\* The step leaves call c as r, and the close, if any, went through all.
LEMMA PutMoves ==
  ASSUME ClientOK, NEW c \in Ids, NEW kind, NEW r,
         Keeps(calls[c], r, kind), Puts(calls[c], r),
         calls' = Client!Put(c, r) \/ calls' = Client!CloseAll(Client!Put(c, r))
  PROVE  ClientMoves(c, kind)
<1> DEFINE cs == Client!Put(c, r)
<1>1. cs = [i \in Ids |-> IF i = c THEN r ELSE calls[i]]
  BY DEF Client!Put, ClientOK
<1>2. \A i \in Ids : CallOK(cs[i])
  BY <1>1 DEF Keeps, ClientOK
<1>3. \A i \in Ids : Keeps(calls[i], cs[i], IF i = c THEN kind ELSE "none")
  BY <1>1, KeepsSame DEF ClientOK
<1>4. \A i \in Ids \ {c} : cs[i].sent = calls[i].sent
  BY <1>1
<1>5. Puts(calls[c], cs[c])
  BY <1>1
<1>6. CASE calls' = cs
  BY <1>1, <1>3, <1>4, <1>5, <1>6 DEF ClientMoves
<1>7. CASE calls' = Client!CloseAll(cs)
  <2> HIDE DEF cs
  <2>1. calls' = [i \in Ids |-> IF cs[i].mode \in Client!Live
                                THEN Client!Fail(cs[i], "rejected") ELSE cs[i]]
    BY <1>7 DEF Client!CloseAll
  <2>2. \A i \in Ids :
          /\ CallOK(calls'[i])
          /\ calls'[i].sent = cs[i].sent
          /\ cs[i].mode # "idle" =>
               calls'[i].mode # "idle" /\ calls'[i].streaming = cs[i].streaming
          /\ cs[i].input = "finished" => calls'[i].input = "finished"
          /\ WholeOutput(calls'[i]) => WholeOutput(cs[i])
    <3> SUFFICES ASSUME NEW i \in Ids
                 PROVE  /\ CallOK(calls'[i])
                        /\ calls'[i].sent = cs[i].sent
                        /\ cs[i].mode # "idle" =>
                             calls'[i].mode # "idle" /\ calls'[i].streaming = cs[i].streaming
                        /\ cs[i].input = "finished" => calls'[i].input = "finished"
                        /\ WholeOutput(calls'[i]) => WholeOutput(cs[i])
      OBVIOUS
    <3>1. CASE cs[i].mode \notin Client!Live
      <4>1. calls'[i] = cs[i]
        BY <2>1, <3>1
      <4> QED BY <1>2, <4>1
    <3>2. CASE cs[i].mode \in Client!Live
      <4>1. calls'[i] = Client!Fail(cs[i], "rejected")
        BY <2>1, <3>2
      <4>2. CallOK(cs[i]) /\ cs[i].mode \notin {"idle", "awaiting"}
        BY <1>2, <3>2 DEF Client!Live
      <4>3. /\ Client!Fail(cs[i], "rejected").mode = "done"
            /\ Client!Fail(cs[i], "rejected").sent = cs[i].sent
            /\ Keeps(cs[i], Client!Fail(cs[i], "rejected"), "none")
        BY <4>2, FailKeeps
      <4> QED BY <4>1, <4>3 DEF Keeps
    <3> QED BY <3>1, <3>2
  <2>3. \A i \in Ids : Keeps(calls[i], calls'[i], IF i = c THEN kind ELSE "none")
    BY <1>3, <2>2 DEF Keeps
  <2>4. \A i \in Ids \ {c} : calls'[i].sent = calls[i].sent
    BY <1>4, <2>2
  <2>5. Puts(calls[c], calls'[c])
    BY <1>5, <2>2 DEF Puts
  <2>6. calls' = [i \in Ids |-> calls'[i]]
    BY <2>1
  <2> QED BY <2>3, <2>4, <2>5, <2>6 DEF ClientMoves
<1> QED BY <1>6, <1>7

LEMMA TakenMoves ==
  ASSUME NEW r, NEW s, NEW kind, Keeps(r, s, kind), s.sent = r.sent, s.mode # "idle",
         NEW f \in ClientFrames, f = "in-done" => s.input = "finished", NEW how
  PROVE  Keeps(r, Client!Taken(s, f, how), kind) /\ Puts(r, Client!Taken(s, f, how))
<1> DEFINE t == Client!Taken(s, f, how)
<1>1. CASE t = s
  BY <1>1 DEF Puts
<1>2. CASE t = [s EXCEPT !.sent = Append(@, f)]
  <2>1. CallOK(s)
    BY DEF Keeps
  <2>2. Append(s.sent, f) \in Seq(ClientFrames)
    BY <2>1, AppendProperties DEF CallOK
  <2> HIDE DEF t
  <2>3. /\ DOMAIN t = CallFields /\ t.sent = Append(s.sent, f)
        /\ t.mode = s.mode /\ t.promise = s.promise /\ t.streaming = s.streaming
        /\ t.sendingInput = s.sendingInput /\ t.input = s.input /\ t.pump = s.pump
        /\ t.queue = s.queue /\ t.answered = s.answered /\ t.armed = s.armed
    BY <1>2, <2>1 DEF CallOK, CallFields
  <2>4. CallOK(t)
    BY <2>1, <2>2, <2>3 DEF CallOK
  <2>5. WholeOutput(t) <=> WholeOutput(s)
    BY <2>3 DEF WholeOutput
  <2> QED BY <2>3, <2>4, <2>5 DEF Keeps, Puts, t
<1> QED BY <1>1, <1>2 DEF Client!Taken

LEMMA CancelMoves ==
  ASSUME ClientOK, NEW c \in Ids, NEW over, Keeps(calls[c], over, "none"),
         over.sent = calls[c].sent, over.mode # "idle", Client!FinishWithCancel(c, over)
  PROVE  ClientMoves(c, "none")
<1>1. PICK how : LET cs == Client!Put(c, Client!Taken(over, "cancel", how))
                 IN  Client!Commit(IF Client!Closes(how) THEN Client!CloseAll(cs) ELSE cs,
                                   Client!Closes(how))
  BY DEF Client!FinishWithCancel
<1> DEFINE r == Client!Taken(over, "cancel", how)
<1>2. Keeps(calls[c], r, "none") /\ Puts(calls[c], r)
  BY TakenMoves DEF ClientFrames
<1>3. calls' = Client!Put(c, r) \/ calls' = Client!CloseAll(Client!Put(c, r))
  BY <1>1 DEF Client!Commit
<1> HIDE DEF r
<1> QED BY <1>2, <1>3, PutMoves

LEMMA StartMoves ==
  ASSUME ClientOK, NEW c \in Ids, NEW streaming \in BOOLEAN,
         Client!StartCall(c, streaming)
  PROVE  ClientMoves(c, "none")
<1> DEFINE r == [calls[c] EXCEPT !.mode = "awaiting", !.streaming = streaming]
<1>1. CallOK(calls[c]) /\ calls[c].mode = "idle" /\ calls' = Client!Put(c, r)
  BY DEF ClientOK, Client!StartCall, Client!Commit
<1>2. /\ DOMAIN r = CallFields /\ r.sent = calls[c].sent /\ r.mode = "awaiting"
      /\ r.promise = calls[c].promise /\ r.sendingInput = calls[c].sendingInput
      /\ r.input = calls[c].input /\ r.pump = calls[c].pump
      /\ r.queue = calls[c].queue /\ r.answered = calls[c].answered
      /\ r.streaming = streaming /\ r.armed = calls[c].armed
  BY <1>1 DEF CallOK, CallFields
<1> HIDE DEF r
<1>3. CallOK(r)
  BY <1>1, <1>2 DEF CallOK
<1>4. Keeps(calls[c], r, "none") /\ Puts(calls[c], r)
  BY <1>1, <1>2, <1>3 DEF Keeps, Puts, WholeOutput
<1> QED BY <1>1, <1>4, PutMoves

\* What open() goes on to, of a call that was just pending or has failed since.
LEMMA OpenedKeeps ==
  ASSUME NEW r, CallOK(r), r.mode \in {"pending-first", "done"}, r.input # "finished"
  PROVE  /\ Keeps(r, Client!Opened(r), "none")
         /\ Client!Opened(r).mode = r.mode /\ Client!Opened(r).sent = r.sent
         /\ Client!Opened(r).streaming = r.streaming
<1> DEFINE s == Client!Opened(r)
<1>1. /\ DOMAIN s = CallFields /\ s.sent = r.sent /\ s.mode = r.mode
      /\ s.promise = r.promise /\ s.streaming = r.streaming
      /\ s.sendingInput = r.streaming
      /\ s.input = (IF r.streaming THEN "open" ELSE "none")
      /\ s.queue = r.queue /\ s.answered = r.answered
  BY DEF CallOK, CallFields, Client!Opened
<1> HIDE DEF s
<1>2. CallOK(s)
  BY <1>1 DEF CallOK
<1>3. WholeOutput(s) <=> WholeOutput(r)
  BY <1>1 DEF WholeOutput
<1> QED BY <1>1, <1>2, <1>3 DEF Keeps, s

LEMMA OpenMoves ==
  ASSUME ClientOK, NEW c \in Ids, calls[c].mode = "awaiting", link # "closed",
         Client!Open(c)
  PROVE  ClientMoves(c, "none")
<1> DEFINE r == [calls[c] EXCEPT !.mode = "pending-first"]
<1>1. CallOK(calls[c])
  BY DEF ClientOK
<1>2. /\ DOMAIN r = CallFields /\ r.sent = calls[c].sent /\ r.mode = "pending-first"
      /\ r.promise = calls[c].promise /\ r.sendingInput = calls[c].sendingInput
      /\ r.input = calls[c].input /\ r.pump = calls[c].pump
      /\ r.queue = calls[c].queue /\ r.answered = calls[c].answered
      /\ r.streaming = calls[c].streaming
  BY <1>1 DEF CallOK, CallFields
<1>3. PICK how \in Client!Hows("call") :
        CASE how \in {"sent", "drain"} ->
               Client!Commit(Client!Put(c, Client!Opened(Client!Taken(r, "call", how))), FALSE)
          [] how \in {"oversize", "stringify"} ->
               Client!Commit(Client!Put(c, Client!Fail(r, "rejected")), FALSE)
          [] how = "throws" -> Client!Commit(Client!CloseAll(Client!Put(c, r)), TRUE)
          [] how = "closes" ->
               Client!Commit([Client!CloseAll(Client!Put(c, r)) EXCEPT
                                ![c] = Client!Opened(@)], TRUE)
  BY DEF Client!Open
<1> HIDE DEF r
<1>4. CallOK(r) /\ Keeps(calls[c], r, "none") /\ Puts(calls[c], r)
  <2>1. CallOK(r)
    BY <1>1, <1>2 DEF CallOK
  <2> QED BY <1>1, <1>2, <2>1 DEF Keeps, Puts, WholeOutput
<1>5. CASE how \in {"sent", "drain"}
  <2> DEFINE t == Client!Taken(r, "call", how)
             s == Client!Opened(t)
  <2>1. Keeps(r, t, "none") /\ Puts(r, t) /\ CallOK(t)
    <3>1. Keeps(r, r, "none") /\ r.mode # "idle"
      BY <1>2, <1>4, KeepsSame
    <3>2. "call" \in ClientFrames /\ "call" # "in-done"
      BY DEF ClientFrames
    <3>3. Keeps(r, t, "none") /\ Puts(r, t)
      BY <3>1, <3>2, TakenMoves
    <3> QED BY <3>3 DEF Keeps
  <2>2. t.mode = "pending-first" /\ t.streaming = r.streaming /\ t.input = r.input
        /\ t.sent = Append(r.sent, "call")
    BY <1>2, <1>5 DEF Client!Taken, CallFields
  <2>3. calls' = Client!Put(c, s)
    BY <1>3, <1>5 DEF Client!Commit
  <2> HIDE DEF t
  <2>4. t.input # "finished" /\ t.streaming \in BOOLEAN
    BY <1>1, <1>2, <2>2 DEF CallOK
  <2>5. Keeps(t, s, "none") /\ s.mode = "pending-first" /\ s.sent = t.sent
        /\ s.streaming = t.streaming
    BY <2>1, <2>2, <2>4, OpenedKeeps
  <2> HIDE DEF s
  <2>6. Keeps(calls[c], s, "none")
    BY <1>2, <1>4, <2>1, <2>2, <2>4, <2>5 DEF Keeps
  <2>7. Puts(calls[c], s)
    BY <1>2, <2>2, <2>5 DEF Puts, ClientFrames
  <2> QED BY <2>3, <2>6, <2>7, PutMoves
<1>6. CASE how \in {"oversize", "stringify"}
  <2> DEFINE s == Client!Fail(r, "rejected")
  <2>1. calls' = Client!Put(c, s)
    BY <1>3, <1>6 DEF Client!Commit
  <2>2. Keeps(r, s, "none") /\ s.sent = r.sent /\ s.mode = "done"
    BY <1>2, <1>4, FailKeeps
  <2> HIDE DEF s
  <2>3. Keeps(calls[c], s, "none") /\ Puts(calls[c], s)
    BY <1>2, <1>4, <2>2 DEF Keeps, Puts
  <2> QED BY <2>1, <2>3, PutMoves
<1>7. CASE how = "throws"
  <2>1. calls' = Client!CloseAll(Client!Put(c, r))
    BY <1>3, <1>7 DEF Client!Commit
  <2> QED BY <1>4, <2>1, PutMoves
<1>8. CASE how = "closes"
  <2> DEFINE s == Client!Fail(r, "rejected")
             cs == Client!CloseAll(Client!Put(c, r))
  <2>1. calls' = [cs EXCEPT ![c] = Client!Opened(@)]
    BY <1>3, <1>8 DEF Client!Commit
  <2>2. /\ Keeps(r, s, "none") /\ s.sent = r.sent /\ s.mode = "done" /\ CallOK(s)
        /\ s.streaming = r.streaming /\ s.pump = r.pump
    <3>1. r.mode \notin {"idle", "awaiting"}
      BY <1>2
    <3>2. /\ Keeps(r, s, "none") /\ s.sent = r.sent /\ s.mode = "done"
          /\ s.streaming = r.streaming /\ s.pump = r.pump
      BY <1>4, <3>1, FailKeeps
    <3> QED BY <3>2 DEF Keeps
  <2>3. s.input # "finished"
    BY <1>1, <1>2, <2>2 DEF CallOK
  <2>4. Keeps(s, Client!Opened(s), "none") /\ Client!Opened(s).mode = "done"
        /\ Client!Opened(s).sent = s.sent /\ Client!Opened(s).streaming = s.streaming
    BY <1>2, <2>2, <2>3, OpenedKeeps
  <2>5. Client!Put(c, r) = [i \in Ids |-> IF i = c THEN r ELSE calls[i]]
    BY DEF Client!Put, ClientOK
  <2>6. cs[c] = s
    BY <1>2, <2>5 DEF Client!CloseAll, Client!Live
  <2>7. cs = [i \in Ids |-> cs[i]]
    BY DEF Client!CloseAll
  <2>8. Keeps(calls[c], Client!Opened(s), "none") /\ Puts(calls[c], Client!Opened(s))
    BY <1>1, <1>2, <1>4, <2>2, <2>3, <2>4 DEF Keeps, Puts
  <2> HIDE DEF s
  <2>9. calls'[c] = Client!Opened(s) /\ calls' = [i \in Ids |-> calls'[i]]
        /\ \A i \in Ids \ {c} : calls'[i] = cs[i]
    BY <2>1, <2>6, <2>7
  <2>10. \A i \in Ids \ {c} :
           Keeps(calls[i], cs[i], "none") /\ cs[i].sent = calls[i].sent
    <3> SUFFICES ASSUME NEW i \in Ids \ {c}
                 PROVE  Keeps(calls[i], cs[i], "none") /\ cs[i].sent = calls[i].sent
      OBVIOUS
    <3>1. CallOK(calls[i])
      BY DEF ClientOK
    <3>2. cs[i] = IF calls[i].mode \in Client!Live THEN Client!Fail(calls[i], "rejected")
                  ELSE calls[i]
      BY <2>5 DEF Client!CloseAll
    <3>3. CASE calls[i].mode \in Client!Live
      <4>1. calls[i].mode \notin {"idle", "awaiting"}
        BY <3>3 DEF Client!Live
      <4>2. /\ Keeps(calls[i], Client!Fail(calls[i], "rejected"), "none")
            /\ Client!Fail(calls[i], "rejected").sent = calls[i].sent
        BY <3>1, <4>1, FailKeeps
      <4> QED BY <3>2, <3>3, <4>2
    <3>4. CASE calls[i].mode \notin Client!Live
      BY <3>1, <3>2, <3>4, KeepsSame
    <3> QED BY <3>3, <3>4
  <2> HIDE DEF cs
  <2> QED BY <2>8, <2>9, <2>10 DEF ClientMoves
<1>9. how \in {"sent", "drain", "oversize", "stringify", "throws", "closes"}
  BY SendsAssumption DEF Client!Hows
<1> QED BY <1>5, <1>6, <1>7, <1>8, <1>9

LEMMA ResumeMoves ==
  ASSUME ClientOK, NEW c \in Ids, Client!Resume(c)
  PROVE  ClientMoves(c, "none")
<1>1. CallOK(calls[c]) /\ calls[c].mode = "awaiting"
  BY DEF ClientOK, Client!Resume
<1>2. ASSUME NEW how, calls' = Client!Put(c, [calls[c] EXCEPT !.mode = "done", !.promise = how])
      PROVE  ClientMoves(c, "none")
  <2> DEFINE r == [calls[c] EXCEPT !.mode = "done", !.promise = how]
  <2>1. /\ DOMAIN r = CallFields /\ r.sent = calls[c].sent /\ r.mode = "done"
        /\ r.sendingInput = calls[c].sendingInput
        /\ r.input = calls[c].input /\ r.pump = calls[c].pump
        /\ r.queue = calls[c].queue /\ r.answered = calls[c].answered
        /\ r.streaming = calls[c].streaming
    BY <1>1 DEF CallOK, CallFields
  <2> HIDE DEF r
  <2>2. Keeps(calls[c], r, "none") /\ Puts(calls[c], r)
    BY <1>1, <2>1 DEF Keeps, Puts, CallOK, WholeOutput
  <2> QED BY <1>2, <2>2, PutMoves DEF r
<1>3. CASE calls[c].aborted
  BY <1>2, <1>3 DEF Client!Resume, Client!Commit
<1>4. CASE ~calls[c].aborted /\ link = "closed"
  BY <1>2, <1>4 DEF Client!Resume, Client!Commit
<1>5. CASE ~calls[c].aborted /\ link # "closed"
  <2>1. Client!Open(c)
    BY <1>5 DEF Client!Resume
  <2> QED BY <1>1, <1>5, <2>1, OpenMoves
<1> QED BY <1>3, <1>4, <1>5

LEMMA AbortMoves ==
  ASSUME ClientOK, NEW c \in Ids, Client!Abort(c)
  PROVE  ClientMoves(c, "none")
<1> DEFINE r == [calls[c] EXCEPT !.aborted = TRUE]
<1>1. CallOK(calls[c])
  BY DEF ClientOK
<1>2. /\ DOMAIN r = CallFields /\ r.sent = calls[c].sent /\ r.mode = calls[c].mode
      /\ r.promise = calls[c].promise /\ r.sendingInput = calls[c].sendingInput
      /\ r.input = calls[c].input /\ r.pump = calls[c].pump
      /\ r.queue = calls[c].queue /\ r.answered = calls[c].answered
      /\ r.streaming = calls[c].streaming /\ r.armed = calls[c].armed
  BY <1>1 DEF CallOK, CallFields
<1>3. \/ r.armed /\ r.mode # "done" /\ Client!FinishWithCancel(c, Client!Fail(r, "aborted"))
      \/ ~(r.armed /\ r.mode # "done") /\ calls' = Client!Put(c, r)
  BY DEF Client!Abort, Client!Commit
<1> HIDE DEF r
<1>4. CallOK(r) /\ Keeps(calls[c], r, "none") /\ Puts(calls[c], r)
  BY <1>1, <1>2 DEF Keeps, Puts, CallOK, WholeOutput
<1>5. CASE calls' = Client!Put(c, r)
  BY <1>4, <1>5, PutMoves
<1>6. CASE r.armed /\ Client!FinishWithCancel(c, Client!Fail(r, "aborted"))
  <2> DEFINE s == Client!Fail(r, "aborted")
  <2>0. r.mode \notin {"idle", "awaiting"}
    BY <1>4, <1>6 DEF CallOK
  <2>1. Keeps(r, s, "none") /\ s.sent = r.sent /\ s.mode = "done" /\ s.streaming = r.streaming
    BY <1>4, <1>6, <2>0, FailKeeps
  <2>2. Client!FinishWithCancel(c, s)
    BY <1>6
  <2> HIDE DEF s
  <2>3. Keeps(calls[c], s, "none") /\ s.sent = calls[c].sent /\ s.mode # "idle"
    BY <1>2, <1>4, <2>1 DEF Keeps
  <2> QED BY <2>2, <2>3, CancelMoves
<1> QED BY <1>3, <1>5, <1>6

LEMMA LinkClosesMoves ==
  ASSUME ClientOK, calls' = Client!CloseAll(calls)
  PROVE  /\ calls' = [i \in Ids |-> calls'[i]]
         /\ \A i \in Ids : Keeps(calls[i], calls'[i], "none") /\ calls'[i].sent = calls[i].sent
<1>1. ASSUME NEW i \in Ids
      PROVE  Keeps(calls[i], calls'[i], "none") /\ calls'[i].sent = calls[i].sent
  <2>1. CallOK(calls[i])
    BY DEF ClientOK
  <2>2. calls'[i] = IF calls[i].mode \in Client!Live THEN Client!Fail(calls[i], "rejected")
                    ELSE calls[i]
    BY DEF Client!CloseAll
  <2>3. CASE calls[i].mode \in Client!Live
    <3>1. calls[i].mode \notin {"idle", "awaiting"}
      BY <2>3 DEF Client!Live
    <3>2. /\ Keeps(calls[i], Client!Fail(calls[i], "rejected"), "none")
          /\ Client!Fail(calls[i], "rejected").sent = calls[i].sent
      BY <2>1, <3>1, FailKeeps
    <3> QED BY <2>2, <2>3, <3>2
  <2>4. CASE calls[i].mode \notin Client!Live
    BY <2>1, <2>2, <2>4, KeepsSame
  <2> QED BY <2>3, <2>4
<1> QED BY <1>1 DEF Client!CloseAll

\* A frame the client receives can complete an output only as a done.
LEMMA FirstKeeps ==
  ASSUME NEW r, CallOK(r), r.mode = "pending-first", NEW kind \in Client!FrameKinds
  PROVE  /\ Keeps(r, Client!First(r, kind), kind)
         /\ Client!First(r, kind).sent = r.sent
<1> DEFINE f == Client!Finish(r)
           e == Client!Fail(r, "rejected")
           s == Client!First(r, kind)
<1>1. /\ f.mode = "done" /\ f.sent = r.sent /\ f.queue = r.queue /\ f.streaming = r.streaming
      /\ DOMAIN f = CallFields /\ Keeps(r, f, kind) /\ CallOK(f)
  BY FinishKeeps DEF Keeps
<1>2. /\ e.mode = "done" /\ e.sent = r.sent /\ e.streaming = r.streaming
      /\ r.input = "finished" => e.input = "finished"
      /\ DOMAIN e = CallFields /\ ~WholeOutput([e EXCEPT !.answered = TRUE])
      /\ Keeps(r, e, kind) /\ CallOK(e)
  <2>1. r.mode \notin {"idle", "awaiting"} /\ r.mode # "done" /\ "rejected" # "iterator"
    OBVIOUS
  <2>2. /\ e.mode = "done" /\ e.sent = r.sent /\ e.streaming = r.streaming
        /\ r.input = "finished" => e.input = "finished"
        /\ DOMAIN e = CallFields /\ ~WholeOutput([e EXCEPT !.answered = TRUE])
        /\ Keeps(r, e, kind)
    BY <2>1, FailKeeps
  <2> HIDE DEF e
  <2> QED BY <2>2 DEF Keeps
<1>3. CASE kind = "result ok"
  <2>1. s = [f EXCEPT !.promise = "value", !.answered = TRUE]
    BY <1>3 DEF Client!First
  <2> HIDE DEF f, s
  <2>2. /\ DOMAIN s = CallFields /\ s.mode = "done" /\ s.sent = r.sent
        /\ s.streaming = r.streaming /\ s.queue = r.queue /\ s.answered = TRUE
        /\ s.input = f.input /\ s.pump = f.pump /\ s.sendingInput = f.sendingInput
        /\ s.promise = "value"
    BY <1>1, <2>1 DEF CallFields
  <2>3. CallOK(s) /\ ~WholeOutput(s)
    BY <1>1, <2>2 DEF CallOK, WholeOutput
  <2> QED BY <1>1, <2>2, <2>3 DEF Keeps, s
<1>4. CASE kind = "result error"
  <2>1. s = [e EXCEPT !.answered = TRUE]
    BY <1>4 DEF Client!First
  <2> HIDE DEF e, s
  <2>2. /\ DOMAIN s = CallFields /\ s.mode = "done" /\ s.sent = r.sent
        /\ s.streaming = r.streaming /\ s.queue = e.queue /\ s.answered = TRUE
        /\ s.input = e.input /\ s.pump = e.pump /\ s.sendingInput = e.sendingInput
    BY <1>2, <2>1 DEF CallFields
  <2>3. CallOK(s) /\ ~WholeOutput(s)
    BY <1>2, <2>1, <2>2 DEF CallOK
  <2> QED BY <1>2, <2>2, <2>3 DEF Keeps, s
<1>5. CASE kind = "item"
  <2> DEFINE q == Client!Push(r.queue, Client!Item)
  <2>1. s = [r EXCEPT !.mode = "streaming-out", !.promise = "iterator", !.queue = q]
    BY <1>5 DEF Client!First
  <2>2. DOMAIN q = QueueFields /\ q.closed = r.queue.closed
    <3>1. DOMAIN r.queue = QueueFields /\ "ended" # "open"
      BY DEF CallOK
    <3> QED BY <3>1, ClientQueues
  <2> HIDE DEF q, s
  <2>3. /\ DOMAIN s = CallFields /\ s.mode = "streaming-out" /\ s.sent = r.sent
        /\ s.streaming = r.streaming /\ s.queue = q /\ s.answered = r.answered
        /\ s.input = r.input /\ s.pump = r.pump /\ s.sendingInput = r.sendingInput
    BY <2>1 DEF CallOK, CallFields
  <2>4. CallOK(s) /\ ~WholeOutput(s)
    BY <2>2, <2>3 DEF CallOK, WholeOutput
  <2> QED BY <2>3, <2>4 DEF Keeps, s
<1>6. CASE kind = "done"
  <2> DEFINE q == Client!Close(r.queue, "ended")
             t == [r EXCEPT !.queue = q, !.promise = "iterator"]
             g == Client!Finish(t)
  <2>1. s = [g EXCEPT !.answered = TRUE]
    BY <1>6 DEF Client!First
  <2>2. DOMAIN q = QueueFields
    <3>1. DOMAIN r.queue = QueueFields /\ "ended" # "open"
      BY DEF CallOK
    <3> QED BY <3>1, ClientQueues
  <2> HIDE DEF q
  <2>3. /\ DOMAIN t = CallFields /\ t.mode = r.mode /\ t.sent = r.sent
        /\ t.streaming = r.streaming /\ t.queue = q /\ t.answered = r.answered
        /\ t.input = r.input /\ t.pump = r.pump /\ t.sendingInput = r.sendingInput
    BY DEF CallOK, CallFields
  <2> HIDE DEF t
  <2>4. /\ DOMAIN g = CallFields /\ g.mode = "done" /\ g.sent = t.sent
        /\ g.answered = t.answered /\ g.queue = t.queue /\ g.pump = t.pump
        /\ g.streaming = t.streaming /\ g.sendingInput = FALSE
        /\ g.input = (IF t.input = "open" THEN "returned" ELSE t.input)
    BY <2>3 DEF CallFields, Client!Finish
  <2> HIDE DEF g, s
  <2>5. /\ DOMAIN s = CallFields /\ s.mode = "done" /\ s.sent = r.sent
        /\ s.streaming = r.streaming /\ s.queue = q /\ s.answered = TRUE
        /\ s.input = g.input /\ s.pump = g.pump /\ s.sendingInput = FALSE
    BY <2>1, <2>3, <2>4 DEF CallFields
  <2>6. CallOK(s)
    BY <2>2, <2>3, <2>4, <2>5 DEF CallOK
  <2> QED BY <1>6, <2>3, <2>4, <2>5, <2>6 DEF Keeps, s
<1>7. CASE kind = "other"
  <2>1. s = e
    BY <1>7 DEF Client!First
  <2> QED BY <1>2, <2>1
<1> QED BY <1>3, <1>4, <1>5, <1>6, <1>7 DEF Client!FrameKinds

LEMMA LaterKeeps ==
  ASSUME NEW r, CallOK(r), r.mode = "streaming-out", NEW kind \in Client!FrameKinds
  PROVE  /\ Keeps(r, Client!Later(r, kind), kind)
         /\ Client!Later(r, kind).sent = r.sent
<1> DEFINE f == Client!Finish(r)
           e == Client!Fail(r, "rejected")
           s == Client!Later(r, kind)
<1>1. /\ f.mode = "done" /\ f.sent = r.sent /\ f.queue = r.queue /\ f.streaming = r.streaming
      /\ DOMAIN f = CallFields /\ Keeps(r, f, kind) /\ CallOK(f)
  BY FinishKeeps DEF Keeps
<1>2. /\ e.mode = "done" /\ e.sent = r.sent /\ e.streaming = r.streaming
      /\ r.input = "finished" => e.input = "finished"
      /\ DOMAIN e = CallFields /\ ~WholeOutput([e EXCEPT !.answered = TRUE])
      /\ Keeps(r, e, kind) /\ CallOK(e)
  <2>1. r.mode \notin {"idle", "awaiting"} /\ r.mode # "done" /\ "rejected" # "iterator"
    OBVIOUS
  <2>2. /\ e.mode = "done" /\ e.sent = r.sent /\ e.streaming = r.streaming
        /\ r.input = "finished" => e.input = "finished"
        /\ DOMAIN e = CallFields /\ ~WholeOutput([e EXCEPT !.answered = TRUE])
        /\ Keeps(r, e, kind)
    BY <2>1, FailKeeps
  <2> HIDE DEF e
  <2> QED BY <2>2 DEF Keeps
<1>3. CASE kind = "item"
  <2> DEFINE q == Client!Push(r.queue, Client!Item)
  <2>1. s = [r EXCEPT !.queue = q]
    BY <1>3 DEF Client!Later
  <2>2. DOMAIN q = QueueFields /\ q.closed = r.queue.closed
    <3>1. DOMAIN r.queue = QueueFields /\ "ended" # "open"
      BY DEF CallOK
    <3> QED BY <3>1, ClientQueues
  <2> HIDE DEF q, s
  <2>3. /\ DOMAIN s = CallFields /\ s.mode = "streaming-out" /\ s.sent = r.sent
        /\ s.streaming = r.streaming /\ s.queue = q /\ s.answered = r.answered
        /\ s.input = r.input /\ s.pump = r.pump /\ s.sendingInput = r.sendingInput
    BY <2>1 DEF CallOK, CallFields
  <2>4. CallOK(s) /\ ~WholeOutput(s)
    BY <2>2, <2>3 DEF CallOK, WholeOutput
  <2> QED BY <2>3, <2>4 DEF Keeps, s
<1>4. CASE kind = "done"
  <2> DEFINE q == Client!Close(r.queue, "ended")
  <2>1. s = [f EXCEPT !.queue = q, !.answered = TRUE]
    BY <1>1, <1>4 DEF Client!Later
  <2>2. DOMAIN q = QueueFields
    <3>1. DOMAIN r.queue = QueueFields /\ "ended" # "open"
      BY DEF CallOK
    <3> QED BY <3>1, ClientQueues
  <2> HIDE DEF q, s, f
  <2>3. /\ DOMAIN s = CallFields /\ s.mode = "done" /\ s.sent = r.sent
        /\ s.streaming = r.streaming /\ s.queue = q /\ s.answered = TRUE
        /\ s.input = f.input /\ s.pump = f.pump /\ s.sendingInput = f.sendingInput
    BY <1>1, <2>1 DEF CallFields
  <2>4. CallOK(s)
    BY <1>1, <2>2, <2>3 DEF CallOK
  <2> QED BY <1>1, <1>4, <2>3, <2>4 DEF Keeps, s
<1>5. CASE kind = "result error"
  <2>1. s = [e EXCEPT !.answered = TRUE]
    BY <1>5 DEF Client!Later
  <2> HIDE DEF e, s
  <2>2. /\ DOMAIN s = CallFields /\ s.mode = "done" /\ s.sent = r.sent
        /\ s.streaming = r.streaming /\ s.queue = e.queue /\ s.answered = TRUE
        /\ s.input = e.input /\ s.pump = e.pump /\ s.sendingInput = e.sendingInput
    BY <1>2, <2>1 DEF CallFields
  <2>3. CallOK(s) /\ ~WholeOutput(s)
    BY <1>2, <2>1, <2>2 DEF CallOK
  <2> QED BY <1>2, <2>2, <2>3 DEF Keeps, s
<1>6. CASE kind \in {"result ok", "other"}
  <2>1. s = r
    BY <1>6 DEF Client!Later
  <2> QED BY <2>1, KeepsSame
<1> QED BY <1>3, <1>4, <1>5, <1>6 DEF Client!FrameKinds

LEMMA RecvFrameMoves ==
  ASSUME ClientOK, NEW c \in Ids, NEW kind \in Client!FrameKinds, Client!RecvFrame(c, kind)
  PROVE  ClientMoves(c, kind)
<1>1. CallOK(calls[c]) /\ calls[c].mode \in {"pending-first", "streaming-out"}
  BY DEF ClientOK, Client!RecvFrame, Client!Live
<1> DEFINE r == IF calls[c].mode = "pending-first" THEN Client!First(calls[c], kind)
                ELSE Client!Later(calls[c], kind)
<1>2. calls' = Client!Put(c, r)
  BY DEF Client!RecvFrame, Client!Commit
<1>3. CASE calls[c].mode = "pending-first"
  <2>1. r = Client!First(calls[c], kind)
    BY <1>3
  <2>2. Keeps(calls[c], r, kind) /\ r.sent = calls[c].sent
    BY <1>1, <1>3, <2>1, FirstKeeps
  <2> HIDE DEF r
  <2> QED BY <1>2, <2>2, PutMoves DEF Puts
<1>4. CASE calls[c].mode = "streaming-out"
  <2>1. r = Client!Later(calls[c], kind)
    BY <1>4
  <2>2. Keeps(calls[c], r, kind) /\ r.sent = calls[c].sent
    BY <1>1, <1>4, <2>1, LaterKeeps
  <2> HIDE DEF r
  <2> QED BY <1>2, <2>2, PutMoves DEF Puts
<1> QED BY <1>1, <1>3, <1>4

LEMMA ConsumerNextMoves ==
  ASSUME ClientOK, NEW c \in Ids, Client!ConsumerNext(c)
  PROVE  ClientMoves(c, "none")
<1> DEFINE q == Client!Pull(calls[c].queue)
           r == [calls[c] EXCEPT !.queue = q]
<1>1. CallOK(calls[c]) /\ calls' = Client!Put(c, r)
  BY DEF ClientOK, Client!ConsumerNext, Client!Commit
<1>2. DOMAIN q = QueueFields /\ q.closed = calls[c].queue.closed
  <2>1. DOMAIN calls[c].queue = QueueFields /\ "ended" # "open"
    BY <1>1 DEF CallOK
  <2> QED BY <2>1, ClientQueues
<1> HIDE DEF q
<1>3. /\ DOMAIN r = CallFields /\ r.sent = calls[c].sent /\ r.mode = calls[c].mode
      /\ r.promise = calls[c].promise /\ r.sendingInput = calls[c].sendingInput
      /\ r.input = calls[c].input /\ r.pump = calls[c].pump
      /\ r.queue = q /\ r.answered = calls[c].answered
      /\ r.streaming = calls[c].streaming /\ r.armed = calls[c].armed
  BY <1>1 DEF CallOK, CallFields
<1> HIDE DEF r
<1>4. CallOK(r)
  BY <1>1, <1>2, <1>3 DEF CallOK
<1>5. Keeps(calls[c], r, "none") /\ Puts(calls[c], r)
  BY <1>2, <1>3, <1>4 DEF Keeps, Puts, WholeOutput
<1> QED BY <1>1, <1>5, PutMoves

\* The end a consumer asks for is not one the server answered.
LEMMA ConsumerStopsMoves ==
  ASSUME ClientOK, NEW c \in Ids, NEW how \in {"ended", "failed"}, Client!ConsumerStops(c, how)
  PROVE  ClientMoves(c, "none")
<1> DEFINE f == Client!Finish(calls[c])
           q == Client!Close(f.queue, how)
           r == [f EXCEPT !.queue = q]
<1>1. CallOK(calls[c]) /\ calls[c].mode # "done" /\ ~calls[c].answered
  BY DEF ClientOK, CallOK, Client!ConsumerStops
<1>2. Client!FinishWithCancel(c, r)
  BY DEF Client!ConsumerStops
<1>3. /\ f.mode = "done" /\ f.sent = calls[c].sent /\ f.queue = calls[c].queue
      /\ f.answered = calls[c].answered /\ f.streaming = calls[c].streaming
      /\ DOMAIN f = CallFields /\ CallOK(f)
      /\ calls[c].input = "finished" => f.input = "finished"
  BY <1>1, FinishKeeps DEF Keeps
<1> HIDE DEF f
<1>4. DOMAIN q = QueueFields
  <2>1. DOMAIN f.queue = QueueFields /\ how # "open"
    BY <1>3 DEF CallOK
  <2> QED BY <2>1, ClientQueues
<1> HIDE DEF q
<1>5. /\ DOMAIN r = CallFields /\ r.sent = f.sent /\ r.mode = "done"
      /\ r.sendingInput = f.sendingInput /\ r.input = f.input /\ r.pump = f.pump
      /\ r.queue = q /\ r.answered = f.answered /\ r.streaming = f.streaming
  BY <1>3 DEF CallFields
<1> HIDE DEF r
<1>6. CallOK(r) /\ ~WholeOutput(r)
  BY <1>1, <1>3, <1>4, <1>5 DEF CallOK, WholeOutput
<1>7. Keeps(calls[c], r, "none") /\ r.sent = calls[c].sent /\ r.mode # "idle"
  BY <1>3, <1>5, <1>6 DEF Keeps
<1> QED BY <1>2, <1>7, CancelMoves

LEMMA DrainSettlesMoves ==
  ASSUME ClientOK, NEW c \in Ids, NEW result, Client!DrainSettles(c, result)
  PROVE  ClientMoves(c, "none")
<1> DEFINE r == [calls[c] EXCEPT !.drain = result]
<1>1. CallOK(calls[c]) /\ calls' = Client!Put(c, r)
  BY DEF ClientOK, Client!DrainSettles, Client!Commit
<1>2. /\ DOMAIN r = CallFields /\ r.sent = calls[c].sent /\ r.mode = calls[c].mode
      /\ r.promise = calls[c].promise /\ r.sendingInput = calls[c].sendingInput
      /\ r.input = calls[c].input /\ r.pump = calls[c].pump
      /\ r.queue = calls[c].queue /\ r.answered = calls[c].answered
      /\ r.streaming = calls[c].streaming /\ r.armed = calls[c].armed
  BY <1>1 DEF CallOK, CallFields
<1> HIDE DEF r
<1>3. CallOK(r)
  BY <1>1, <1>2 DEF CallOK
<1>4. Keeps(calls[c], r, "none") /\ Puts(calls[c], r)
  BY <1>2, <1>3 DEF Keeps, Puts, WholeOutput
<1> QED BY <1>1, <1>4, PutMoves

\* The pump of a call that goes on to wait, to pull or to its end.
LEMMA PumpKeeps ==
  ASSUME NEW r, CallOK(r), r.mode \notin {"idle", "awaiting"}, NEW at,
         at = "ended" \/ r.input # "finished"
  PROVE  LET s == [r EXCEPT !.pump = at]
         IN  /\ Keeps(r, s, "none") /\ s.sent = r.sent /\ s.mode = r.mode
             /\ DOMAIN s = CallFields /\ s.input = r.input
             /\ s.streaming = r.streaming
<1> DEFINE s == [r EXCEPT !.pump = at]
<1>1. /\ DOMAIN s = CallFields /\ s.sent = r.sent /\ s.mode = r.mode
      /\ s.promise = r.promise /\ s.sendingInput = r.sendingInput
      /\ s.input = r.input /\ s.pump = at /\ s.queue = r.queue
      /\ s.answered = r.answered /\ s.streaming = r.streaming
  BY DEF CallOK, CallFields
<1> HIDE DEF s
<1>2. CallOK(s)
  BY <1>1 DEF CallOK
<1>3. Keeps(r, s, "none")
  BY <1>1, <1>2 DEF Keeps, WholeOutput
<1> QED BY <1>1, <1>3 DEF s

\* The same with the wait for the duplex begun.
LEMMA DrainKeeps ==
  ASSUME NEW r, CallOK(r), r.mode \notin {"idle", "awaiting"}, r.input # "finished"
  PROVE  LET s == [r EXCEPT !.pump = "draining", !.drain = "pending"]
         IN  Keeps(r, s, "none") /\ s.sent = r.sent /\ s.mode = r.mode
<1> DEFINE s == [r EXCEPT !.pump = "draining", !.drain = "pending"]
<1>1. /\ DOMAIN s = CallFields /\ s.sent = r.sent /\ s.mode = r.mode
      /\ s.promise = r.promise /\ s.sendingInput = r.sendingInput
      /\ s.input = r.input /\ s.queue = r.queue
      /\ s.answered = r.answered /\ s.streaming = r.streaming
  BY DEF CallOK, CallFields
<1> HIDE DEF s
<1>2. CallOK(s)
  BY <1>1 DEF CallOK
<1>3. Keeps(r, s, "none")
  BY <1>1, <1>2 DEF Keeps, WholeOutput
<1> QED BY <1>1, <1>3 DEF s

\* The pump fails its call, sends a cancel and ends.
LEMMA PumpFailMoves ==
  ASSUME ClientOK, NEW c \in Ids, calls[c].pump \notin {"none", "ended"},
         Client!FinishWithCancel(c, Client!PumpEnded(Client!Fail(calls[c], "rejected")))
  PROVE  ClientMoves(c, "none")
<1>1. CallOK(calls[c]) /\ calls[c].mode \notin {"idle", "awaiting"}
  BY DEF ClientOK, CallOK
<1> DEFINE s == Client!Fail(calls[c], "rejected")
           t == Client!PumpEnded(s)
<1>2. Keeps(calls[c], s, "none") /\ s.sent = calls[c].sent /\ s.mode = "done"
  BY <1>1, FailKeeps
<1>3. Client!FinishWithCancel(c, t)
  OBVIOUS
<1>4. t = [s EXCEPT !.pump = "ended"]
  BY DEF Client!PumpEnded
<1> HIDE DEF s, t
<1>5. CallOK(s) /\ s.mode \notin {"idle", "awaiting"}
  BY <1>2 DEF Keeps
<1>6. Keeps(s, t, "none") /\ t.sent = s.sent /\ t.mode = s.mode
  BY <1>4, <1>5, PumpKeeps
<1>7. Keeps(calls[c], t, "none") /\ t.sent = calls[c].sent /\ t.mode # "idle"
  BY <1>1, <1>2, <1>6 DEF Keeps
<1> QED BY <1>3, <1>7, CancelMoves

LEMMA PumpYieldsMoves ==
  ASSUME ClientOK, NEW c \in Ids, Client!PumpYields(c)
  PROVE  ClientMoves(c, "none")
<1> DEFINE r == calls[c]
           e == [r EXCEPT !.pump = "ended"]
<1>1. CallOK(r) /\ r.mode \notin {"idle", "awaiting"} /\ r.input # "finished"
      /\ r.pump \notin {"none", "ended"}
  BY DEF ClientOK, CallOK, Client!PumpYields, Client!Pumps
<1>2. Keeps(r, e, "none") /\ e.sent = r.sent /\ e.mode = r.mode
  BY <1>1, PumpKeeps
<1>3. Puts(r, e)
  BY <1>2 DEF Puts
<1>4. CASE calls' = Client!Put(c, e) \/ calls' = Client!CloseAll(Client!Put(c, e))
  <2> HIDE DEF e
  <2> QED BY <1>2, <1>3, <1>4, PutMoves
<1>5. ASSUME NEW how, calls' = Client!Put(c, Client!Taken(r, "in-item", how))
      PROVE  ClientMoves(c, "none")
  <2> DEFINE t == Client!Taken(r, "in-item", how)
  <2>1. Keeps(r, r, "none")
    BY <1>1, KeepsSame
  <2>2. "in-item" \in ClientFrames /\ "in-item" # "in-done" /\ r.mode # "idle"
    BY <1>1 DEF ClientFrames
  <2>3. Keeps(r, t, "none") /\ Puts(r, t)
    BY <2>1, <2>2, TakenMoves
  <2> HIDE DEF t
  <2> QED BY <1>5, <2>3, PutMoves DEF t
<1>6. ASSUME NEW how, calls' = Client!Put(c, [Client!Taken(r, "in-item", how)
                                              EXCEPT !.pump = "draining", !.drain = "pending"])
      PROVE  ClientMoves(c, "none")
  <2> DEFINE t == Client!Taken(r, "in-item", how)
             d == [t EXCEPT !.pump = "draining", !.drain = "pending"]
  <2>1. Keeps(r, r, "none")
    BY <1>1, KeepsSame
  <2>2. "in-item" \in ClientFrames /\ "in-item" # "in-done" /\ r.mode # "idle"
    BY <1>1 DEF ClientFrames
  <2>3. Keeps(r, t, "none") /\ Puts(r, t)
    BY <2>1, <2>2, TakenMoves
  <2>4. t.mode = r.mode /\ t.input = r.input
    BY <1>1 DEF Client!Taken, CallOK, CallFields
  <2> HIDE DEF t
  <2>5. CallOK(t) /\ t.mode \notin {"idle", "awaiting"} /\ t.input # "finished"
    BY <1>1, <2>3, <2>4 DEF Keeps
  <2>6. Keeps(t, d, "none") /\ d.sent = t.sent /\ d.mode = t.mode
    BY <2>5, DrainKeeps
  <2>7. calls' = Client!Put(c, d)
    BY <1>6 DEF t
  <2> HIDE DEF d
  <2>8. Keeps(r, d, "none")
    BY <1>1, <2>3, <2>4, <2>6 DEF Keeps
  <2>9. Puts(r, d)
    BY <2>3, <2>4, <2>6, <1>1 DEF Puts, Keeps
  <2> QED BY <2>7, <2>8, <2>9, PutMoves
<1>7. CASE Client!FinishWithCancel(c, Client!PumpEnded(Client!Fail(r, "rejected")))
  BY <1>1, <1>7, PumpFailMoves
<1>8. \/ calls' = Client!Put(c, e) \/ calls' = Client!CloseAll(Client!Put(c, e))
      \/ \E how : calls' = Client!Put(c, Client!Taken(r, "in-item", how))
      \/ \E how : calls' = Client!Put(c, [Client!Taken(r, "in-item", how)
                                          EXCEPT !.pump = "draining", !.drain = "pending"])
      \/ Client!FinishWithCancel(c, Client!PumpEnded(Client!Fail(r, "rejected")))
  BY Zenon DEF Client!PumpYields, Client!Commit, Client!PumpEnded
<1> QED BY <1>4, <1>5, <1>6, <1>7, <1>8

\* An in-done goes out only for an input that finished.
LEMMA PumpEndsMoves ==
  ASSUME ClientOK, NEW c \in Ids, Client!PumpEnds(c)
  PROVE  ClientMoves(c, "none")
<1> DEFINE r == calls[c]
           i == IF r.input = "open" THEN "finished" ELSE r.input
           e == [r EXCEPT !.input = i, !.pump = "ended"]
           d == [e EXCEPT !.sendingInput = FALSE]
<1>1. CallOK(r) /\ r.mode \notin {"idle", "awaiting"} /\ r.input # "finished"
      /\ r.pump \notin {"none", "ended"}
  BY DEF ClientOK, CallOK, Client!PumpEnds, Client!Pumps
<1>2. Client!PumpEnded([r EXCEPT !.input = IF @ = "open" THEN "finished" ELSE @]) = e
  BY DEF Client!PumpEnded
<1>3. /\ DOMAIN e = CallFields /\ e.sent = r.sent /\ e.mode = r.mode
      /\ e.promise = r.promise /\ e.sendingInput = r.sendingInput
      /\ e.input = i /\ e.pump = "ended" /\ e.queue = r.queue
      /\ e.answered = r.answered /\ e.streaming = r.streaming
  BY <1>1 DEF CallOK, CallFields
<1> HIDE DEF i
<1>4. CASE Client!Stopped(r)
  <2>1. calls' = Client!Put(c, e)
    BY <1>2, <1>4 DEF Client!PumpEnds, Client!Commit
  <2> HIDE DEF e
  <2>2. CallOK(e)
    BY <1>1, <1>3, <1>4 DEF CallOK, Client!Stopped, i
  <2>3. Keeps(r, e, "none") /\ Puts(r, e)
    BY <1>1, <1>3, <2>2 DEF Keeps, Puts, WholeOutput
  <2> QED BY <2>1, <2>3, PutMoves
<1>5. CASE ~Client!Stopped(r)
  <2>1. PICK how : LET done == Client!Taken(d, "in-done", how)
                   IN  Client!Commit(IF Client!Closes(how)
                                     THEN Client!CloseAll(Client!Put(c, done))
                                     ELSE Client!Put(c, done), Client!Closes(how))
    BY <1>2, <1>5 DEF Client!PumpEnds
  <2> DEFINE t == Client!Taken(d, "in-done", how)
  <2>2. calls' = Client!Put(c, t) \/ calls' = Client!CloseAll(Client!Put(c, t))
    BY <2>1 DEF Client!Commit
  <2>3. i = "finished"
    BY <1>1, <1>5 DEF Client!Stopped, CallOK, i
  <2> HIDE DEF e
  <2>4. /\ DOMAIN d = CallFields /\ d.sent = r.sent /\ d.mode = r.mode
        /\ d.promise = r.promise /\ d.sendingInput = FALSE
        /\ d.input = i /\ d.pump = "ended" /\ d.queue = r.queue
        /\ d.answered = r.answered /\ d.streaming = r.streaming
    BY <1>3 DEF CallFields
  <2> HIDE DEF d
  <2>5. CallOK(d)
    BY <1>1, <2>3, <2>4 DEF CallOK
  <2>6. Keeps(r, d, "none")
    BY <1>1, <2>4, <2>5 DEF Keeps, WholeOutput
  <2>7. "in-done" \in ClientFrames /\ d.mode # "idle" /\ d.sent = r.sent /\ d.input = "finished"
    BY <1>1, <2>3, <2>4 DEF ClientFrames
  <2>8. Keeps(r, t, "none") /\ Puts(r, t)
    BY <2>6, <2>7, TakenMoves
  <2> HIDE DEF t
  <2> QED BY <2>2, <2>8, PutMoves
<1> QED BY <1>4, <1>5

LEMMA PumpThrowsMoves ==
  ASSUME ClientOK, NEW c \in Ids, Client!PumpThrows(c)
  PROVE  ClientMoves(c, "none")
<1> DEFINE r == calls[c]
<1>1. CallOK(r) /\ r.mode \notin {"idle", "awaiting"} /\ r.input # "finished"
      /\ r.pump \notin {"none", "ended"}
  BY DEF ClientOK, CallOK, Client!PumpThrows, Client!Pumps
<1>2. CASE r.mode = "done"
  <2> DEFINE i == IF r.input = "open" THEN "threw" ELSE r.input
             e == [r EXCEPT !.pump = "ended", !.input = i]
  <2>1. Client!PumpEnded(r) = [r EXCEPT !.pump = "ended"]
        /\ Client!PumpEnded(r).input = r.input
    BY <1>1 DEF Client!PumpEnded, CallOK, CallFields
  <2>2. calls' = Client!Put(c, e)
    BY <1>2, <2>1 DEF Client!PumpThrows, Client!Commit
  <2>3. /\ DOMAIN e = CallFields /\ e.sent = r.sent /\ e.mode = r.mode
        /\ e.promise = r.promise /\ e.sendingInput = r.sendingInput
        /\ e.input = i /\ e.pump = "ended" /\ e.queue = r.queue
        /\ e.answered = r.answered /\ e.streaming = r.streaming
    BY <1>1 DEF CallOK, CallFields
  <2> HIDE DEF e
  <2>4. CallOK(e)
    BY <1>1, <1>2, <2>3 DEF CallOK
  <2>5. Keeps(r, e, "none") /\ Puts(r, e)
    BY <1>1, <2>3, <2>4 DEF Keeps, Puts, WholeOutput
  <2> QED BY <2>2, <2>5, PutMoves
<1>3. CASE r.mode # "done"
  <2> DEFINE s == Client!Fail(r, "rejected")
             e == [s EXCEPT !.pump = "ended", !.input = "threw"]
  <2>1. [Client!PumpEnded(s) EXCEPT !.input = "threw"] = e
    BY DEF Client!PumpEnded
  <2>2. Client!FinishWithCancel(c, e)
    BY <1>3, <2>1 DEF Client!PumpThrows
  <2>3. Keeps(r, s, "none") /\ s.sent = r.sent /\ s.mode = "done" /\ s.streaming = r.streaming
        /\ DOMAIN s = CallFields
    BY <1>1, FailKeeps
  <2> HIDE DEF s
  <2>4. /\ DOMAIN e = CallFields /\ e.sent = s.sent /\ e.mode = s.mode
        /\ e.promise = s.promise /\ e.sendingInput = s.sendingInput
        /\ e.input = "threw" /\ e.pump = "ended" /\ e.queue = s.queue
        /\ e.answered = s.answered /\ e.streaming = s.streaming
    BY <2>3 DEF CallFields
  <2> HIDE DEF e
  <2>5. CallOK(e)
    BY <2>3, <2>4 DEF CallOK, Keeps
  <2>6. Keeps(r, e, "none") /\ e.sent = r.sent /\ e.mode # "idle"
    BY <1>1, <2>3, <2>4, <2>5 DEF Keeps, WholeOutput
  <2> QED BY <2>2, <2>6, CancelMoves
<1> QED BY <1>2, <1>3

LEMMA AfterDrainMoves ==
  ASSUME ClientOK, NEW c \in Ids, Client!AfterDrain(c)
  PROVE  ClientMoves(c, "none")
<1> DEFINE r == calls[c]
           at == IF r.drain = "drained" /\ r.sendingInput THEN "pulling" ELSE "ended"
           s == [r EXCEPT !.pump = at]
<1>1. CallOK(r) /\ r.mode \notin {"idle", "awaiting"} /\ r.input # "finished"
      /\ r.pump \notin {"none", "ended"}
  BY DEF ClientOK, CallOK, Client!AfterDrain, Client!Pumps
<1>2. CASE Client!FinishWithCancel(c, Client!PumpEnded(Client!Fail(r, "rejected")))
  BY <1>1, <1>2, PumpFailMoves
<1>3. CASE calls' = Client!Put(c, s)
  <2> HIDE DEF at
  <2>1. Keeps(r, s, "none") /\ s.sent = r.sent
    BY <1>1, PumpKeeps
  <2> HIDE DEF s
  <2> QED BY <1>3, <2>1, PutMoves DEF Puts
<1> QED BY <1>2, <1>3 DEF Client!AfterDrain, Client!Commit

-----------------------------------------------------------------------------
(* One call of the server *)

DoneSent(i) == frames[i] # <<>> /\ frames[i][Len(frames[i])] = "done"

Iterators == {"none", "open", "finished", "returned"}

\* A call that was not cancelled holds its iterator while it streams, and the
\* done is the last thing it does, after its generator finished.
ServerOK ==
  /\ inflight = [i \in Ids |-> inflight[i]]
  /\ \A i \in Ids : inflight[i] \in {i, NoCall}
  /\ phase \in [Objects -> Server!Phases] /\ cancelled \in [Objects -> BOOLEAN]
  /\ iterator \in [Objects -> Iterators] /\ frames \in [Objects -> Seq(Server!Kinds)]
  /\ queue = [i \in Objects |-> queue[i]]
  /\ \A i \in Objects : DOMAIN queue[i] = QueueFields
  /\ \A i \in Ids :
       /\ phase[i] \in {"unused", "running"} => iterator[i] = "none"
       /\ phase[i] \in {"pulling", "draining"} /\ ~cancelled[i] => iterator[i] = "open"
       /\ DoneSent(i) => phase[i] = "ended" /\ iterator[i] = "finished"

\* The step brings no call nearer to its whole input.
InputStays(i) ==
  /\ phase'[i] # "unused" => phase[i] # "unused"
  /\ phase'[i] \in Server!Active /\ ~cancelled'[i] =>
       /\ phase[i] \in Server!Active /\ ~cancelled[i]
       /\ queue'[i].closed = "ended" => queue[i].closed = "ended"

\* The step sends at most a frame of call c.
SendsOne(c) ==
  /\ \A i \in Ids \ {c} : frames'[i] = frames[i]
  /\ frames'[c] = frames[c] \/ \E k \in Server!Kinds : frames'[c] = Append(frames[c], k)
  /\ \A i \in Ids : DoneSent(i) => DoneSent(i)'

ServerMoves(c) == ServerOK' /\ SendsOne(c) /\ \A i \in Ids : InputStays(i)

-----------------------------------------------------------------------------
(* What a send of the server can come to *)

LEMMA ResultErrOut ==
  ASSUME NEW sent \in Server!ResultErr
  PROVE  sent.out \in {<<>>, <<"error">>} /\ ~sent.ok /\ ~sent.throws
<1>1. \/ sent = [Server!Nothing EXCEPT !.out = <<"error">>, !.settles = TRUE]
      \/ sent = Server!Closed(FALSE)
  BY DEF Server!ResultErr
<1>2. CASE sent = [Server!Nothing EXCEPT !.out = <<"error">>, !.settles = TRUE]
  <2>1. sent = [out |-> <<"error">>, closes |-> FALSE, settles |-> TRUE,
                ok |-> FALSE, drained |-> FALSE, throws |-> FALSE]
    BY <1>2 DEF Server!Nothing
  <2> QED BY <2>1
<1>3. CASE sent = Server!Closed(FALSE)
  BY <1>3 DEF Server!Closed, Server!Nothing
<1> QED BY <1>1, <1>2, <1>3

\* A cancelled call sends nothing, another one its frame or an error for it.
LEMMA OutboundOut ==
  ASSUME NEW c, NEW kind, NEW sent \in Server!Outbound(c, kind)
  PROVE  /\ sent.out \in {<<>>, <<"error">>, <<kind>>}
         /\ cancelled[c] => sent.out = <<>> /\ ~sent.ok
<1>1. CASE sent = Server!Nothing /\ (cancelled[c] \/ ~open)
  BY <1>1 DEF Server!Nothing
<1>2. ASSUME ~cancelled[c], NEW how, sent = Server!Handed(kind, how)
      PROVE  sent.out = <<kind>>
  BY <1>2 DEF Server!Handed, Server!Nothing
<1>3. ASSUME NEW ok, sent = Server!Closed(ok)
      PROVE  sent.out = <<>>
  BY <1>3 DEF Server!Closed, Server!Nothing
<1>4. CASE sent = [Server!Nothing EXCEPT !.throws = TRUE]
  BY <1>4 DEF Server!Nothing
<1>5. CASE ~cancelled[c] /\ sent \in Server!ResultErr
  BY <1>5, ResultErrOut
<1>6. CASE ~(cancelled[c] \/ ~open)
  <2>1. \/ \E how : sent = Server!Handed(kind, how)
        \/ \E ok : sent = Server!Closed(ok)
        \/ \E how : sent \in Server!Substitute(how)
    BY <1>6 DEF Server!Outbound
  <2>2. ASSUME NEW how, sent \in Server!Substitute(how)
        PROVE  sent \in Server!ResultErr \/ sent = [Server!Nothing EXCEPT !.throws = TRUE]
    BY <2>2 DEF Server!Substitute
  <2> QED BY <1>2, <1>3, <1>4, <1>5, <1>6, <2>1, <2>2
<1> QED BY <1>1, <1>6 DEF Server!Outbound

-----------------------------------------------------------------------------
(* The steps of the server *)

\* Calls that are stopped end their input only with themselves.
LEMMA CancelKeeps ==
  ASSUME ServerOK, NEW stopped, NEW iterators, NEW drains,
         Server!CancelCalls(stopped, iterators, drains)
  PROVE  /\ cancelled' = [i \in Objects |-> cancelled[i] \/ i \in stopped]
         /\ cancelled' \in [Objects -> BOOLEAN]
         /\ queue' = [i \in Objects |-> queue'[i]]
         /\ \A i \in Objects : DOMAIN queue'[i] = QueueFields
         /\ \A i \in Objects : i \notin stopped => queue'[i] = queue[i]
         /\ iterator' = [i \in Objects |->
                          IF i \in stopped /\ iterators[i] = "open"
                          THEN "returned" ELSE iterators[i]]
<1>1. /\ cancelled' = [i \in Objects |-> cancelled[i] \/ i \in stopped]
      /\ queue' = [i \in Objects |-> IF i \in stopped THEN Server!Close(queue[i], "ended")
                                     ELSE queue[i]]
      /\ iterator' = [i \in Objects |->
                          IF i \in stopped /\ iterators[i] = "open"
                          THEN "returned" ELSE iterators[i]]
  BY DEF Server!CancelCalls, Server!Requeue
<1>2. ASSUME NEW i \in Objects PROVE DOMAIN queue'[i] = QueueFields
  <2>1. DOMAIN queue[i] = QueueFields /\ "ended" # "open"
    BY DEF ServerOK
  <2>2. DOMAIN Server!Close(queue[i], "ended") = QueueFields
    BY <2>1, ServerQueues
  <2> QED BY <1>1, <2>1, <2>2
<1>3. cancelled' \in [Objects -> BOOLEAN]
  BY <1>1 DEF ServerOK
<1> QED BY <1>1, <1>2, <1>3

\* Frames, phases and iterators of all calls but one stay, and some are stopped.
LEMMA StopKeeps ==
  ASSUME ServerOK, NEW stopped, NEW drains, Server!CancelCalls(stopped, iterator, drains),
         phase' = phase, frames' = frames,
         inflight' = [i \in Ids |-> inflight'[i]],
         \A i \in Ids : inflight'[i] \in {inflight[i], NoCall}
  PROVE  \A c \in Ids : ServerMoves(c)
<1>1. /\ cancelled' = [i \in Objects |-> cancelled[i] \/ i \in stopped]
      /\ cancelled' \in [Objects -> BOOLEAN]
      /\ queue' = [i \in Objects |-> queue'[i]]
      /\ \A i \in Objects : DOMAIN queue'[i] = QueueFields
      /\ \A i \in Objects : i \notin stopped => queue'[i] = queue[i]
      /\ iterator' = [i \in Objects |->
                          IF i \in stopped /\ iterator[i] = "open"
                          THEN "returned" ELSE iterator[i]]
  BY CancelKeeps
<1>2. iterator' \in [Objects -> Iterators]
  BY <1>1 DEF ServerOK, Iterators
<1>3. \A i \in Ids : i \in Objects
  BY ObjectsAssumption
<1>4. ASSUME NEW i \in Ids
      PROVE  /\ phase'[i] \in {"unused", "running"} => iterator'[i] = "none"
             /\ phase'[i] \in {"pulling", "draining"} /\ ~cancelled'[i] => iterator'[i] = "open"
             /\ DoneSent(i)' => phase'[i] = "ended" /\ iterator'[i] = "finished"
             /\ InputStays(i)
             /\ DoneSent(i) => DoneSent(i)'
  <2>1. i \in Objects /\ cancelled[i] \in BOOLEAN
    BY <1>3 DEF ServerOK
  <2>2. cancelled'[i] = (cancelled[i] \/ i \in stopped)
    BY <1>1, <2>1
  <2>3. iterator'[i] = IF i \in stopped /\ iterator[i] = "open" THEN "returned" ELSE iterator[i]
    BY <1>1, <2>1
  <2>4. DoneSent(i)' <=> DoneSent(i)
    BY DEF DoneSent
  <2>5. InputStays(i)
    BY <1>1, <2>1, <2>2 DEF InputStays
  <2> QED BY <2>2, <2>3, <2>4, <2>5 DEF ServerOK
<1>5. inflight' = [i \in Ids |-> inflight'[i]] /\ \A i \in Ids : inflight'[i] \in {i, NoCall}
  BY DEF ServerOK
<1>6. ServerOK'
  BY <1>1, <1>2, <1>4, <1>5 DEF ServerOK
<1>7. \A c \in Ids : SendsOne(c)
  BY <1>4 DEF SendsOne
<1> QED BY <1>4, <1>6, <1>7 DEF ServerMoves

\* A turn that sends at most one frame, and done only as the last.
LEMMA TurnKeeps ==
  ASSUME ServerOK, NEW c \in Ids, phase[c] \in Server!Active,
         NEW next \in Server!Phases, next \notin {"unused", "running"},
         NEW sent, sent.out = <<>> \/ \E k \in Server!Kinds : sent.out = <<k>>,
         NEW iter \in Iterators, NEW wait, NEW stopped \in SUBSET {c},
         sent.out = <<"done">> => next = "ended" /\ iter = "finished",
         next \in {"pulling", "draining"} /\ ~cancelled[c] => iter = "open",
         Server!Turn(c, next, sent, stopped, iter, wait)
  PROVE  ServerMoves(c)
<1> DEFINE iters == [iterator EXCEPT ![c] = iter]
           drains == [drain EXCEPT ![c] = wait]
<1>0. \A i \in Ids : i \in Objects
  BY ObjectsAssumption
<1>1. PICK all : Server!CancelCalls(all, iters, drains)
  BY DEF Server!Turn
<1>2. /\ phase' = [phase EXCEPT ![c] = next]
      /\ frames' = [frames EXCEPT ![c] = @ \o sent.out]
  BY DEF Server!Turn
<1>3. /\ inflight' = [i \in Ids |-> inflight'[i]]
      /\ \A i \in Ids : inflight'[i] \in {i, NoCall}
  <2>1. \/ inflight' = [i \in Ids |-> NoCall]
        \/ inflight' = inflight
        \/ inflight' = [inflight EXCEPT ![callId[c]] = NoCall]
    BY DEF Server!Turn
  <2> QED BY <2>1 DEF ServerOK
<1>4. /\ cancelled' = [i \in Objects |-> cancelled[i] \/ i \in all]
      /\ cancelled' \in [Objects -> BOOLEAN]
      /\ queue' = [i \in Objects |-> queue'[i]]
      /\ \A i \in Objects : DOMAIN queue'[i] = QueueFields
      /\ \A i \in Objects : i \notin all => queue'[i] = queue[i]
      /\ iterator' = [i \in Objects |->
                          IF i \in all /\ iters[i] = "open"
                          THEN "returned" ELSE iters[i]]
  <2> HIDE DEF iters, drains
  <2> QED BY <1>1, CancelKeeps
<1>5. iters = [i \in Objects |-> IF i = c THEN iter ELSE iterator[i]]
  BY DEF ServerOK
<1> HIDE DEF iters, drains
<1>6. iterator' \in [Objects -> Iterators] /\ phase' \in [Objects -> Server!Phases]
  BY <1>2, <1>4, <1>5 DEF ServerOK, Iterators
<1>7. frames[c] \in Seq(Server!Kinds) /\ c \in Objects
  BY <1>0 DEF ServerOK
<1>8. frames'[c] = frames[c] \/ \E k \in Server!Kinds :
        frames'[c] = Append(frames[c], k) /\ sent.out = <<k>>
  <2>1. frames'[c] = frames[c] \o sent.out
    BY <1>2, <1>7 DEF ServerOK
  <2>2. CASE sent.out = <<>>
    BY <1>7, <2>1, <2>2, ConcatEmptySeq
  <2>3. ASSUME NEW k \in Server!Kinds, sent.out = <<k>>
        PROVE  frames'[c] = Append(frames[c], k)
    <3>1. Append(frames[c], k) = frames[c] \o <<k>>
      BY <1>7, <2>3, AppendIsConcat
    <3> QED BY <2>1, <2>3, <3>1
  <2> QED BY <2>2, <2>3
<1>9. frames'[c] \in Seq(Server!Kinds)
  <2>1. \A k \in Server!Kinds : Append(frames[c], k) \in Seq(Server!Kinds)
    BY <1>7, AppendProperties
  <2> QED BY <1>7, <1>8, <2>1
<1>10. frames' \in [Objects -> Seq(Server!Kinds)]
  BY <1>2, <1>7, <1>9 DEF ServerOK
<1>11. \A i \in Ids \ {c} : /\ frames'[i] = frames[i] /\ phase'[i] = phase[i]
                            /\ iters[i] = iterator[i]
  BY <1>0, <1>2, <1>5 DEF ServerOK
<1>12. phase'[c] = next /\ iters[c] = iter
  BY <1>2, <1>5, <1>7 DEF ServerOK
<1>13. DoneSent(c)' => next = "ended" /\ iter = "finished"
  <2>1. ~DoneSent(c)
    BY DEF ServerOK, Server!Active
  <2>2. CASE frames'[c] = frames[c]
    BY <2>1, <2>2 DEF DoneSent
  <2>3. ASSUME NEW k \in Server!Kinds, frames'[c] = Append(frames[c], k), sent.out = <<k>>,
               DoneSent(c)'
        PROVE  next = "ended" /\ iter = "finished"
    <3>1. frames'[c][Len(frames'[c])] = k
      BY <1>7, <2>3, AppendProperties
    <3>2. frames'[c][Len(frames'[c])] = "done"
      BY <2>3 DEF DoneSent
    <3> QED BY <2>3, <3>1, <3>2
  <2> QED BY <1>8, <2>2, <2>3
<1>14. ASSUME NEW i \in Ids
       PROVE  /\ phase'[i] \in {"unused", "running"} => iterator'[i] = "none"
              /\ phase'[i] \in {"pulling", "draining"} /\ ~cancelled'[i] => iterator'[i] = "open"
              /\ DoneSent(i)' => phase'[i] = "ended" /\ iterator'[i] = "finished"
              /\ InputStays(i)
              /\ DoneSent(i) => DoneSent(i)'
  <2>1. i \in Objects /\ cancelled[i] \in BOOLEAN
    BY <1>0 DEF ServerOK
  <2>2. cancelled'[i] = (cancelled[i] \/ i \in all)
    BY <1>4, <2>1
  <2>3. iterator'[i] = IF i \in all /\ iters[i] = "open" THEN "returned" ELSE iters[i]
    BY <1>4, <2>1
  <2>4. CASE i = c
    <3>1. InputStays(i)
      <4>1. phase[c] # "unused" /\ phase[c] \in Server!Active
        BY DEF Server!Active
      <4> QED BY <1>4, <2>1, <2>2, <2>4, <4>1 DEF InputStays
    <3>2. ~DoneSent(i)
      BY <2>4 DEF ServerOK, Server!Active
    <3>3. DoneSent(i)' => phase'[i] = "ended" /\ iterator'[i] = "finished"
      BY <1>12, <1>13, <2>3, <2>4
    <3> QED BY <1>12, <2>2, <2>3, <2>4, <3>1, <3>2, <3>3
  <2>5. CASE i # c
    <3>1. /\ frames'[i] = frames[i] /\ phase'[i] = phase[i] /\ iters[i] = iterator[i]
      BY <1>11, <2>5
    <3>2. DoneSent(i)' <=> DoneSent(i)
      BY <3>1 DEF DoneSent
    <3>3. InputStays(i)
      BY <1>4, <2>1, <2>2, <3>1 DEF InputStays
    <3> QED BY <2>2, <2>3, <3>1, <3>2, <3>3 DEF ServerOK
  <2> QED BY <2>4, <2>5
<1>15. ServerOK'
  BY <1>3, <1>4, <1>6, <1>10, <1>14 DEF ServerOK
<1>16. SendsOne(c)
  BY <1>8, <1>11, <1>14 DEF SendsOne
<1> QED BY <1>14, <1>15, <1>16 DEF ServerMoves

LEMMA NothingIs ==
  Server!Nothing.out = <<>> /\ ~Server!Nothing.ok /\ ~Server!Nothing.throws
BY DEF Server!Nothing

LEMMA NotDone == <<"error">> # <<"done">> /\ <<"item">> # <<"done">> /\ <<"result">> # <<"done">>
                 /\ <<>> # <<"done">>
OBVIOUS

\* A turn that sends nothing, or an error or another frame that is no done.
LEMMA SomeTurn ==
  ASSUME ServerOK, NEW c \in Ids, phase[c] \in Server!Active,
         NEW next \in Server!Phases, next \notin {"unused", "running"},
         NEW sent, NEW k \in {"error", "item", "result"},
         sent.out \in {<<>>, <<"error">>, <<k>>},
         NEW iter \in Iterators, NEW wait, NEW stopped \in SUBSET {c},
         next \in {"pulling", "draining"} /\ ~cancelled[c] => iter = "open",
         Server!Turn(c, next, sent, stopped, iter, wait)
  PROVE  ServerMoves(c)
<1>1. k \in Server!Kinds /\ "error" \in Server!Kinds
  BY DEF Server!Kinds, Server!Terminal
<1>2. sent.out = <<>> \/ \E kind \in Server!Kinds : sent.out = <<kind>>
  BY <1>1
<1>3. sent.out # <<"done">>
  BY NotDone
<1> QED BY <1>2, <1>3, TurnKeeps

LEMMA ReturnedIs ==
  ASSUME ServerOK, NEW c \in Ids
  PROVE  /\ iterator[c] \in Iterators /\ Server!Returned(c) \in Iterators
         /\ (IF iterator[c] = "open" THEN "finished" ELSE iterator[c]) \in Iterators
BY ObjectsAssumption DEF ServerOK, Iterators, Server!Returned

LEMMA FailsMoves ==
  ASSUME ServerOK, NEW c \in Ids, phase[c] \in Server!Active, NEW kind,
         NEW report \in {"reporting", "reporting stream"}, NEW iter \in Iterators,
         Server!Fails(c, kind, report, iter)
  PROVE  ServerMoves(c)
<1>1. CASE Server!Turn(c, report, Server!Nothing, {}, iter, drain[c])
  <2>1. report \in Server!Phases /\ report \notin {"unused", "running", "pulling", "draining"}
    BY DEF Server!Phases, Server!Active
  <2>2. Server!Nothing.out \in {<<>>, <<"error">>, <<"error">>} /\ {} \in SUBSET {c}
    BY NothingIs
  <2> QED BY <1>1, <2>1, <2>2, SomeTurn
<1>2. ASSUME NEW sent \in Server!Outbound(c, "error"),
             NEW next \in {"ended", "reporting", "rejected"},
             Server!Turn(c, next, sent, {}, iter, drain[c])
      PROVE  ServerMoves(c)
  <2>1. next \in Server!Phases /\ next \notin {"unused", "running", "pulling", "draining"}
    BY DEF Server!Phases, Server!Active
  <2>2. sent.out \in {<<>>, <<"error">>, <<"error">>} /\ {} \in SUBSET {c}
    BY OutboundOut
  <2> QED BY <1>2, <2>1, <2>2, SomeTurn
<1>3. \/ Server!Turn(c, report, Server!Nothing, {}, iter, drain[c])
      \/ \E sent \in Server!Outbound(c, "error"), next \in {"ended", "reporting", "rejected"} :
           Server!Turn(c, next, sent, {}, iter, drain[c])
  <2>1. CASE kind = "pf" \/ Hook = "none" \/ (cancelled[c] /\ kind = "abort")
    <3>1. PICK sent \in Server!Outbound(c, "error") :
            Server!Turn(c, IF ~sent.throws THEN "ended"
                           ELSE IF report = "reporting stream" THEN "reporting"
                           ELSE "rejected", sent, {}, iter, drain[c])
      BY <2>1 DEF Server!Fails
    <3> DEFINE next == IF ~sent.throws THEN "ended"
                       ELSE IF report = "reporting stream" THEN "reporting" ELSE "rejected"
    <3>2. next \in {"ended", "reporting", "rejected"}
      OBVIOUS
    <3>3. Server!Turn(c, next, sent, {}, iter, drain[c])
      BY <3>1
    <3> HIDE DEF next
    <3> QED BY <3>2, <3>3
  <2>2. CASE ~(kind = "pf" \/ Hook = "none" \/ (cancelled[c] /\ kind = "abort"))
    BY <2>2 DEF Server!Fails
  <2> QED BY <2>1, <2>2
<1> QED BY <1>1, <1>2, <1>3

LEMMA HandlerMoves ==
  ASSUME ServerOK, NEW c \in Ids, Server!HandlerSettles(c)
  PROVE  ServerMoves(c)
<1>1. phase[c] = "running" /\ phase[c] \in Server!Active
  BY DEF Server!HandlerSettles, Server!HandlerReturnsValue, Server!HandlerReturnsStream,
         Server!HandlerThrows, Server!Active
<1>2. iterator[c] \in Iterators /\ "open" \in Iterators
  BY ReturnedIs DEF Iterators
<1>3. {} \in SUBSET {c}
  OBVIOUS
<1>4. CASE Server!HandlerReturnsValue(c)
  <2>1. PICK sent \in Server!Outbound(c, "result") :
          Server!Turn(c, IF sent.throws THEN "reporting" ELSE "ended",
                      sent, {}, iterator[c], drain[c])
    BY <1>4 DEF Server!HandlerReturnsValue
  <2> DEFINE next == IF sent.throws THEN "reporting" ELSE "ended"
  <2>2. next \in Server!Phases /\ next \notin {"unused", "running", "pulling", "draining"}
    BY DEF Server!Phases, Server!Active
  <2>3. Server!Turn(c, next, sent, {}, iterator[c], drain[c])
    BY <2>1
  <2> HIDE DEF next
  <2>4. sent.out \in {<<>>, <<"error">>, <<"result">>}
    BY OutboundOut
  <2> QED BY <1>1, <1>2, <1>3, <2>2, <2>3, <2>4, SomeTurn
<1>5. CASE Server!HandlerReturnsStream(c)
  <2>1. Server!Nothing.out \in {<<>>, <<"error">>, <<"error">>}
    BY NothingIs
  <2>2. "ended" \in Server!Phases /\ "pulling" \in Server!Phases
    BY DEF Server!Phases, Server!Active
  <2>3. CASE Server!Turn(c, "ended", Server!Nothing, {}, iterator[c], drain[c])
    BY <1>1, <1>2, <1>3, <2>1, <2>2, <2>3, SomeTurn
  <2>4. CASE Server!Turn(c, "pulling", Server!Nothing, {}, "open", drain[c])
    BY <1>1, <1>2, <1>3, <2>1, <2>2, <2>4, SomeTurn
  <2> QED BY <1>5, <2>3, <2>4 DEF Server!HandlerReturnsStream
<1>6. ASSUME NEW kind, Server!HandlerThrows(c, kind) PROVE ServerMoves(c)
  BY <1>1, <1>2, <1>6, FailsMoves DEF Server!HandlerThrows
<1> QED BY <1>4, <1>5, <1>6 DEF Server!HandlerSettles

\* Of the turns after the iterator settled only its end sends a done.
LEMMA IteratorMoves ==
  ASSUME ServerOK, NEW c \in Ids, Server!IteratorSettles(c)
  PROVE  ServerMoves(c)
<1>1. phase[c] = "pulling" /\ phase[c] \in Server!Active
  BY DEF Server!IteratorSettles, Server!IteratorYields, Server!IteratorYieldsBadItem,
         Server!IteratorEnds, Server!IteratorThrows, Server!Active
<1>2. /\ iterator[c] \in Iterators /\ Server!Returned(c) \in Iterators
      /\ (IF iterator[c] = "open" THEN "finished" ELSE iterator[c]) \in Iterators
  BY ReturnedIs
<1>3. {} \in SUBSET {c}
  OBVIOUS
<1>4. ~cancelled[c] => iterator[c] = "open"
  BY <1>1 DEF ServerOK
<1>5. CASE Server!Turn(c, "ended", Server!Nothing, {}, iterator[c], drain[c])
  <2>1. Server!Nothing.out \in {<<>>, <<"error">>, <<"error">>}
    BY NothingIs
  <2>2. "ended" \in Server!Phases
    BY DEF Server!Phases
  <2> QED BY <1>1, <1>2, <1>3, <1>5, <2>1, <2>2, SomeTurn
<1>6. CASE Server!IteratorYields(c) /\ ~cancelled[c]
  <2>1. PICK sent \in Server!Outbound(c, "item") :
          Server!Turn(c, IF sent.throws THEN "reporting stream"
                         ELSE IF ~sent.ok THEN "ended"
                         ELSE IF sent.drained THEN "draining" ELSE "pulling",
                      sent, {}, IF sent.ok THEN iterator[c] ELSE Server!Returned(c),
                      IF sent.drained THEN "pending" ELSE "none")
    BY <1>6 DEF Server!IteratorYields
  <2> DEFINE next == IF sent.throws THEN "reporting stream"
                     ELSE IF ~sent.ok THEN "ended"
                     ELSE IF sent.drained THEN "draining" ELSE "pulling"
             iter == IF sent.ok THEN iterator[c] ELSE Server!Returned(c)
             wait == IF sent.drained THEN "pending" ELSE "none"
  <2>2. next \in Server!Phases /\ next \notin {"unused", "running"}
        /\ (next \in {"pulling", "draining"} => sent.ok)
    BY DEF Server!Phases, Server!Active
  <2>3. iter \in Iterators /\ (sent.ok => iter = iterator[c])
    BY <1>2
  <2>4. Server!Turn(c, next, sent, {}, iter, wait)
    BY <2>1
  <2> HIDE DEF next, iter, wait
  <2>5. sent.out \in {<<>>, <<"error">>, <<"item">>}
    BY OutboundOut
  <2>6. next \in {"pulling", "draining"} /\ ~cancelled[c] => iter = "open"
    BY <1>4, <2>2, <2>3
  <2> QED BY <1>1, <1>3, <2>2, <2>3, <2>4, <2>5, <2>6, SomeTurn
<1>7. CASE Server!IteratorYieldsBadItem(c) /\ ~cancelled[c]
  BY <1>1, <1>2, <1>7, FailsMoves DEF Server!IteratorYieldsBadItem
<1>8. CASE Server!IteratorEnds(c)
  <2> DEFINE iter == IF iterator[c] = "open" THEN "finished" ELSE iterator[c]
  <2>1. PICK sent \in Server!Outbound(c, "done") :
          Server!Turn(c, "ended", sent, {}, iter, drain[c])
    BY <1>8 DEF Server!IteratorEnds
  <2>2. sent.out \in {<<>>, <<"error">>, <<"done">>} /\ (cancelled[c] => sent.out = <<>>)
    BY OutboundOut
  <2>3. "ended" \in Server!Phases /\ "error" \in Server!Kinds /\ "done" \in Server!Kinds
    BY DEF Server!Phases, Server!Kinds, Server!Terminal
  <2>4. iter \in Iterators /\ (iterator[c] = "open" => iter = "finished")
    BY <1>2
  <2> HIDE DEF iter
  <2>5. sent.out = <<>> \/ \E k \in Server!Kinds : sent.out = <<k>>
    BY <2>2, <2>3
  <2>6. sent.out = <<"done">> => iter = "finished"
    BY <1>4, <2>2, <2>4, NotDone
  <2> QED BY <1>1, <1>3, <2>1, <2>3, <2>4, <2>5, <2>6, TurnKeeps
<1>9. ASSUME NEW kind, Server!IteratorThrows(c, kind) PROVE ServerMoves(c)
  BY <1>1, <1>2, <1>9, FailsMoves DEF Server!IteratorThrows
<1> QED BY <1>5, <1>6, <1>7, <1>8, <1>9
        DEF Server!IteratorSettles, Server!IteratorYields, Server!IteratorYieldsBadItem

LEMMA AfterWaitMoves ==
  ASSUME ServerOK, NEW c \in Ids, Server!AfterDrain(c)
  PROVE  ServerMoves(c)
<1>1. phase[c] = "draining" /\ phase[c] \in Server!Active
  BY DEF Server!AfterDrain, Server!Active
<1>2. iterator[c] \in Iterators /\ Server!Returned(c) \in Iterators
      /\ (~cancelled[c] => iterator[c] = "open")
  BY <1>1, ReturnedIs DEF ServerOK
<1>3. "ended" \in Server!Phases /\ "pulling" \in Server!Phases
  BY DEF Server!Phases, Server!Active
<1>4. CASE drain[c] = "timeout" /\ ~cancelled[c]
  <2>1. PICK sent \in IF open THEN Server!ResultErr ELSE {Server!Nothing} :
          Server!Turn(c, "ended", sent, {c}, Server!Returned(c), "none")
    BY <1>4 DEF Server!AfterDrain
  <2>2. sent.out \in {<<>>, <<"error">>, <<"error">>}
    BY NothingIs, ResultErrOut
  <2>3. {c} \in SUBSET {c}
    OBVIOUS
  <2> QED BY <1>1, <1>2, <1>3, <2>1, <2>2, <2>3, SomeTurn
<1>5. CASE ~(drain[c] = "timeout" /\ ~cancelled[c])
  <2> DEFINE next == IF drain[c] = "drained" /\ ~cancelled[c] THEN "pulling" ELSE "ended"
  <2>1. Server!Turn(c, next, Server!Nothing, {}, iterator[c], "none")
    BY <1>5 DEF Server!AfterDrain
  <2>2. next \in Server!Phases /\ next \notin {"unused", "running"}
    BY <1>3
  <2> HIDE DEF next
  <2>3. Server!Nothing.out \in {<<>>, <<"error">>, <<"error">>} /\ {} \in SUBSET {c}
    BY NothingIs
  <2> QED BY <1>1, <1>2, <2>1, <2>2, <2>3, SomeTurn
<1> QED BY <1>4, <1>5

LEMMA OnErrorMoves ==
  ASSUME ServerOK, NEW c \in Ids, Server!OnErrorSettles(c)
  PROVE  ServerMoves(c)
<1>1. phase[c] \in Server!Active
  BY DEF Server!OnErrorSettles, Server!OnErrorResolves, Server!OnErrorRejects, Server!Active
<1>2. iterator[c] \in Iterators
  BY ReturnedIs
<1>3. {} \in SUBSET {c}
  OBVIOUS
<1>4. CASE Server!OnErrorResolves(c)
  <2>1. PICK sent \in Server!Outbound(c, "error") :
          Server!Turn(c, IF ~sent.throws THEN "ended"
                         ELSE IF phase[c] = "reporting stream" THEN "reporting"
                         ELSE "rejected", sent, {}, iterator[c], drain[c])
    BY <1>4 DEF Server!OnErrorResolves
  <2> DEFINE next == IF ~sent.throws THEN "ended"
                     ELSE IF phase[c] = "reporting stream" THEN "reporting" ELSE "rejected"
  <2>2. next \in Server!Phases /\ next \notin {"unused", "running", "pulling", "draining"}
    BY DEF Server!Phases, Server!Active
  <2>3. Server!Turn(c, next, sent, {}, iterator[c], drain[c])
    BY <2>1
  <2> HIDE DEF next
  <2>4. sent.out \in {<<>>, <<"error">>, <<"error">>}
    BY OutboundOut
  <2> QED BY <1>1, <1>2, <1>3, <2>2, <2>3, <2>4, SomeTurn
<1>5. CASE Server!OnErrorRejects(c)
  <2> DEFINE next == IF phase[c] = "reporting stream" THEN "reporting" ELSE "rejected"
  <2>1. Server!Turn(c, next, Server!Nothing, {}, iterator[c], drain[c])
    BY <1>5 DEF Server!OnErrorRejects
  <2>2. next \in Server!Phases /\ next \notin {"unused", "running", "pulling", "draining"}
    BY DEF Server!Phases, Server!Active
  <2> HIDE DEF next
  <2>3. Server!Nothing.out \in {<<>>, <<"error">>, <<"error">>}
    BY NothingIs
  <2> QED BY <1>1, <1>2, <1>3, <2>1, <2>2, <2>3, SomeTurn
<1> QED BY <1>4, <1>5 DEF Server!OnErrorSettles

\* Nothing but queues changes, and no queue is closed.
LEMMA InputMoves ==
  ASSUME ServerOK, NEW o \in Objects, NEW q, DOMAIN q = QueueFields,
         q.closed = queue[o].closed, queue' = [queue EXCEPT ![o] = q],
         UNCHANGED <<inflight, phase, cancelled, iterator, frames>>
  PROVE  \A c \in Ids : ServerMoves(c)
<1>1. \A i \in Ids : i \in Objects
  BY ObjectsAssumption
<1>2. /\ queue' = [i \in Objects |-> queue'[i]]
      /\ \A i \in Objects : DOMAIN queue'[i] = QueueFields
                            /\ queue'[i].closed = queue[i].closed
  BY DEF ServerOK
<1>3. \A i \in Ids : DoneSent(i)' <=> DoneSent(i)
  BY DEF DoneSent
<1>4. ServerOK'
  BY <1>2, <1>3 DEF ServerOK
<1>5. \A i \in Ids : InputStays(i)
  BY <1>1, <1>2 DEF InputStays
<1>6. \A c \in Ids : SendsOne(c)
  BY <1>3 DEF SendsOne
<1> QED BY <1>4, <1>5, <1>6 DEF ServerMoves

LEMMA SameMoves ==
  ASSUME ServerOK, UNCHANGED <<inflight, phase, cancelled, iterator, frames, queue>>
  PROVE  \A c \in Ids : ServerMoves(c)
<1>1. \A i \in Ids : DoneSent(i)' <=> DoneSent(i)
  BY DEF DoneSent
<1>2. ServerOK'
  BY <1>1 DEF ServerOK
<1>3. \A c \in Ids : SendsOne(c) /\ InputStays(c)
  BY <1>1 DEF SendsOne, InputStays
<1> QED BY <1>2, <1>3 DEF ServerMoves

LEMMA OwnerIs ==
  ASSUME ServerOK, NEW i \in Ids, inflight[i] # NoCall
  PROVE  inflight[i] = i /\ i \in Objects /\ DOMAIN queue[i] = QueueFields
BY ObjectsAssumption DEF ServerOK

LEMMA RecvInItemMoves ==
  ASSUME ServerOK, NEW i \in Ids, Server!RecvInItem(i)
  PROVE  \A c \in Ids : ServerMoves(c)
<1>1. inflight[i] = i /\ i \in Objects /\ DOMAIN queue[i] = QueueFields /\ "ended" # "open"
  BY OwnerIs DEF Server!RecvInItem
<1> DEFINE q == Server!Push(queue[i], [size |-> 1])
<1>2. queue' = [queue EXCEPT ![i] = q]
  BY <1>1 DEF Server!RecvInItem, Server!Requeue
<1>3. DOMAIN q = QueueFields /\ q.closed = queue[i].closed
  BY <1>1, ServerQueues
<1>4. UNCHANGED <<inflight, phase, cancelled, iterator, frames>>
  BY DEF Server!RecvInItem
<1> HIDE DEF q
<1> QED BY <1>1, <1>2, <1>3, <1>4, InputMoves

LEMMA PullInputMoves ==
  ASSUME ServerOK, NEW i \in Ids, Server!PullInput(i)
  PROVE  \A c \in Ids : ServerMoves(c)
<1>1. i \in Objects /\ DOMAIN queue[i] = QueueFields /\ "ended" # "open"
  BY ObjectsAssumption DEF ServerOK
<1> DEFINE q == Server!Pull(queue[i])
<1>2. queue' = [queue EXCEPT ![i] = q]
  BY <1>1 DEF Server!PullInput, Server!Requeue
<1>3. DOMAIN q = QueueFields /\ q.closed = queue[i].closed
  BY <1>1, ServerQueues
<1>4. UNCHANGED <<inflight, phase, cancelled, iterator, frames>>
  BY DEF Server!PullInput
<1> HIDE DEF q
<1> QED BY <1>1, <1>2, <1>3, <1>4, InputMoves

LEMMA RecvCancelMoves ==
  ASSUME ServerOK, NEW i \in Ids, Server!RecvCancel(i)
  PROVE  \A c \in Ids : ServerMoves(c)
<1>1. Server!CancelCalls({inflight[i]}, iterator, drain) /\ phase' = phase /\ frames' = frames
      /\ inflight' = [inflight EXCEPT ![i] = NoCall]
  BY DEF Server!RecvCancel
<1>2. /\ inflight' = [k \in Ids |-> inflight'[k]]
      /\ \A k \in Ids : inflight'[k] \in {inflight[k], NoCall}
  BY <1>1 DEF ServerOK
<1> QED BY <1>1, <1>2, StopKeeps

LEMMA SessionClosesMoves ==
  ASSUME ServerOK, Server!SessionCloses
  PROVE  \A c \in Ids : ServerMoves(c)
<1>1. Server!CancelCalls(Server!Inflight, iterator, drain) /\ phase' = phase /\ frames' = frames
      /\ inflight' = [i \in Ids |-> NoCall]
  BY DEF Server!SessionCloses, Server!AbortAll
<1>2. /\ inflight' = [k \in Ids |-> inflight'[k]]
      /\ \A k \in Ids : inflight'[k] \in {inflight[k], NoCall}
  BY <1>1
<1> QED BY <1>1, <1>2, StopKeeps

LEMMA WaitSettlesMoves ==
  ASSUME ServerOK, NEW i \in Ids, NEW result, Server!DrainSettles(i, result)
  PROVE  \A c \in Ids : ServerMoves(c)
BY SameMoves DEF Server!DrainSettles

\* The end of its input changes nothing else of a call.
LEMMA RecvInDoneMoves ==
  ASSUME ServerOK, NEW i \in Ids, Server!RecvInDone(i)
  PROVE  ServerOK' /\ SendsOne(i) /\ phase' = phase /\ \A k \in Ids \ {i} : InputStays(k)
<1>1. inflight[i] = i /\ i \in Objects /\ DOMAIN queue[i] = QueueFields /\ "ended" # "open"
  BY OwnerIs DEF Server!RecvInDone
<1> DEFINE q == Server!Close(queue[i], "ended")
<1>2. queue' = [queue EXCEPT ![i] = q]
  BY <1>1 DEF Server!RecvInDone, Server!Requeue
<1>3. DOMAIN q = QueueFields
  BY <1>1, ServerQueues
<1>4. UNCHANGED <<inflight, phase, cancelled, iterator, frames>>
  BY DEF Server!RecvInDone
<1> HIDE DEF q
<1>5. /\ queue' = [k \in Objects |-> queue'[k]]
      /\ \A k \in Objects : DOMAIN queue'[k] = QueueFields
  BY <1>2, <1>3 DEF ServerOK
<1>6. \A k \in Ids : DoneSent(k)' <=> DoneSent(k)
  BY <1>4 DEF DoneSent
<1>7. ServerOK'
  BY <1>4, <1>5, <1>6 DEF ServerOK
<1>8. \A k \in Ids \ {i} : InputStays(k)
  <2>1. \A k \in Ids \ {i} : queue'[k] = queue[k]
    BY <1>2, ObjectsAssumption DEF ServerOK
  <2> QED BY <1>4, <2>1 DEF InputStays
<1>9. SendsOne(i)
  BY <1>4, <1>6 DEF SendsOne
<1> QED BY <1>4, <1>7, <1>8, <1>9

LEMMA RecvCallMoves ==
  ASSUME ServerOK, NEW i \in Ids, NEW streaming \in BOOLEAN, Server!RecvCall(i, i, streaming)
  PROVE  /\ ServerOK' /\ SendsOne(i) /\ \A k \in Ids \ {i} : InputStays(k)
         /\ queue'[i].closed = "ended" => ~streaming
<1>0. \A k \in Ids : k \in Objects
  BY ObjectsAssumption
<1> DEFINE q == IF streaming THEN Server!NewQueue ELSE Server!NoQueue
<1>1. /\ phase[i] = "unused" /\ inflight' = [inflight EXCEPT ![i] = i]
      /\ phase' = [phase EXCEPT ![i] = "running"] /\ queue' = [queue EXCEPT ![i] = q]
      /\ UNCHANGED <<cancelled, iterator, frames>>
  BY DEF Server!RecvCall
<1>2. DOMAIN q = QueueFields /\ (q.closed = "ended" => ~streaming)
  BY DEF Server!NewQueue, Server!NoQueue, QueueFields
<1> HIDE DEF q
<1>3. /\ queue' = [k \in Objects |-> queue'[k]]
      /\ \A k \in Objects : DOMAIN queue'[k] = QueueFields
  BY <1>1, <1>2 DEF ServerOK
<1>4. inflight' = [k \in Ids |-> inflight'[k]] /\ \A k \in Ids : inflight'[k] \in {k, NoCall}
  BY <1>1 DEF ServerOK
<1>5. phase' \in [Objects -> Server!Phases]
  BY <1>1 DEF ServerOK, Server!Phases, Server!Active
<1>6. \A k \in Ids : DoneSent(k)' <=> DoneSent(k)
  BY <1>1 DEF DoneSent
<1>7. ASSUME NEW k \in Ids
      PROVE  /\ phase'[k] \in {"unused", "running"} => iterator'[k] = "none"
             /\ phase'[k] \in {"pulling", "draining"} /\ ~cancelled'[k] => iterator'[k] = "open"
             /\ DoneSent(k)' => phase'[k] = "ended" /\ iterator'[k] = "finished"
  <2>1. CASE k = i
    BY <1>0, <1>1, <1>6, <2>1 DEF ServerOK
  <2>2. CASE k # i
    BY <1>0, <1>1, <1>6, <2>2 DEF ServerOK
  <2> QED BY <2>1, <2>2
<1>8. ServerOK'
  <2>1. cancelled' \in [Objects -> BOOLEAN] /\ iterator' \in [Objects -> Iterators]
        /\ frames' \in [Objects -> Seq(Server!Kinds)]
    BY <1>1 DEF ServerOK
  <2> QED BY <1>3, <1>4, <1>5, <1>7, <2>1 DEF ServerOK
<1>9. \A k \in Ids \ {i} : InputStays(k)
  <2>1. \A k \in Ids \ {i} : queue'[k] = queue[k] /\ phase'[k] = phase[k]
    BY <1>0, <1>1 DEF ServerOK
  <2> QED BY <1>1, <2>1 DEF InputStays
<1>10. SendsOne(i)
  BY <1>1, <1>6 DEF SendsOne
<1>11. queue'[i].closed = "ended" => ~streaming
  BY <1>0, <1>1, <1>2 DEF ServerOK
<1> QED BY <1>8, <1>9, <1>10, <1>11

-----------------------------------------------------------------------------
(* The frames in flight *)

\* An in-done comes from an input that finished, a done from a call whose
\* generator finished; and only a call that was started is heard of.
GoodUp ==
  {f \in [id : Ids, kind : ClientFrames] :
     /\ calls[f.id].mode # "idle"
     /\ f.kind = "in-done" => calls[f.id].input = "finished"}

GoodDown ==
  {f \in [id : Ids, kind : Server!Kinds] : f.kind = "done" => DoneSent(f.id)}

WholeInput(i) ==
  /\ phase[i] # "unused" => calls[i].mode # "idle"
  /\ /\ phase[i] \in Server!Active /\ ~cancelled[i]
     /\ calls[i].streaming /\ queue[i].closed = "ended"
     => calls[i].input = "finished"

ConnInv ==
  /\ joined = TRUE /\ ClientOK /\ ServerOK
  /\ up \in Seq(GoodUp) /\ down \in Seq(GoodDown)
  /\ \A i \in Ids : WholeInput(i) /\ (WholeOutput(calls[i]) => DoneSent(i))

\* What a step adds to the wire when one call at most sends, and one frame.
LEMMA AddedOne ==
  ASSUME NEW c \in Ids, NEW S, NEW T, NEW before, NEW after, before[c] \in Seq(T),
         \A i \in Ids \ {c} : after[i] = before[i],
         \/ after[c] = before[c]
         \/ \E k \in T : after[c] = Append(before[c], k) /\ [id |-> c, kind |-> k] \in S
  PROVE  Added(before, after) \in Seq(S)
<1> DEFINE senders == {i \in Ids : after[i] # before[i]}
<1>1. CASE after[c] = before[c]
  <2>1. senders = {}
    BY <1>1
  <2>2. Added(before, after) = <<>>
    BY <2>1 DEF Added
  <2> QED BY <2>2, EmptySeq
<1>2. ASSUME NEW k \in T, after[c] = Append(before[c], k), [id |-> c, kind |-> k] \in S
      PROVE  Added(before, after) \in Seq(S)
  <2>1. /\ Len(Append(before[c], k)) = Len(before[c]) + 1 /\ Len(before[c]) \in Nat
        /\ Append(before[c], k)[Len(before[c]) + 1] = k
    BY <1>2, AppendProperties, LenProperties
  <2>2. after[c] # before[c]
    <3>1. Len(after[c]) # Len(before[c])
      BY <1>2, <2>1
    <3> QED BY <3>1
  <2>3. senders = {c}
    BY <2>2
  <2>4. PICK n \in Nat : n = Len(before[c])
    BY <2>1
  <2>5. Len(after[c]) - Len(before[c]) = 1
    BY <1>2, <2>1
  <2>6. (CHOOSE i \in senders : TRUE) = c /\ senders # {}
    BY <2>3
  <2> HIDE DEF senders
  <2>7. Added(before, after) =
          [j \in 1 .. Len(after[c]) - Len(before[c]) |->
             [id |-> c, kind |-> after[c][Len(before[c]) + j]]]
    BY <2>6, Zenon DEF Added, senders
  <2>8. Added(before, after) = [j \in 1 .. 1 |-> [id |-> c, kind |-> k]]
    <3>1. \A j \in 1 .. 1 : after[c][Len(before[c]) + j] = k
      BY <1>2, <2>1
    <3> QED BY <2>5, <2>7, <3>1
  <2>9. [j \in 1 .. 1 |-> [id |-> c, kind |-> k]] \in Seq(S)
    BY <1>2, IsASeq
  <2> QED BY <2>8, <2>9
<1> QED BY <1>1, <1>2

LEMMA ClientStepInv ==
  ASSUME ConnInv, NEW c \in Ids, NEW kind, ClientMoves(c, kind), kind = "done" => DoneSent(c),
         NEW rest \in Seq(GoodDown), UNCHANGED <<serverVars, joined>>,
         up' = IF open THEN up \o Added(SentBy(calls), SentBy(calls')) ELSE <<>>,
         down' = <<>> \/ down' = rest
  PROVE  ConnInv'
<1>1. \A i \in Ids : /\ CallOK(calls[i]) /\ CallOK(calls'[i])
                     /\ calls[i].mode # "idle" =>
                          calls'[i].mode # "idle" /\ calls'[i].streaming = calls[i].streaming
                     /\ calls[i].input = "finished" => calls'[i].input = "finished"
                     /\ WholeOutput(calls'[i]) => DoneSent(i)
  <2> SUFFICES ASSUME NEW i \in Ids
               PROVE  /\ CallOK(calls[i]) /\ CallOK(calls'[i])
                      /\ calls[i].mode # "idle" =>
                           calls'[i].mode # "idle" /\ calls'[i].streaming = calls[i].streaming
                      /\ calls[i].input = "finished" => calls'[i].input = "finished"
                      /\ WholeOutput(calls'[i]) => DoneSent(i)
    OBVIOUS
  <2>1. Keeps(calls[i], calls'[i], IF i = c THEN kind ELSE "none") /\ CallOK(calls[i])
    BY DEF ClientMoves, ConnInv, ClientOK
  <2>2. WholeOutput(calls'[i]) => DoneSent(i)
    BY <2>1 DEF Keeps, ConnInv
  <2> QED BY <2>1, <2>2 DEF Keeps
<1>2. ClientOK'
  BY <1>1 DEF ClientOK, ClientMoves
<1>3. ServerOK' /\ GoodDown' = GoodDown /\ \A i \in Ids : DoneSent(i)' <=> DoneSent(i)
  BY DEF serverVars, ConnInv, ServerOK, GoodDown, DoneSent
<1>4. GoodUp \subseteq GoodUp'
  BY <1>1 DEF GoodUp
<1>5. up' \in Seq(GoodUp')
  <2>1. up \in Seq(GoodUp')
    BY <1>4, SeqMonotonic DEF ConnInv
  <2> DEFINE before == SentBy(calls)
             after == SentBy(calls')
  <2>2. \A i \in Ids : before[i] = calls[i].sent /\ after[i] = calls'[i].sent
    BY DEF SentBy
  <2> HIDE DEF before, after
  <2>3. before[c] \in Seq(ClientFrames) /\ \A i \in Ids \ {c} : after[i] = before[i]
    BY <1>1, <2>2 DEF CallOK, ClientMoves
  <2>4. \/ after[c] = before[c]
        \/ \E k \in ClientFrames :
             after[c] = Append(before[c], k) /\ [id |-> c, kind |-> k] \in GoodUp'
    <3>1. ASSUME NEW k \in ClientFrames, calls'[c].mode # "idle",
                 k = "in-done" => calls'[c].input = "finished"
          PROVE  [id |-> c, kind |-> k] \in GoodUp'
      BY <3>1 DEF GoodUp
    <3>2. Puts(calls[c], calls'[c])
      BY DEF ClientMoves
    <3> QED BY <2>2, <3>1, <3>2 DEF Puts
  <2>5. Added(before, after) \in Seq(GoodUp')
    BY <2>3, <2>4, AddedOne
  <2>6. up' = <<>> \/ up' = up \o Added(before, after)
    BY DEF before, after
  <2> QED BY <2>1, <2>5, <2>6, ConcatProperties, EmptySeq
<1>6. down' \in Seq(GoodDown')
  BY <1>3, EmptySeq
<1>7. \A i \in Ids : WholeInput(i)' /\ (WholeOutput(calls[i])' => DoneSent(i)')
  <2> SUFFICES ASSUME NEW i \in Ids
               PROVE  WholeInput(i)' /\ (WholeOutput(calls[i])' => DoneSent(i)')
    OBVIOUS
  <2>1. WholeInput(i) /\ UNCHANGED <<phase, cancelled, queue>>
    BY DEF ConnInv, serverVars
  <2>2. WholeInput(i)'
    BY <1>1, <2>1 DEF WholeInput, Server!Active
  <2>3. WholeOutput(calls[i])' => DoneSent(i)'
    BY <1>1, <1>3 DEF WholeOutput
  <2> QED BY <2>2, <2>3
<1> QED BY <1>2, <1>3, <1>5, <1>6, <1>7 DEF ConnInv

LEMMA ServerStepInv ==
  ASSUME ConnInv, NEW c \in Ids, ServerOK', SendsOne(c),
         \A i \in Ids : InputStays(i) \/ WholeInput(i)',
         NEW rest \in Seq(GoodUp), UNCHANGED <<clientVars, joined>>,
         up' = <<>> \/ up' = rest,
         down' = IF link # "closed" THEN down \o Added(frames, frames') ELSE <<>>
  PROVE  ConnInv'
<1>1. ClientOK' /\ GoodUp' = GoodUp
  BY DEF clientVars, ConnInv, ClientOK, GoodUp
<1>2. GoodDown \subseteq GoodDown'
  BY DEF GoodDown, SendsOne
<1>3. down' \in Seq(GoodDown')
  <2>1. down \in Seq(GoodDown')
    BY <1>2, SeqMonotonic DEF ConnInv
  <2>2. c \in Objects /\ frames[c] \in Seq(Server!Kinds)
    BY ObjectsAssumption DEF ConnInv, ServerOK
  <2>3. ASSUME NEW k \in Server!Kinds, frames'[c] = Append(frames[c], k)
        PROVE  [id |-> c, kind |-> k] \in GoodDown'
    <3>1. frames'[c] # <<>> /\ frames'[c][Len(frames'[c])] = k
      BY <2>2, <2>3, AppendProperties
    <3>2. k = "done" => DoneSent(c)'
      BY <3>1 DEF DoneSent
    <3> QED BY <3>2 DEF GoodDown
  <2>4. \/ frames'[c] = frames[c]
        \/ \E k \in Server!Kinds :
             frames'[c] = Append(frames[c], k) /\ [id |-> c, kind |-> k] \in GoodDown'
    BY <2>3 DEF SendsOne
  <2>5. \A i \in Ids \ {c} : frames'[i] = frames[i]
    BY DEF SendsOne
  <2>6. Added(frames, frames') \in Seq(GoodDown')
    BY <2>2, <2>4, <2>5, AddedOne
  <2> QED BY <2>1, <2>6, ConcatProperties, EmptySeq
<1>4. up' \in Seq(GoodUp')
  BY <1>1, EmptySeq
<1>5. \A i \in Ids : WholeInput(i)' /\ (WholeOutput(calls[i])' => DoneSent(i)')
  <2> SUFFICES ASSUME NEW i \in Ids
               PROVE  WholeInput(i)' /\ (WholeOutput(calls[i])' => DoneSent(i)')
    OBVIOUS
  <2>1. WholeInput(i) /\ calls' = calls /\ (WholeOutput(calls[i]) => DoneSent(i))
        /\ (DoneSent(i) => DoneSent(i)')
    BY DEF ConnInv, clientVars, SendsOne
  <2>2. WholeInput(i)'
    BY <2>1 DEF WholeInput, InputStays
  <2>3. WholeOutput(calls[i])' => DoneSent(i)'
    BY <2>1 DEF WholeOutput
  <2> QED BY <2>2, <2>3
<1> QED BY <1>1, <1>3, <1>4, <1>5 DEF ConnInv

-----------------------------------------------------------------------------
(* The steps of the connection *)

LEMMA ClientTurnMoves ==
  ASSUME ClientOK, NEW c \in Ids,
         \/ Client!Resume(c) \/ Client!Abort(c) \/ Client!ConsumerNext(c)
         \/ \E how \in {"ended", "failed"} : Client!ConsumerStops(c, how)
         \/ Client!PumpSettles(c) \/ Client!AfterDrain(c)
         \/ \E result \in {"drained", "timeout"} : Client!DrainSettles(c, result)
  PROVE  ClientMoves(c, "none")
BY ResumeMoves, AbortMoves, ConsumerNextMoves, ConsumerStopsMoves, PumpYieldsMoves,
   PumpEndsMoves, PumpThrowsMoves, AfterDrainMoves, DrainSettlesMoves
   DEF Client!PumpSettles

LEMMA ServerTurnMoves ==
  ASSUME ServerOK, NEW c \in Ids,
         \/ Server!PullInput(c) \/ Server!HandlerSettles(c)
         \/ Server!IteratorSettles(c) \/ Server!AfterDrain(c) \/ Server!OnErrorSettles(c)
         \/ \E result \in {"drained", "timeout"} : Server!DrainSettles(c, result)
  PROVE  ServerMoves(c)
BY PullInputMoves, HandlerMoves, IteratorMoves, AfterWaitMoves, OnErrorMoves, WaitSettlesMoves

\* A step of the client on its own, with no frame of the server's.
LEMMA ClientAct ==
  ASSUME ConnInv, NEW c \in Ids, ClientMoves(c, "none"),
         up' = IF open THEN up \o Added(SentBy(calls), SentBy(calls')) ELSE <<>>,
         down' = IF link' = "closed" THEN <<>> ELSE down,
         UNCHANGED <<serverVars, joined>>
  PROVE  ConnInv'
<1>1. down \in Seq(GoodDown) /\ (down' = <<>> \/ down' = down) /\ "none" # "done"
  BY DEF ConnInv
<1> QED BY <1>1, ClientStepInv

LEMMA ServerAct ==
  ASSUME ConnInv, NEW c \in Ids, ServerMoves(c),
         down' = IF link # "closed" THEN down \o Added(frames, frames') ELSE <<>>,
         up' = IF open' THEN up ELSE <<>>,
         UNCHANGED <<clientVars, joined>>
  PROVE  ConnInv'
<1>1. up \in Seq(GoodUp) /\ (up' = <<>> \/ up' = up)
  BY DEF ConnInv
<1> QED BY <1>1, ServerStepInv DEF ServerMoves

LEMMA AllMoves ==
  ASSUME ClientOK, calls' = [i \in Ids |-> calls'[i]],
         \A i \in Ids : Keeps(calls[i], calls'[i], "none") /\ calls'[i].sent = calls[i].sent
  PROVE  \A c \in Ids : ClientMoves(c, "none")
BY DEF ClientMoves, Puts

LEMMA StillMoves == ASSUME ClientOK, calls' = calls PROVE \A c \in Ids : ClientMoves(c, "none")
<1>1. calls' = [i \in Ids |-> calls'[i]]
      /\ \A i \in Ids : Keeps(calls[i], calls'[i], "none") /\ calls'[i].sent = calls[i].sent
  BY KeepsSame DEF ClientOK
<1> QED BY <1>1, AllMoves

LEMMA ClientReceivesInv == ASSUME ConnInv, ClientReceives PROVE ConnInv'
<1>0. PICK i, kind : i = Head(down).id /\ kind = AsReceived(Head(down).kind)
  OBVIOUS
<1>1. /\ down # <<>> /\ UNCHANGED <<serverVars, joined>>
      /\ up' = IF open THEN up \o Added(SentBy(calls), SentBy(calls')) ELSE <<>>
      /\ down' = IF link' = "closed" THEN <<>> ELSE Tail(down)
      /\ IF calls[i].mode \in Client!Live THEN Client!RecvFrame(i, kind)
         ELSE UNCHANGED clientVars
  BY <1>0 DEF ClientReceives, ClientStep
<1>2. Head(down) \in GoodDown /\ Tail(down) \in Seq(GoodDown)
  BY <1>1, HeadTailProperties DEF ConnInv
<1>3. i \in Ids /\ Head(down).kind \in Server!Kinds
      /\ (Head(down).kind = "done" => DoneSent(i))
  BY <1>0, <1>2 DEF GoodDown
<1>4. kind \in Client!FrameKinds /\ (kind = "done" => DoneSent(i))
  BY <1>0, <1>3 DEF AsReceived, Server!Kinds, Server!Terminal, Client!FrameKinds
<1>5. down' = <<>> \/ down' = Tail(down)
  BY <1>1
<1>6. CASE calls[i].mode \in Client!Live
  <2>1. ClientMoves(i, kind)
    BY <1>1, <1>3, <1>4, <1>6, RecvFrameMoves DEF ConnInv
  <2> QED BY <1>1, <1>2, <1>3, <1>4, <1>5, <2>1, ClientStepInv
<1>7. CASE calls[i].mode \notin Client!Live
  <2>1. calls' = calls
    BY <1>1, <1>7 DEF clientVars
  <2>2. ClientMoves(i, "none") /\ "none" # "done"
    BY <1>3, <2>1, StillMoves DEF ConnInv
  <2> QED BY <1>1, <1>2, <1>3, <1>5, <2>2, ClientStepInv
<1> QED BY <1>6, <1>7

LEMMA ServerReceivesInv == ASSUME ConnInv, ServerReceives PROVE ConnInv'
<1>0. PICK i, kind : i = Head(up).id /\ kind = Head(up).kind
  OBVIOUS
<1>1. /\ up # <<>> /\ UNCHANGED <<clientVars, joined>>
      /\ down' = IF link # "closed" THEN down \o Added(frames, frames') ELSE <<>>
      /\ up' = IF open' THEN Tail(up) ELSE <<>>
      /\ \/ kind = "call" /\ Server!RecvCall(i, i, calls[i].streaming)
         \/ kind = "in-item" /\ Server!RecvInItem(i)
         \/ kind = "in-done" /\ Server!RecvInDone(i)
         \/ kind = "cancel" /\ Server!RecvCancel(i)
         \/ kind # "call" /\ inflight[i] = NoCall /\ UNCHANGED serverVars
  BY <1>0 DEF ServerReceives, ServerStep
<1>2. Head(up) \in GoodUp /\ Tail(up) \in Seq(GoodUp)
  BY <1>1, HeadTailProperties DEF ConnInv
<1>3. i \in Ids /\ calls[i].mode # "idle" /\ (kind = "in-done" => calls[i].input = "finished")
  BY <1>0, <1>2 DEF GoodUp
<1>4. up' = <<>> \/ up' = Tail(up)
  BY <1>1
<1>5. ServerOK /\ ClientOK
  BY DEF ConnInv
<1>6. calls' = calls
  BY <1>1 DEF clientVars
<1>7. CASE ServerMoves(i)
  <2>1. ServerOK' /\ SendsOne(i) /\ \A k \in Ids : InputStays(k) \/ WholeInput(k)'
    BY <1>7 DEF ServerMoves
  <2> QED BY <1>1, <1>2, <1>3, <1>4, <2>1, ServerStepInv
<1>8. CASE Server!RecvInItem(i) \/ Server!RecvCancel(i) \/ UNCHANGED serverVars
  <2>1. ServerMoves(i)
    BY <1>3, <1>5, <1>8, RecvInItemMoves, RecvCancelMoves, SameMoves DEF serverVars
  <2> QED BY <1>7, <2>1
<1>9. CASE kind = "call" /\ Server!RecvCall(i, i, calls[i].streaming)
  <2>1. calls[i].streaming \in BOOLEAN
    BY <1>3, <1>5 DEF ClientOK, CallOK
  <2>2. /\ ServerOK' /\ SendsOne(i) /\ \A k \in Ids \ {i} : InputStays(k)
        /\ queue'[i].closed = "ended" => ~calls[i].streaming
    BY <1>3, <1>5, <1>9, <2>1, RecvCallMoves
  <2>3. WholeInput(i)'
    BY <1>3, <1>6, <2>2 DEF WholeInput
  <2>4. \A k \in Ids : InputStays(k) \/ WholeInput(k)'
    BY <2>2, <2>3
  <2> QED BY <1>1, <1>2, <1>3, <1>4, <2>2, <2>4, ServerStepInv
<1>10. CASE kind = "in-done" /\ Server!RecvInDone(i)
  <2>1. ServerOK' /\ SendsOne(i) /\ phase' = phase /\ \A k \in Ids \ {i} : InputStays(k)
    BY <1>3, <1>5, <1>10, RecvInDoneMoves
  <2>2. WholeInput(i)'
    BY <1>3, <1>6, <1>10, <2>1 DEF WholeInput
  <2>3. \A k \in Ids : InputStays(k) \/ WholeInput(k)'
    BY <2>1, <2>2
  <2> QED BY <1>1, <1>2, <1>3, <1>4, <2>1, <2>3, ServerStepInv
<1> QED BY <1>1, <1>8, <1>9, <1>10

LEMMA StepInv == ASSUME ConnInv, Ids # {}, [ConnNext]_connVars PROVE ConnInv'
<1>1. ClientOK /\ ServerOK
  BY DEF ConnInv
<1>2. PICK any \in Ids : TRUE
  OBVIOUS
<1>3. CASE ClientStep(Client!HandshakeOk, down)
  <2>1. ClientMoves(any, "none")
    BY <1>1, <1>3, StillMoves DEF ClientStep, Client!HandshakeOk
  <2> QED BY <1>3, <2>1, ClientAct DEF ClientStep
<1>4. CASE ClientCloses
  <2>1. calls' = Client!CloseAll(calls)
    BY <1>4 DEF ClientCloses, ClientStep, Client!LinkCloses, Client!Commit
  <2>2. ClientMoves(any, "none")
    BY <1>1, <2>1, LinkClosesMoves, AllMoves
  <2> QED BY <1>4, <2>2, ClientAct DEF ClientCloses, ClientStep
<1>5. CASE ServerCloses
  <2>1. ServerMoves(any)
    BY <1>1, <1>5, SessionClosesMoves DEF ServerCloses, ServerStep
  <2> QED BY <1>5, <2>1, ServerAct DEF ServerCloses, ServerStep
<1>6. ASSUME NEW c \in Ids, ClientTurn(c) PROVE ConnInv'
  <2>1. ASSUME NEW streaming \in BOOLEAN, ClientStep(Client!StartCall(c, streaming), down)
        PROVE  ConnInv'
    <3>1. ClientMoves(c, "none")
      BY <1>1, <2>1, StartMoves DEF ClientStep
    <3> QED BY <2>1, <3>1, ClientAct DEF ClientStep
  <2> DEFINE A == \/ Client!Resume(c) \/ Client!Abort(c) \/ Client!ConsumerNext(c)
                  \/ \E how \in {"ended", "failed"} : Client!ConsumerStops(c, how)
                  \/ Client!PumpSettles(c) \/ Client!AfterDrain(c)
                  \/ \E result \in {"drained", "timeout"} : Client!DrainSettles(c, result)
  <2>2. CASE ClientStep(A, down)
    <3>1. ClientMoves(c, "none")
      BY <1>1, <2>2, ClientTurnMoves DEF ClientStep
    <3> HIDE DEF A
    <3> QED BY <2>2, <3>1, ClientAct DEF ClientStep
  <2> QED BY <1>6, <2>1, <2>2 DEF ClientTurn
<1>7. ASSUME NEW c \in Ids, ServerTurn(c) PROVE ConnInv'
  <2>1. ServerMoves(c)
    BY <1>1, <1>7, ServerTurnMoves DEF ServerTurn, ServerStep
  <2> QED BY <1>7, <2>1, ServerAct DEF ServerTurn, ServerStep
<1>8. CASE UNCHANGED connVars
  <2>1. UNCHANGED <<clientVars, serverVars, up, down, joined>>
    BY <1>8 DEF connVars, wire
  <2>2. ClientOK' /\ ServerOK' /\ GoodUp' = GoodUp /\ GoodDown' = GoodDown
        /\ up' = up /\ down' = down /\ joined' = joined
    BY <1>1, <2>1 DEF clientVars, serverVars, ClientOK, ServerOK, GoodUp, GoodDown, DoneSent
  <2>3. \A i \in Ids : /\ WholeInput(i)' <=> WholeInput(i)
                       /\ DoneSent(i)' <=> DoneSent(i)
                       /\ WholeOutput(calls[i])' <=> WholeOutput(calls[i])
    BY <2>1 DEF clientVars, serverVars, WholeInput, DoneSent, WholeOutput
  <2> QED BY <2>2, <2>3 DEF ConnInv
<1> QED BY <1>3, <1>4, <1>5, <1>6, <1>7, <1>8, ClientReceivesInv, ServerReceivesInv DEF ConnNext

LEMMA InitInv == ConnInit => ConnInv
<1> SUFFICES ASSUME ConnInit PROVE ConnInv
  OBVIOUS
<1>1. calls = [i \in Ids |-> Client!NewCall]
  BY DEF ConnInit, Client!Init
<1>2. /\ DOMAIN Client!NewCall = CallFields /\ DOMAIN Client!NewQueue = QueueFields
      /\ Client!NewCall.mode = "idle" /\ Client!NewCall.sent = <<>>
      /\ Client!NewCall.answered = FALSE /\ Client!NewCall.sendingInput = FALSE
      /\ Client!NewCall.streaming = FALSE /\ Client!NewCall.armed = FALSE
      /\ Client!NewCall.input = "none" /\ Client!NewCall.pump = "none"
      /\ Client!NewCall.queue = Client!NewQueue /\ Client!NewQueue.closed = "open"
  BY DEF Client!NewCall, Client!NewQueue, CallFields, QueueFields
<1> HIDE DEF Client!NewCall, Client!NewQueue
<1>3. CallOK(Client!NewCall) /\ ~WholeOutput(Client!NewCall)
  BY <1>2, EmptySeq DEF CallOK, WholeOutput
<1>4. ClientOK /\ \A i \in Ids : ~WholeOutput(calls[i])
  BY <1>1, <1>3 DEF ClientOK
<1>5. /\ inflight = [i \in Ids |-> NoCall] /\ phase = [i \in Objects |-> "unused"]
      /\ cancelled = [i \in Objects |-> FALSE] /\ iterator = [i \in Objects |-> "none"]
      /\ queue = [i \in Objects |-> Server!NoQueue] /\ frames = [i \in Objects |-> <<>>]
  BY DEF ConnInit, Server!Init
<1>6. \A i \in Ids : i \in Objects
  BY ObjectsAssumption
<1>7. \A i \in Ids : ~DoneSent(i) /\ phase[i] = "unused" /\ iterator[i] = "none"
  BY <1>5, <1>6 DEF DoneSent
<1>8. DOMAIN Server!NoQueue = QueueFields
  BY DEF Server!NoQueue, Server!NewQueue, QueueFields
<1> HIDE DEF Server!NoQueue
<1>9. frames \in [Objects -> Seq(Server!Kinds)]
  BY <1>5, EmptySeq
<1>10. ServerOK
  <2>1. phase \in [Objects -> Server!Phases] /\ cancelled \in [Objects -> BOOLEAN]
        /\ iterator \in [Objects -> Iterators]
    BY <1>5 DEF Server!Phases, Iterators
  <2>2. queue = [i \in Objects |-> queue[i]] /\ \A i \in Objects : DOMAIN queue[i] = QueueFields
    BY <1>5, <1>8
  <2>3. inflight = [i \in Ids |-> inflight[i]] /\ \A i \in Ids : inflight[i] \in {i, NoCall}
    BY <1>5
  <2> QED BY <1>7, <1>9, <2>1, <2>2, <2>3 DEF ServerOK
<1>11. \A i \in Ids : WholeInput(i)
  BY <1>7 DEF WholeInput, Server!Active
<1>12. up = <<>> /\ down = <<>> /\ joined = TRUE
  BY DEF ConnInit
<1> QED BY <1>4, <1>7, <1>10, <1>11, <1>12, EmptySeq DEF ConnInv

LEMMA InvWhole == ConnInv => StreamsAreWhole
<1> SUFFICES ASSUME ConnInv, NEW i \in Ids
             PROVE  /\ /\ phase[i] \in Server!Active /\ ~cancelled[i]
                       /\ calls[i].streaming /\ queue[i].closed = "ended"
                       => calls[i].input = "finished"
                    /\ /\ calls[i].answered /\ calls[i].promise = "iterator"
                       /\ calls[i].queue.closed = "ended"
                       => iterator[i] = "finished" /\ frames[i][Len(frames[i])] = "done"
  BY DEF StreamsAreWhole
<1>1. WholeInput(i) /\ (WholeOutput(calls[i]) => DoneSent(i))
      /\ (DoneSent(i) => iterator[i] = "finished")
  BY DEF ConnInv, ServerOK
<1> QED BY <1>1 DEF WholeInput, WholeOutput, DoneSent

\* A stream that was cut never looks complete at the other end: whatever the
\* two ends of a connection do, in whatever order frames, cancels, closes and
\* timeouts fall, an input that ends without a cancel is the whole input, and
\* an iterator ended by the server's done is the whole output.
THEOREM WholeTheorem == ConnSpec => []StreamsAreWhole
<1>1. CASE Ids = {}
  <2>1. StreamsAreWhole
    BY <1>1 DEF StreamsAreWhole
  <2> QED BY <2>1, PTL
<1>2. CASE Ids # {}
  <2>1. ConnInv /\ [ConnNext]_connVars => ConnInv'
    BY <1>2, StepInv
  <2> QED BY <2>1, InitInv, InvWhole, PTL DEF ConnSpec
<1> QED BY <1>1, <1>2
=============================================================================
