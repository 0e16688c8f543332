---------------------------- MODULE PushQueueOps ----------------------------
(***************************************************************************)
(* The operations of the async-iterable queue of @ts-pf/message            *)
(* (push-queue.ts) as operators on a queue record.  PushQueue specifies    *)
(* one queue with a producer and a consumer; ServerMux and ClientMux embed *)
(* the records in their calls.  onPause / onResume are the changes of the  *)
(* paused field: no operation fires both.                                  *)
(***************************************************************************)
EXTENDS Naturals, Sequences

CONSTANT HighWaterMark   \* the mark; Infinity is a mark no run reaches

ASSUME HighWaterMarkAssumption == HighWaterMark \in Nat

Closings == {"open", "ended", "failed"}

\* A queue as created: nothing buffered, reads on, no next() waiting.
NewQueue == [entries |-> <<>>, buffered |-> 0, paused |-> FALSE,
             pending |-> FALSE, closed |-> "open"]

\* buffered <= highWaterMark / 2 (a real division in the code).
Low(buffered) == 2 * buffered <= HighWaterMark

\* take(): remove the first entry; at half the mark, onResume.
Take(q) ==
  LET left == q.buffered - Head(q.entries).size
  IN  [q EXCEPT !.entries = Tail(q.entries),
                !.buffered = left,
                !.paused = q.paused /\ ~Low(left)]

\* settleWaiter(): a waiting next() takes an entry or sees the closing.
SettleWaiter(q) ==
  IF q.pending /\ q.entries # <<>> THEN Take([q EXCEPT !.pending = FALSE])
  ELSE IF q.pending /\ q.closed # "open" THEN [q EXCEPT !.pending = FALSE]
  ELSE q

\* push(value, size): buffer, serve a waiter, then onPause above the mark.
Push(q, entry) ==
  LET settled == SettleWaiter([q EXCEPT !.entries = Append(q.entries, entry),
                                        !.buffered = q.buffered + entry.size])
  IN  IF q.closed # "open" THEN q
      ELSE [settled EXCEPT !.paused = settled.paused
                                        \/ settled.buffered > HighWaterMark]

\* Mutants of Close: it drops the buffer, or does not resume.
CloseDropsBuffer(q, how) ==
  IF q.closed # "open" THEN q
  ELSE SettleWaiter([q EXCEPT !.closed = how, !.entries = <<>>, !.paused = FALSE])

CloseWithoutRelease(q, how) ==
  IF q.closed # "open" THEN q ELSE SettleWaiter([q EXCEPT !.closed = how])

\* end() / fail(): one-shot; the waiter settles, then release() resumes.
Close(q, how) ==
  IF q.closed # "open" THEN q
  ELSE [SettleWaiter([q EXCEPT !.closed = how]) EXCEPT !.paused = FALSE]

\* next(): an entry, else the closing, else a promise that waits for either.
Pull(q) ==
  IF q.entries # <<>> THEN Take(q)
  ELSE [q EXCEPT !.pending = (q.closed = "open")]
=============================================================================
