----------------------------- MODULE PushQueue -----------------------------
(***************************************************************************)
(* One queue of push-queue.ts between a frame callback that pushes and     *)
(* closes, and a consumer with at most one next() waiting, which is what a *)
(* single for-await loop produces.  The loop stops at done or at the error.*)
(*                                                                         *)
(* A pushed value is the number of characters accepted before it, so that  *)
(* loss, duplication and reordering are all visible in the values.         *)
(***************************************************************************)
EXTENDS PushQueueOps

CONSTANTS Sizes,        \* sizes of the pushed values (frame text lengths)
          MaxPushed     \* bound of the model: characters pushed

ASSUME SizesAssumption == Sizes \subseteq Nat \ {0}
ASSUME MaxPushedAssumption == MaxPushed \in Nat

VARIABLES queue,     \* the closure's state: entries, buffered, paused, ...
          pushed,    \* history: characters accepted so far
          got,       \* history: the entries the consumer received, in order
          outcome    \* how the consumer's loop ended: "none" while it runs

queueVars == <<queue, pushed, got, outcome>>

Entries == [value : Nat, size : Sizes]

QueueTypeOK ==
  /\ queue \in [entries : Seq(Entries), buffered : Nat, paused : BOOLEAN,
                pending : BOOLEAN, closed : Closings]
  /\ pushed \in Nat
  /\ got \in Seq(Entries)
  /\ outcome \in {"none", "ended", "failed"}

QueueInit ==
  /\ queue = NewQueue
  /\ pushed = 0
  /\ got = <<>>
  /\ outcome = "none"

-----------------------------------------------------------------------------
(* The producer: frames that arrive, then the end of the stream *)

PushValue(size) ==
  LET entry == [value |-> pushed, size |-> size]
  IN  /\ pushed + size <= MaxPushed
      /\ queue' = Push(queue, entry)
      /\ pushed' = IF queue.closed = "open" THEN pushed + size ELSE pushed
      /\ got' = IF queue.closed = "open" /\ queue.pending
                THEN Append(got, Head(Append(queue.entries, entry))) ELSE got
      /\ UNCHANGED outcome

CloseWith(how) ==
  /\ queue' = Close(queue, how)
  /\ outcome' = IF queue.pending /\ queue.entries = <<>> THEN how ELSE outcome
  /\ got' = IF queue.closed = "open" /\ queue.pending /\ queue.entries # <<>>
            THEN Append(got, Head(queue.entries)) ELSE got
  /\ UNCHANGED pushed

End == CloseWith("ended")
Fail == CloseWith("failed")

(* The consumer: the next turn of its for-await loop *)

CallNext ==
  /\ ~queue.pending
  /\ outcome = "none"
  /\ queue' = Pull(queue)
  /\ got' = IF queue.entries # <<>> THEN Append(got, Head(queue.entries))
            ELSE got
  /\ outcome' = IF queue.entries = <<>> /\ queue.closed # "open"
                THEN queue.closed ELSE outcome
  /\ UNCHANGED pushed

QueueNext == (\E size \in Sizes : PushValue(size)) \/ End \/ Fail \/ CallNext

QueueSpec == QueueInit /\ [][QueueNext]_queueVars

\* A consumer in a for-await loop always asks for the next value.
QueueFairSpec == QueueSpec /\ WF_queueVars(CallNext)

-----------------------------------------------------------------------------
(* Properties *)

\* The offset just after the last entry of a chain of entries.
EndOf(s) == IF s = <<>> THEN 0 ELSE s[Len(s)].value + s[Len(s)].size

\* Entries without a gap, a repetition or a swap, from offset 0 on.
Chain(s) ==
  \A i \in 1 .. Len(s) :
     s[i].value = IF i = 1 THEN 0 ELSE s[i - 1].value + s[i - 1].size

\* Nothing is dropped, repeated or reordered: what the consumer received and
\* what is buffered make up everything accepted, in push order.
NothingLost == Chain(got \o queue.entries) /\ EndOf(got \o queue.entries) = pushed

\* A queue that paused its duplex is open and holds a value to take: pulling
\* it will resume the duplex, so the pause cannot outlive its cause.
PausedCanResume == queue.paused => queue.entries # <<>> /\ queue.closed = "open"

\* While reads are on, an open queue holds no more than the mark.
BoundedWhileReading ==
  queue.closed = "open" /\ ~queue.paused => queue.buffered <= HighWaterMark

\* The consumer sees the closing after every accepted value, and sees the
\* first of end() / fail(), whatever is called later.
ClosingComesLast ==
  outcome # "none" => queue.entries = <<>> /\ outcome = queue.closed

\* A closed queue ends its consumer's loop.
LoopEnds == queue.closed # "open" ~> outcome # "none"
=============================================================================
