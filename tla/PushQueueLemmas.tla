-------------------------- MODULE PushQueueLemmas --------------------------
(***************************************************************************)
(* Lemmas about the operations of PushQueueOps on queues of entries of     *)
(* size 1, for every mark: the queues that the calls of ServerMux and of   *)
(* ClientMux hold.  And the arithmetic of the counter of paused queues     *)
(* that both connections keep.                                             *)
(***************************************************************************)
EXTENDS PushQueueOps, Integers, SequenceTheorems, FiniteSetTheorems, TLAPS

UnitEntry == [size : {1}]
UnitQueues == [entries : Seq(UnitEntry), buffered : Int, paused : BOOLEAN,
               pending : BOOLEAN, closed : Closings]

\* The counter is the length of the buffer, and a pause is justified: the
\* queue is open and above half its mark.
PauseJustified(q) ==
  /\ q.buffered = Len(q.entries)
  /\ q.paused => ~Low(q.buffered) /\ q.closed = "open"

\* So a paused queue holds an entry whose consumption leads to the resume.
LEMMA PausedHolds ==
  ASSUME NEW q \in UnitQueues, PauseJustified(q), q.paused
  PROVE  q.entries # <<>>
BY HighWaterMarkAssumption DEF PauseJustified, Low

\* take() consumes one entry and can only resume.
LEMMA TakeUnit ==
  ASSUME NEW q \in UnitQueues, PauseJustified(q), q.entries # <<>>
  PROVE  /\ Take(q) \in UnitQueues /\ PauseJustified(Take(q))
         /\ Take(q).paused => q.paused
         /\ Take(q).closed = q.closed /\ Take(q).pending = q.pending
<1> DEFINE left == q.buffered - Head(q.entries).size
           paused == q.paused /\ ~Low(left)
<1>1. /\ Head(q.entries) \in UnitEntry /\ Tail(q.entries) \in Seq(UnitEntry)
      /\ Len(Tail(q.entries)) = Len(q.entries) - 1
      /\ Len(q.entries) \in Nat
  BY HeadTailProperties, LenProperties DEF UnitQueues
<1>2. left = q.buffered - 1 /\ left \in Int /\ q.buffered \in Int
  BY <1>1 DEF UnitEntry, UnitQueues
<1>3. paused \in BOOLEAN
  OBVIOUS
<1>4. Take(q) = [q EXCEPT !.entries = Tail(q.entries), !.buffered = left,
                          !.paused = paused]
  BY DEF Take
<1> HIDE DEF left, paused
<1>5. /\ Take(q) \in UnitQueues
      /\ Take(q).entries = Tail(q.entries) /\ Take(q).buffered = left
      /\ Take(q).paused = paused /\ Take(q).closed = q.closed
      /\ Take(q).pending = q.pending
  BY <1>1, <1>2, <1>3, <1>4 DEF UnitQueues
<1> QED BY <1>1, <1>2, <1>5 DEF PauseJustified, paused

\* settleWaiter() hands over an entry at most.
LEMMA SettleWaiterUnit ==
  ASSUME NEW q \in UnitQueues, PauseJustified(q)
  PROVE  LET r == SettleWaiter(q)
         IN  /\ r \in UnitQueues /\ PauseJustified(r)
             /\ r.paused => q.paused
             /\ r.closed = q.closed
<1> DEFINE p == [q EXCEPT !.pending = FALSE]
<1>1. p \in UnitQueues /\ PauseJustified(p) /\ p.entries = q.entries
      /\ p.paused = q.paused /\ p.closed = q.closed
  BY DEF UnitQueues, PauseJustified
<1>2. \/ SettleWaiter(q) = q
      \/ SettleWaiter(q) = p
      \/ SettleWaiter(q) = Take(p) /\ q.entries # <<>>
  BY DEF SettleWaiter
<1> HIDE DEF p
<1> QED BY <1>1, <1>2, TakeUnit

\* next() can only resume.
LEMMA PullUnit ==
  ASSUME NEW q \in UnitQueues, PauseJustified(q)
  PROVE  /\ Pull(q) \in UnitQueues /\ PauseJustified(Pull(q))
         /\ Pull(q).paused => q.paused
<1>1. CASE q.entries # <<>>
  BY <1>1, TakeUnit DEF Pull
<1>2. CASE q.entries = <<>>
  <2>1. Pull(q) = [q EXCEPT !.pending = (q.closed = "open")]
    BY <1>2 DEF Pull
  <2> QED BY <2>1 DEF UnitQueues, PauseJustified
<1> QED BY <1>1, <1>2

\* end() and fail() resume.
LEMMA CloseUnit ==
  ASSUME NEW q \in UnitQueues, PauseJustified(q), NEW how \in {"ended", "failed"}
  PROVE  /\ Close(q, how) \in UnitQueues /\ PauseJustified(Close(q, how))
         /\ ~Close(q, how).paused
<1>1. CASE q.closed # "open"
  BY <1>1 DEF Close, PauseJustified, UnitQueues
<1>2. CASE q.closed = "open"
  <2> DEFINE p == [q EXCEPT !.closed = how]
             r == SettleWaiter(p)
  <2>1. r \in UnitQueues /\ r.buffered = Len(r.entries)
    <3>1. /\ p \in UnitQueues /\ p.entries = q.entries /\ p.buffered = q.buffered
          /\ p.buffered = Len(p.entries)
      BY DEF UnitQueues, PauseJustified, Closings
    <3> DEFINE n == [p EXCEPT !.pending = FALSE]
    <3>2. n \in UnitQueues /\ n.entries = q.entries /\ n.buffered = q.buffered
      BY <3>1 DEF UnitQueues
    <3>3. \/ r = p
          \/ r = n
          \/ r = Take(n) /\ p.entries # <<>>
      BY DEF SettleWaiter
    <3>4. CASE r = Take(n) /\ p.entries # <<>>
      <4>1. /\ Head(n.entries) \in UnitEntry /\ Tail(n.entries) \in Seq(UnitEntry)
            /\ Len(Tail(n.entries)) = Len(n.entries) - 1
            /\ Len(n.entries) \in Nat
        BY <3>1, <3>2, <3>4, HeadTailProperties, LenProperties DEF UnitQueues
      <4> DEFINE left == n.buffered - Head(n.entries).size
      <4>2. left = n.buffered - 1 /\ left \in Int
        BY <3>2, <4>1 DEF UnitEntry, UnitQueues
      <4> DEFINE paused == n.paused /\ ~Low(left)
      <4>3. paused \in BOOLEAN
        OBVIOUS
      <4> HIDE DEF n, p, r
      <4>4. r = [n EXCEPT !.entries = Tail(n.entries), !.buffered = left,
                          !.paused = paused]
        BY <3>4 DEF Take
      <4> HIDE DEF paused, left
      <4>5. /\ r \in UnitQueues /\ r.entries = Tail(n.entries)
            /\ r.buffered = n.buffered - 1
        BY <3>2, <4>1, <4>2, <4>3, <4>4 DEF UnitQueues
      <4> QED BY <3>1, <3>2, <4>1, <4>5
    <3> HIDE DEF n, p, r
    <3> QED BY <3>1, <3>2, <3>3, <3>4
  <2> HIDE DEF r
  <2>2. Close(q, how) = [r EXCEPT !.paused = FALSE]
    BY <1>2 DEF Close, r
  <2> QED BY <2>1, <2>2 DEF UnitQueues, PauseJustified
<1> QED BY <1>1, <1>2

\* push() pauses above the mark, of an open queue only.
LEMMA PushUnit ==
  ASSUME NEW q \in UnitQueues, PauseJustified(q)
  PROVE  LET r == Push(q, [size |-> 1])
         IN  /\ r \in UnitQueues /\ PauseJustified(r)
             /\ r.closed = q.closed
<1> DEFINE e == [size |-> 1]
           p == [q EXCEPT !.entries = Append(q.entries, e),
                          !.buffered = q.buffered + e.size]
           r == SettleWaiter(p)
<1>0. CASE q.closed # "open"
  BY <1>0 DEF Push
<1>1. CASE q.closed = "open"
  <2>1. e \in UnitEntry /\ e.size = 1 /\ q.buffered + 1 \in Int
    BY DEF UnitEntry, UnitQueues
  <2>2. Append(q.entries, e) \in Seq(UnitEntry)
        /\ Len(Append(q.entries, e)) = Len(q.entries) + 1 /\ Len(q.entries) \in Nat
    BY <2>1, AppendProperties, LenProperties DEF UnitQueues
  <2> HIDE DEF e
  <2>3. /\ p \in UnitQueues /\ p.entries = Append(q.entries, e)
        /\ p.buffered = q.buffered + 1 /\ p.closed = "open"
        /\ p.paused = q.paused
    BY <1>1, <2>1, <2>2 DEF UnitQueues
  <2> HIDE DEF p
  <2>4. PauseJustified(p)
    BY <2>2, <2>3, HighWaterMarkAssumption DEF PauseJustified, Low
  <2>5. r \in UnitQueues /\ PauseJustified(r) /\ r.closed = "open"
    BY <2>3, <2>4, SettleWaiterUnit
  <2>6. Push(q, e) = [r EXCEPT !.paused = r.paused \/ r.buffered > HighWaterMark]
    BY <1>1, <2>3 DEF Push, p
  <2> HIDE DEF r
  <2>7. (r.paused \/ r.buffered > HighWaterMark) \in BOOLEAN /\ r.buffered \in Int
    BY <2>5 DEF UnitQueues
  <2>8. /\ Push(q, e) \in UnitQueues /\ Push(q, e).closed = "open"
        /\ Push(q, e).entries = r.entries /\ Push(q, e).buffered = r.buffered
        /\ Push(q, e).paused <=> (r.paused \/ r.buffered > HighWaterMark)
    BY <2>5, <2>6, <2>7 DEF UnitQueues
  <2>9. PauseJustified(Push(q, e))
    BY <2>5, <2>7, <2>8, HighWaterMarkAssumption DEF PauseJustified, Low
  <2> QED BY <1>1, <2>8, <2>9 DEF e
<1> QED BY <1>0, <1>1

\* A counter that adds the queues a step pauses and subtracts those it resumes
\* counts the paused queues.
LEMMA CountPaused ==
  ASSUME NEW S, IsFiniteSet(S), NEW A, NEW B, A \subseteq S, B \subseteq S
  PROVE  /\ Cardinality(B) = Cardinality(A) + Cardinality(B \ A) - Cardinality(A \ B)
         /\ Cardinality(A) \in Nat /\ Cardinality(B) \in Nat
<1>1. /\ IsFiniteSet(A) /\ IsFiniteSet(B)
      /\ IsFiniteSet(A \ B) /\ IsFiniteSet(B \ A)
  BY FS_Subset, FS_Difference
<1>2. /\ A \cup (B \ A) = B \cup (A \ B)
      /\ A \cap (B \ A) = {} /\ B \cap (A \ B) = {}
  OBVIOUS
<1>3. /\ Cardinality(A \cup (B \ A)) = Cardinality(A) + Cardinality(B \ A) - 0
      /\ Cardinality(B \cup (A \ B)) = Cardinality(B) + Cardinality(A \ B) - 0
  BY <1>1, <1>2, FS_Union, FS_EmptySet
<1>4. /\ Cardinality(A) \in Nat /\ Cardinality(B) \in Nat
      /\ Cardinality(A \ B) \in Nat /\ Cardinality(B \ A) \in Nat
  BY <1>1, FS_CardinalityType
<1> QED BY <1>2, <1>3, <1>4
=============================================================================
