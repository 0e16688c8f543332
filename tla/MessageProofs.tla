--------------------------- MODULE MessageProofs ---------------------------
(***************************************************************************)
(* Proofs about the parts of the package message: the push queue, the drain *)
(* waiter, the session and the duplex adapters, for every high-water mark   *)
(* and every set of sizes, any number of waits and texts, both roles, every *)
(* peer, and everything a duplex may do with a text.  The parts share no    *)
(* state; each has its own inductive invariant.                             *)
(***************************************************************************)
EXTENDS MCMessage, SequenceTheorems, FiniteSetTheorems, WellFoundedInduction, TLAPS

-----------------------------------------------------------------------------
(***************************************************************************)
(* PushQueue.  QueueInv adds to the checked invariants that every entry lies *)
(* within the accepted characters (so that the buffered count is the size of *)
(* what is left) and that a paused queue is above half its mark (so that it *)
(* is not empty).                                                          *)
(***************************************************************************)

\* Every entry lies within the characters accepted so far.
Within(s, total) == \A i \in 1 .. Len(s) : s[i].value + s[i].size <= total

\* The counter compared with the mark is what the consumer has not received.
BufferedIsWaiting == queue.buffered = pushed - EndOf(got)

\* No lost wake-up: next() waits only while there is nothing to deliver.
WaitsForSomething ==
  queue.pending => queue.entries = <<>> /\ queue.closed = "open"

PausedAboveHalf ==
  queue.paused => ~Low(queue.buffered) /\ queue.closed = "open"

\* What relates the entries of a queue to its history.
Accounted(g, e, buffered, total) ==
  /\ Chain(g \o e)
  /\ EndOf(g \o e) = total
  /\ Within(g \o e, total)
  /\ buffered = total - EndOf(g)

QueueInv ==
  /\ QueueTypeOK
  /\ Accounted(got, queue.entries, queue.buffered, pushed)
  /\ PausedAboveHalf
  /\ BoundedWhileReading
  /\ WaitsForSomething
  /\ ClosingComesLast

-----------------------------------------------------------------------------
(* Sequences of entries *)

\* An entry that is taken moves from one part of the history to the other.
LEMMA TakeMoves ==
  ASSUME NEW g \in Seq(Entries), NEW e \in Seq(Entries), e # <<>>
  PROVE  /\ Append(g, Head(e)) \in Seq(Entries)
         /\ Tail(e) \in Seq(Entries)
         /\ Append(g, Head(e)) \o Tail(e) = g \o e
<1> DEFINE h == Head(e)
           t == Tail(e)
<1>1. h \in Entries /\ t \in Seq(Entries) /\ h = e[1] /\ Len(e) \in Nat \ {0}
  BY HeadTailProperties, EmptySeq
<1>2. <<h>> \in Seq(Entries)
  BY <1>1
<1>3. e = <<h>> \o t
  BY <1>1, SubSeqFull, TailIsSubSeq, SubSeqRecursiveFirst
<1>4. Append(g, h) = g \o <<h>> /\ Append(g, h) \in Seq(Entries)
  BY <1>1, AppendIsConcat, AppendProperties
<1> HIDE DEF h, t
<1>5. (g \o <<h>>) \o t = g \o (<<h>> \o t)
  BY <1>1, <1>2, ConcatAssociative, SMTT(30)
<1> QED BY <1>1, <1>3, <1>4, <1>5 DEF h, t

\* The entry at the head of the buffer follows what the consumer received.
LEMMA HeadFollows ==
  ASSUME NEW g \in Seq(Entries), NEW e \in Seq(Entries), e # <<>>,
         NEW total, Chain(g \o e), Within(g \o e, total)
  PROVE  /\ Head(e).value = EndOf(g)
         /\ Head(e) \in Entries
         /\ Head(e).value + Head(e).size <= total
         /\ EndOf(Append(g, Head(e))) = EndOf(g) + Head(e).size
<1>1. Head(e) \in Entries /\ Head(e) = e[1] /\ Len(e) \in Nat \ {0}
  BY HeadTailProperties, EmptySeq
<1>2. Len(g) \in Nat /\ Len(g \o e) = Len(g) + Len(e)
      /\ (g \o e)[Len(g) + 1] = e[1]
      /\ (Len(g) # 0 => (g \o e)[Len(g)] = g[Len(g)])
      /\ (g = <<>> <=> Len(g) = 0)
  BY <1>1, ConcatProperties, LenProperties, EmptySeq
<1>3. Head(e).value = EndOf(g)
  BY <1>1, <1>2, SMTT(30) DEF Chain, EndOf
<1>4. Head(e).value + Head(e).size <= total
  BY <1>1, <1>2 DEF Within
<1>5. EndOf(Append(g, Head(e))) = Head(e).value + Head(e).size
  BY <1>1, <1>2, AppendProperties DEF EndOf
<1> QED BY <1>1, <1>3, <1>4, <1>5

\* Buffering one more entry at the end of the chain.
LEMMA AppendFollows ==
  ASSUME NEW g \in Seq(Entries), NEW e \in Seq(Entries),
         NEW x \in Entries, NEW total \in Nat,
         Chain(g \o e), EndOf(g \o e) = total, Within(g \o e, total),
         x.value = total
  PROVE  /\ Append(e, x) \in Seq(Entries)
         /\ Chain(g \o Append(e, x))
         /\ EndOf(g \o Append(e, x)) = total + x.size
         /\ Within(g \o Append(e, x), total + x.size)
<1> DEFINE s == g \o e
           t == g \o Append(e, x)
<1>1. s \in Seq(Entries) /\ Append(e, x) \in Seq(Entries) /\ <<x>> \in Seq(Entries)
  BY ConcatProperties, AppendProperties
<1>2. t = Append(s, x)
  <2>1. Append(e, x) = e \o <<x>> /\ Append(s, x) = s \o <<x>>
    BY <1>1, AppendIsConcat
  <2>2. (g \o e) \o <<x>> = g \o (e \o <<x>>)
    BY <1>1, ConcatAssociative
  <2> QED BY <2>1, <2>2
<1>3. Len(s) \in Nat /\ Len(t) = Len(s) + 1 /\ t # <<>> /\ t \in Seq(Entries)
      /\ (s = <<>> <=> Len(s) = 0)
  BY <1>1, <1>2, AppendProperties, LenProperties, EmptySeq
<1>4. \A i \in 1 .. Len(s) : t[i] = s[i]
  BY <1>1, <1>2, AppendProperties
<1>5. t[Len(s) + 1] = x
  BY <1>1, <1>2, AppendProperties
<1> HIDE DEF s, t
<1>6. EndOf(s) = total /\ Chain(s) /\ Within(s, total)
  BY DEF s
<1>7. x.value \in Nat /\ x.size \in Nat
  BY SizesAssumption DEF Entries
<1>8. Chain(t)
  <2> SUFFICES ASSUME NEW i \in 1 .. Len(s) + 1
               PROVE  t[i].value = IF i = 1 THEN 0
                                   ELSE t[i - 1].value + t[i - 1].size
    BY <1>3 DEF Chain
  <2>1. CASE i \in 1 .. Len(s)
    <3>1. s[i].value = IF i = 1 THEN 0 ELSE s[i - 1].value + s[i - 1].size
      BY <1>6, <2>1 DEF Chain
    <3>2. t[i] = s[i] /\ (i # 1 => t[i - 1] = s[i - 1])
      BY <1>3, <1>4, <2>1
    <3> QED BY <3>1, <3>2
  <2>2. CASE i = Len(s) + 1
    <3>1. t[i].value = EndOf(s)
      BY <1>5, <1>6, <2>2
    <3>2. i # 1 => t[i - 1] = s[Len(s)] /\ s # <<>>
      BY <1>3, <1>4, <2>2
    <3>3. i = 1 => s = <<>>
      BY <1>3, <2>2
    <3> QED BY <3>1, <3>2, <3>3, <1>3, <2>2 DEF EndOf
  <2> QED BY <2>1, <2>2, <1>3
<1>9. EndOf(t) = total + x.size
  BY <1>3, <1>5 DEF EndOf
<1>10. Within(t, total + x.size)
  <2> SUFFICES ASSUME NEW i \in 1 .. Len(s) + 1
               PROVE  t[i].value + t[i].size <= total + x.size
    BY <1>3 DEF Within
  <2>1. t[i] \in Entries
    BY <1>3, ElementOfSeq
  <2>2. t[i].value \in Nat /\ t[i].size \in Nat
    BY <2>1, SizesAssumption DEF Entries
  <2>3. CASE i \in 1 .. Len(s)
    <3>1. s[i].value + s[i].size <= total
      BY <2>3, <1>6 DEF Within
    <3>2. t[i].value + t[i].size <= total
      BY <3>1, <2>3, <1>4
    <3> QED BY <3>2, <2>2, <1>7, SMTT(30)
  <2>4. CASE i = Len(s) + 1
    BY <2>4, <1>5, <1>7
  <2> QED BY <2>3, <2>4, <1>3
<1> QED BY <1>1, <1>8, <1>9, <1>10 DEF t

-----------------------------------------------------------------------------
(* The invariant is inductive *)

LEMMA QueueInitInv == QueueInit => QueueInv
<1> SUFFICES ASSUME QueueInit PROVE QueueInv
  OBVIOUS
<1>1. <<>> \in Seq(Entries) /\ <<>> \o <<>> = <<>>
  BY EmptySeq, ConcatEmptySeq
<1>2. QueueTypeOK
  BY <1>1, HighWaterMarkAssumption DEF QueueInit, NewQueue, QueueTypeOK, Closings
<1>3. Accounted(got, queue.entries, queue.buffered, pushed)
  BY <1>1 DEF QueueInit, NewQueue, Accounted, Chain, EndOf, Within
<1> QED BY <1>2, <1>3, HighWaterMarkAssumption
        DEF QueueInv, QueueInit, NewQueue, PausedAboveHalf, BoundedWhileReading,
            WaitsForSomething, ClosingComesLast

\* take() as a step of the history: the head of the buffer is received.
LEMMA TakeAccounted ==
  ASSUME NEW g \in Seq(Entries), NEW e \in Seq(Entries), e # <<>>,
         NEW buffered \in Nat, NEW total \in Nat,
         Accounted(g, e, buffered, total)
  PROVE  /\ Append(g, Head(e)) \in Seq(Entries)
         /\ Tail(e) \in Seq(Entries)
         /\ Head(e).size \in Nat
         /\ buffered - Head(e).size \in Nat
         /\ Accounted(Append(g, Head(e)), Tail(e),
                      buffered - Head(e).size, total)
<1>1. Head(e) \in Entries /\ Head(e).value = EndOf(g)
      /\ Head(e).value + Head(e).size <= total
      /\ EndOf(Append(g, Head(e))) = EndOf(g) + Head(e).size
  BY HeadFollows DEF Accounted
<1>2. Head(e).value \in Nat /\ Head(e).size \in Nat
  BY <1>1, SizesAssumption DEF Entries
<1>3. buffered = total - EndOf(g)
  BY DEF Accounted
<1>4. /\ buffered - Head(e).size \in Nat
      /\ buffered - Head(e).size = total - EndOf(Append(g, Head(e)))
  BY <1>1, <1>2, <1>3, SMTT(30)
<1>5. /\ Append(g, Head(e)) \in Seq(Entries)
      /\ Tail(e) \in Seq(Entries)
      /\ Append(g, Head(e)) \o Tail(e) = g \o e
  BY TakeMoves
<1>6. Chain(g \o e) /\ EndOf(g \o e) = total /\ Within(g \o e, total)
  BY DEF Accounted
<1>7. Accounted(Append(g, Head(e)), Tail(e), buffered - Head(e).size, total)
  BY <1>4, <1>5, <1>6 DEF Accounted
<1> QED BY <1>2, <1>4, <1>5, <1>7

\* An empty buffer holds no characters, so a queue above its mark is not empty.
LEMMA EmptyIsZero ==
  ASSUME NEW g \in Seq(Entries), NEW buffered, NEW total \in Nat,
         Accounted(g, <<>>, buffered, total)
  PROVE  buffered = 0
BY ConcatEmptySeq DEF Accounted

LEMMA PushInv ==
  ASSUME QueueInv, NEW size \in Sizes, PushValue(size)
  PROVE  QueueInv'
<1> DEFINE entry == [value |-> pushed, size |-> size]
<1>1. QueueTypeOK /\ Accounted(got, queue.entries, queue.buffered, pushed)
  BY DEF QueueInv
<1>2. entry \in Entries /\ size \in Nat /\ pushed \in Nat
  BY <1>1, SizesAssumption DEF QueueTypeOK, Entries
<1>3. got \in Seq(Entries) /\ queue.entries \in Seq(Entries)
      /\ queue.buffered \in Nat
  BY <1>1 DEF QueueTypeOK
<1>4. CASE queue.closed # "open"
  BY <1>4 DEF QueueInv, PushValue, Push, QueueTypeOK, PausedAboveHalf,
     BoundedWhileReading, WaitsForSomething, ClosingComesLast
<1>5. CASE queue.closed = "open"
  <2> DEFINE grown == Append(queue.entries, entry)
  <2>1. /\ grown \in Seq(Entries)
        /\ Accounted(got, grown, queue.buffered + size, pushed + size)
    <3>1. /\ grown \in Seq(Entries)
          /\ Chain(got \o grown)
          /\ EndOf(got \o grown) = pushed + size
          /\ Within(got \o grown, pushed + size)
      BY <1>1, <1>2, <1>3, AppendFollows DEF Accounted
    <3>2. queue.buffered + size = (pushed + size) - EndOf(got)
      <4>1. queue.buffered = pushed - EndOf(got)
        BY <1>1 DEF Accounted
      <4>2. EndOf(got) \in Nat
        <5>1. CASE got = <<>>
          BY <5>1 DEF EndOf
        <5>2. CASE got # <<>>
          <6>1. PICK last \in Entries : last = got[Len(got)]
            BY <1>3, <5>2, ElementOfSeq, EmptySeq
          <6>2. last.value \in Nat /\ last.size \in Nat
            BY SizesAssumption DEF Entries
          <6>3. EndOf(got) = last.value + last.size
            BY <5>2, <6>1 DEF EndOf
          <6> QED BY <6>2, <6>3
        <5> QED BY <5>1, <5>2
      <4> QED BY <4>1, <4>2, <1>2, <1>3
    <3> QED BY <3>1, <3>2 DEF Accounted
  <2>2. CASE ~queue.pending
    <3>1. /\ queue'.entries = grown
          /\ queue'.buffered = queue.buffered + size
          /\ queue'.paused = (queue.paused \/ queue.buffered + size > HighWaterMark)
          /\ queue'.pending = FALSE /\ queue'.closed = "open"
          /\ queue' \in [entries : Seq(Entries), buffered : Nat,
                         paused : BOOLEAN, pending : BOOLEAN, closed : Closings]
          /\ got' = got /\ pushed' = pushed + size /\ outcome' = outcome
      <4> DEFINE q == [queue EXCEPT !.entries = grown,
                                    !.buffered = queue.buffered + size]
      <4>1. SettleWaiter(q) = q
        BY <2>2, <1>1 DEF SettleWaiter, QueueTypeOK
      <4>2. queue' = [q EXCEPT !.paused = q.paused \/ q.buffered > HighWaterMark]
        BY <4>1, <1>5 DEF PushValue, Push
      <4>3. got' = got /\ pushed' = pushed + size /\ outcome' = outcome
        BY <1>5, <2>2 DEF PushValue
      <4>4. q.paused = queue.paused /\ q.buffered = queue.buffered + size
            /\ q.entries = grown /\ q.pending = FALSE /\ q.closed = "open"
            /\ q \in [entries : Seq(Entries), buffered : Nat,
                      paused : BOOLEAN, pending : BOOLEAN, closed : Closings]
        <5> HIDE DEF grown
        <5>1. queue.buffered + size \in Nat /\ grown \in Seq(Entries)
          BY <1>2, <1>3, <2>1
        <5> QED BY <1>1, <1>5, <2>2, <5>1 DEF QueueTypeOK
      <4> HIDE DEF q, grown
      <4> QED BY <4>2, <4>3, <4>4
    <3>2. outcome = "none"
      BY <1>1, <1>5 DEF QueueInv, ClosingComesLast, QueueTypeOK
    <3>3. PausedAboveHalf'
      BY <1>2, <1>3, <3>1, HighWaterMarkAssumption, SMTT(30) DEF QueueInv, PausedAboveHalf, Low
    <3> QED BY <3>1, <3>2, <3>3, <2>1, <1>1, <1>2, <1>3, HighWaterMarkAssumption
            DEF QueueInv, QueueTypeOK, BoundedWhileReading,
                WaitsForSomething, ClosingComesLast
  <2>3. CASE queue.pending
    <3>1. queue.entries = <<>> /\ queue.buffered = 0
      BY <1>1, <1>2, <1>3, <2>3, EmptyIsZero DEF QueueInv, WaitsForSomething
    <3>2. grown = <<entry>> /\ Head(grown) = entry /\ Tail(grown) = <<>>
      BY <3>1, <1>2
    <3>3. /\ Append(got, Head(grown)) \in Seq(Entries)
          /\ Accounted(Append(got, Head(grown)), Tail(grown),
                       (queue.buffered + size) - Head(grown).size, pushed + size)
      <4>1. queue.buffered + size \in Nat /\ pushed + size \in Nat
        BY <1>2, <1>3
      <4>2. grown # <<>>
        BY <3>2
      <4> DEFINE b == queue.buffered + size
                 p == pushed + size
      <4>3. b \in Nat /\ p \in Nat /\ grown \in Seq(Entries)
            /\ Accounted(got, grown, b, p)
        BY <2>1, <4>1
      <4>5. b = queue.buffered + size /\ p = pushed + size
        OBVIOUS
      <4> HIDE DEF b, p, grown
      <4>4. /\ Append(got, Head(grown)) \in Seq(Entries)
            /\ Accounted(Append(got, Head(grown)), Tail(grown),
                         b - Head(grown).size, p)
        BY <1>3, <4>2, <4>3, TakeAccounted
      <4> QED BY <4>4, <4>5
    <3>4. ~queue.paused
      BY <3>1, HighWaterMarkAssumption DEF QueueInv, PausedAboveHalf, Low
    <3>5. /\ queue'.entries = <<>> /\ queue'.buffered = 0
          /\ queue'.paused = FALSE
          /\ queue'.pending = FALSE /\ queue'.closed = "open"
          /\ queue' \in [entries : Seq(Entries), buffered : Nat,
                         paused : BOOLEAN, pending : BOOLEAN, closed : Closings]
          /\ got' = Append(got, Head(grown)) /\ pushed' = pushed + size
          /\ outcome' = outcome
      <4> DEFINE q == [queue EXCEPT !.entries = grown, !.buffered = size]
                 r == [queue EXCEPT !.entries = <<>>, !.buffered = 0,
                                    !.pending = FALSE]
      <4>1. grown # <<>> /\ Tail(grown) = <<>> /\ Head(grown).size = size
        BY <3>2
      <4>2. q.pending /\ q.entries = grown /\ q.buffered = size
            /\ q.paused = FALSE
        BY <1>1, <2>3, <3>4 DEF QueueTypeOK
      <4>3. SettleWaiter(q) = Take([q EXCEPT !.pending = FALSE])
        BY <4>1, <4>2 DEF SettleWaiter
      <4>4. Take([q EXCEPT !.pending = FALSE]) = r
        <5> DEFINE u == [q EXCEPT !.pending = FALSE]
        <5> HIDE DEF grown
        <5>1. u = [queue EXCEPT !.entries = grown, !.buffered = size,
                                !.pending = FALSE]
          BY <1>1 DEF QueueTypeOK
        <5>2. u.entries = grown /\ u.buffered = size /\ u.paused = FALSE
          BY <1>1, <3>4, <5>1 DEF QueueTypeOK
        <5>3. Take(u) = [u EXCEPT !.entries = <<>>, !.buffered = 0,
                                  !.paused = FALSE]
          <6> HIDE DEF u
          <6>1. u.buffered - Head(u.entries).size = 0
            BY <1>2, <4>1, <5>2
          <6>2. Take(u) = [u EXCEPT !.entries = Tail(u.entries), !.buffered = 0,
                                    !.paused = u.paused /\ ~Low(0)]
            BY <6>1 DEF Take
          <6>3. (u.paused /\ ~Low(0)) = FALSE
            BY <5>2
          <6> QED BY <4>1, <5>2, <6>2, <6>3
        <5>4. r.paused = FALSE
          BY <1>1, <3>4 DEF QueueTypeOK
        <5>5. [u EXCEPT !.entries = <<>>, !.buffered = 0, !.paused = FALSE] = r
          BY <1>1, <3>4, <5>1 DEF QueueTypeOK
        <5> QED BY <5>3, <5>5
      <4>5. queue.buffered + entry.size = size
        BY <1>2, <3>1
      <4>6. queue' = [r EXCEPT !.paused = r.paused \/ r.buffered > HighWaterMark]
        BY <1>5, <4>3, <4>4, <4>5, ZenonT(30) DEF PushValue, Push
      <4>7. r.entries = <<>> /\ r.buffered = 0 /\ r.paused = FALSE
            /\ r.pending = FALSE /\ r.closed = "open"
            /\ r \in [entries : Seq(Entries), buffered : Nat,
                      paused : BOOLEAN, pending : BOOLEAN, closed : Closings]
        BY <1>1, <1>5, <3>4, EmptySeq DEF QueueTypeOK
      <4>8. got' = Append(got, Head(grown)) /\ pushed' = pushed + size
            /\ outcome' = outcome
        BY <1>5, <2>3 DEF PushValue
      <4> HIDE DEF q, r, grown
      <4> QED BY <4>6, <4>7, <4>8, HighWaterMarkAssumption
    <3>6. outcome = "none"
      BY <1>1, <1>5 DEF QueueInv, ClosingComesLast, QueueTypeOK
    <3>7. Accounted(got', queue'.entries, queue'.buffered, pushed')
      BY <3>1, <3>2, <3>3, <3>5, <1>2
    <3> QED BY <3>3, <3>5, <3>6, <3>7, <1>1, <1>2, <1>3, HighWaterMarkAssumption
            DEF QueueInv, QueueTypeOK, PausedAboveHalf, BoundedWhileReading, Low,
                WaitsForSomething, ClosingComesLast
  <2> QED BY <2>2, <2>3, <1>1 DEF QueueTypeOK
<1> QED BY <1>4, <1>5

LEMMA CloseInv ==
  ASSUME QueueInv, NEW how \in {"ended", "failed"}, CloseWith(how)
  PROVE  QueueInv'
<1>1. QueueTypeOK /\ Accounted(got, queue.entries, queue.buffered, pushed)
  BY DEF QueueInv
<1>2. CASE queue.closed # "open"
  BY <1>2, <1>1 DEF QueueInv, CloseWith, Close, QueueTypeOK, PausedAboveHalf,
     BoundedWhileReading, WaitsForSomething, ClosingComesLast
<1>3. CASE queue.closed = "open"
  <2>1. queue.pending => queue.entries = <<>>
    BY DEF QueueInv, WaitsForSomething
  <2>2. /\ queue'.entries = queue.entries /\ queue'.buffered = queue.buffered
        /\ queue'.paused = FALSE /\ queue'.pending = FALSE
        /\ queue'.closed = how
        /\ queue' \in [entries : Seq(Entries), buffered : Nat,
                       paused : BOOLEAN, pending : BOOLEAN, closed : Closings]
        /\ got' = got /\ pushed' = pushed
        /\ outcome' = IF queue.pending THEN how ELSE outcome
    BY <1>1, <1>3, <2>1 DEF CloseWith, Close, SettleWaiter, QueueTypeOK, Closings
  <2>3. outcome = "none"
    BY <1>1, <1>3 DEF QueueInv, ClosingComesLast, QueueTypeOK
  <2> QED BY <1>1, <2>1, <2>2, <2>3
          DEF QueueInv, QueueTypeOK, PausedAboveHalf, BoundedWhileReading,
              WaitsForSomething, ClosingComesLast
<1> QED BY <1>2, <1>3

LEMMA CallNextInv ==
  ASSUME QueueInv, CallNext
  PROVE  QueueInv'
<1>1. QueueTypeOK /\ Accounted(got, queue.entries, queue.buffered, pushed)
  BY DEF QueueInv
<1>2. CASE queue.entries = <<>>
  <2>1. got' = got /\ pushed' = pushed
        /\ queue' = [queue EXCEPT !.pending = (queue.closed = "open")]
        /\ outcome' = IF queue.closed # "open" THEN queue.closed ELSE outcome
    BY <1>2 DEF CallNext, Pull
  <2>2. queue' \in [entries : Seq(Entries), buffered : Nat, paused : BOOLEAN,
                    pending : BOOLEAN, closed : Closings]
        /\ queue'.entries = queue.entries /\ queue'.buffered = queue.buffered
        /\ queue'.paused = queue.paused /\ queue'.closed = queue.closed
        /\ queue'.pending = (queue.closed = "open")
    BY <2>1, <1>1 DEF QueueTypeOK
  <2>3. outcome = "none"
    BY DEF CallNext
  <2> QED BY <1>1, <1>2, <2>1, <2>2, <2>3
          DEF QueueInv, QueueTypeOK, PausedAboveHalf, BoundedWhileReading,
              WaitsForSomething, ClosingComesLast, Closings
<1>3. CASE queue.entries # <<>>
  <2> DEFINE left == queue.buffered - Head(queue.entries).size
  <2>1. /\ Append(got, Head(queue.entries)) \in Seq(Entries)
        /\ Tail(queue.entries) \in Seq(Entries)
        /\ Head(queue.entries).size \in Nat
        /\ left \in Nat /\ left <= queue.buffered
        /\ Accounted(Append(got, Head(queue.entries)), Tail(queue.entries),
                     left, pushed)
    BY <1>1, <1>3, TakeAccounted DEF QueueTypeOK
  <2> HIDE DEF left
  <2>2. /\ queue'.entries = Tail(queue.entries) /\ queue'.buffered = left
        /\ queue'.paused = (queue.paused /\ ~Low(left))
        /\ queue'.pending = FALSE /\ queue'.closed = queue.closed
        /\ queue' \in [entries : Seq(Entries), buffered : Nat,
                       paused : BOOLEAN, pending : BOOLEAN, closed : Closings]
        /\ got' = Append(got, Head(queue.entries)) /\ pushed' = pushed
        /\ outcome' = "none"
    BY <1>1, <1>3, <2>1 DEF CallNext, Pull, Take, QueueTypeOK, left
  <2>3. BoundedWhileReading'
    BY <2>1, <2>2, <1>1, HighWaterMarkAssumption
       DEF QueueInv, BoundedWhileReading, Low, QueueTypeOK
  <2>4. PausedAboveHalf'
    BY <2>2 DEF QueueInv, PausedAboveHalf
  <2> QED BY <1>1, <2>1, <2>2, <2>3, <2>4
          DEF QueueInv, QueueTypeOK, WaitsForSomething, ClosingComesLast
<1> QED BY <1>2, <1>3

LEMMA QueueStepInv == QueueInv /\ [QueueNext]_queueVars => QueueInv'
<1> SUFFICES ASSUME QueueInv, [QueueNext]_queueVars PROVE QueueInv'
  OBVIOUS
<1>1. CASE \E size \in Sizes : PushValue(size)
  BY <1>1, PushInv
<1>2. CASE End
  BY <1>2, CloseInv DEF End
<1>3. CASE Fail
  BY <1>3, CloseInv DEF Fail
<1>4. CASE CallNext
  BY <1>4, CallNextInv
<1>5. CASE UNCHANGED queueVars
  BY <1>5 DEF queueVars, QueueInv, QueueTypeOK, PausedAboveHalf, BoundedWhileReading,
     WaitsForSomething, ClosingComesLast
<1> QED BY <1>1, <1>2, <1>3, <1>4, <1>5 DEF QueueNext

\* The invariant holds in every reachable state.
THEOREM QueueInvariant == QueueSpec => []QueueInv
<1> QED BY QueueInitInv, QueueStepInv, PTL DEF QueueSpec

-----------------------------------------------------------------------------
(* What the invariant gives *)

\* Every value pushed while the queue is open reaches the consumer once, in
\* push order, for every mark and every sequence of sizes: the received and
\* the buffered entries tile the accepted characters.
THEOREM NothingLostTheorem == QueueSpec => []NothingLost
<1>1. QueueInv => NothingLost
  BY DEF QueueInv, Accounted, NothingLost
<1> QED BY <1>1, QueueInvariant, PTL

\* The counter compared with the mark never drifts from what is waiting.
THEOREM BufferedTheorem == QueueSpec => []BufferedIsWaiting
<1>1. QueueInv => BufferedIsWaiting
  BY DEF QueueInv, Accounted, BufferedIsWaiting
<1> QED BY <1>1, QueueInvariant, PTL

\* A queue that paused its duplex always holds a value whose consumption
\* leads to the resume: a pause is never left without a cause.
THEOREM PausedCanResumeTheorem == QueueSpec => []PausedCanResume
<1>1. QueueInv => PausedCanResume
  <2> SUFFICES ASSUME QueueInv, queue.paused
               PROVE  queue.entries # <<>> /\ queue.closed = "open"
    BY DEF PausedCanResume
  <2>1. ~Low(queue.buffered) /\ queue.closed = "open"
    BY DEF QueueInv, PausedAboveHalf
  <2>2. queue.entries = <<>> => queue.buffered = 0
    BY EmptyIsZero DEF QueueInv, QueueTypeOK
  <2> QED BY <2>1, <2>2, HighWaterMarkAssumption DEF Low
<1> QED BY <1>1, QueueInvariant, PTL

\* Receiver memory: with reads on, an open queue is within its mark; and no
\* next() waits while a value or a closing is there to be delivered.
THEOREM BoundedTheorem == QueueSpec => [](BoundedWhileReading /\ WaitsForSomething)
<1>1. QueueInv => BoundedWhileReading /\ WaitsForSomething
  BY DEF QueueInv
<1> QED BY <1>1, QueueInvariant, PTL

\* The consumer learns of the end or the failure after the last value, and
\* nothing is handed to it afterwards.
THEOREM ClosingTheorem == QueueSpec => []ClosingComesLast
<1>1. QueueInv => ClosingComesLast
  BY DEF QueueInv
<1> QED BY <1>1, QueueInvariant, PTL

-----------------------------------------------------------------------------
(***************************************************************************)
(* DrainWaiter: a late drain or timer settles no wait but its own.         *)
(***************************************************************************)

\* An unsettled wait is the one cancel() and the timer can settle: a stale
\* settle has not taken its place.
UnsettledIsPending ==
  \A n \in Waits : n <= started /\ settled[n] = "none" => pending = n

\* A wait that settled leaves no timer behind to fire into a later wait.
TimersArePending == \A n \in timers : n = pending

\* The first wait of a call reports 'paused', once.
StalledOnce == stalls = (IF started = 0 THEN 0 ELSE 1)

\* The pending wait is the last one started, and undecided.
PendingIsLast == pending # 0 => pending = started /\ settled[pending] = "none"

\* A wait that was not started has no timer, no promise and no settled.
NotStarted ==
  \A n \in Waits : n > started =>
    n \notin timers /\ n \notin drains /\ settled[n] = "none"

ReportedOnce == StalledOnce /\ (stalled <=> started # 0)

WaitsInv ==
  /\ WaitTypeOK
  /\ PendingIsLast
  /\ NotStarted
  /\ UnsettledIsPending
  /\ TimersArePending
  /\ DrainedIsOwn
  /\ ReportedOnce

LEMMA WaitsInitInv == WaitInit => WaitsInv
<1> SUFFICES ASSUME WaitInit PROVE WaitsInv
  OBVIOUS
<1>1. WaitTypeOK
  <2>1. 0 \in 0 .. MaxWaits
    BY MaxWaitsAssumption
  <2>2. settled \in [Waits -> Settlements]
    BY DEF WaitInit, Settlements
  <2> QED BY <2>1, <2>2 DEF WaitInit, WaitTypeOK
<1>2. \A n \in Waits : settled[n] = "none" /\ n \notin timers /\ n > 0
  BY MaxWaitsAssumption DEF WaitInit, Waits
<1>3. PendingIsLast /\ NotStarted /\ TimersArePending /\ DrainedIsOwn
  BY <1>2 DEF WaitInit, PendingIsLast, NotStarted, TimersArePending, DrainedIsOwn
<1>4. UnsettledIsPending
  BY <1>2 DEF WaitInit, UnsettledIsPending, Waits
<1>5. ReportedOnce
  BY DEF WaitInit, ReportedOnce, StalledOnce
<1> QED BY <1>1, <1>3, <1>4, <1>5 DEF WaitsInv

\* A settle of wait n, by its timer, its promise or cancel(), decides n or
\* nothing.
LEMMA SettleInv ==
  ASSUME WaitsInv, NEW n \in Waits, NEW result \in {"drained", "timeout", "cancelled"},
         NEW armed \in SUBSET timers, timers \ {n} \subseteq armed,
         Settle(n, result, armed), pending # n => armed = timers \ {n} \/ armed = timers,
         drains' \subseteq drains, result = "drained" => drains' = drains \ {n},
         UNCHANGED <<started, stalled, stalls>>
  PROVE  WaitsInv'
<1>1. WaitTypeOK /\ PendingIsLast /\ NotStarted /\ UnsettledIsPending
      /\ TimersArePending /\ DrainedIsOwn /\ ReportedOnce
  BY DEF WaitsInv
<1>2. CASE pending # n
  <2>1. timers' = armed /\ pending' = pending /\ settled' = settled
    BY <1>2 DEF Settle
  <2>2. WaitTypeOK'
    BY <1>1, <2>1 DEF WaitTypeOK
  <2>3. PendingIsLast' /\ NotStarted' /\ UnsettledIsPending' /\ TimersArePending'
        /\ DrainedIsOwn'
    BY <1>1, <2>1 DEF PendingIsLast, NotStarted, UnsettledIsPending,
                       TimersArePending, DrainedIsOwn
  <2>4. ReportedOnce'
    BY <1>1 DEF ReportedOnce, StalledOnce
  <2> QED BY <2>2, <2>3, <2>4 DEF WaitsInv
<1>3. CASE pending = n
  <2>1. settled[n] = "none" /\ n = started /\ n # 0
    BY <1>1, <1>3, MaxWaitsAssumption DEF PendingIsLast, Waits
  <2>2. /\ pending' = 0 /\ timers' = armed \ {n}
        /\ settled' = [settled EXCEPT ![n] = result]
    BY <1>1, <1>3, <2>1 DEF Settle, WaitTypeOK
  <2>3. WaitTypeOK'
    BY <1>1, <2>2, MaxWaitsAssumption DEF WaitTypeOK, Settlements
  <2>4. PendingIsLast' /\ NotStarted'
    BY <1>1, <2>1, <2>2 DEF PendingIsLast, NotStarted, WaitTypeOK, Waits
  <2>5. UnsettledIsPending'
    BY <1>1, <1>3, <2>1, <2>2 DEF UnsettledIsPending, WaitTypeOK
  <2>6. TimersArePending'
    BY <1>1, <1>3, <2>2 DEF TimersArePending
  <2>7. DrainedIsOwn'
    BY <1>1, <2>1, <2>2 DEF DrainedIsOwn, WaitTypeOK
  <2>8. ReportedOnce'
    BY <1>1 DEF ReportedOnce, StalledOnce
  <2> QED BY <2>3, <2>4, <2>5, <2>6, <2>7, <2>8 DEF WaitsInv
<1> QED BY <1>2, <1>3

LEMMA WaitInv == WaitsInv /\ Wait => WaitsInv'
<1> SUFFICES ASSUME WaitsInv, Wait PROVE WaitsInv'
  OBVIOUS
<1>1. WaitTypeOK /\ PendingIsLast /\ NotStarted /\ UnsettledIsPending
      /\ TimersArePending /\ DrainedIsOwn /\ ReportedOnce
  BY DEF WaitsInv
<1> DEFINE n == started + 1
<1>2. n \in Waits /\ n # 0 /\ n > started /\ started \in Nat
  BY <1>1, MaxWaitsAssumption DEF Wait, WaitTypeOK, Waits
<1>3. /\ pending = 0 /\ started' = n /\ pending' = n /\ settled' = settled
      /\ timers' = (IF HasDrainTimeout THEN timers \cup {n} ELSE timers)
      /\ drains' = drains \cup {n}
      /\ stalls' = (IF stalled THEN stalls ELSE stalls + 1) /\ stalled' = TRUE
  BY DEF Wait
<1>4. settled[n] = "none"
  BY <1>1, <1>2 DEF NotStarted
<1>5. WaitTypeOK'
  BY <1>1, <1>2, <1>3 DEF WaitTypeOK, Waits
<1>6. PendingIsLast' /\ NotStarted'
  BY <1>1, <1>2, <1>3, <1>4 DEF PendingIsLast, NotStarted, Waits
<1>7. UnsettledIsPending'
  <2> SUFFICES ASSUME NEW m \in Waits, m <= n, settled[m] = "none" PROVE m = n
    BY <1>3 DEF UnsettledIsPending
  <2>1. m <= started => m = 0
    BY <1>1, <1>3 DEF UnsettledIsPending
  <2>2. m \in Nat /\ m # 0
    BY MaxWaitsAssumption DEF Waits
  <2>3. ~(m <= started)
    BY <1>3, <2>1, <2>2
  <2> QED BY <1>2, <2>2, <2>3
<1>8. TimersArePending'
  <2>1. \A m \in timers : m = 0 /\ m \in Waits
    BY <1>1, <1>3 DEF TimersArePending, WaitTypeOK
  <2>2. \A m \in Waits : m # 0
    BY MaxWaitsAssumption DEF Waits
  <2> SUFFICES ASSUME NEW m \in timers' PROVE m = n
    BY <1>3 DEF TimersArePending
  <2>3. m \in timers \/ m = n
    BY <1>3
  <2> QED BY <2>1, <2>2, <2>3
<1>9. DrainedIsOwn'
  BY <1>1, <1>3, <1>4 DEF DrainedIsOwn
<1>10. ReportedOnce'
  BY <1>1, <1>2, <1>3 DEF ReportedOnce, StalledOnce
<1> QED BY <1>5, <1>6, <1>7, <1>8, <1>9, <1>10 DEF WaitsInv

LEMMA WaitsStepInv == WaitsInv /\ [WaitNext]_waitVars => WaitsInv'
<1> SUFFICES ASSUME WaitsInv, [WaitNext]_waitVars PROVE WaitsInv'
  OBVIOUS
<1>1. ASSUME NEW n \in Waits, TimerFires(n) PROVE WaitsInv'
  BY <1>1, SettleInv DEF TimerFires
<1>2. ASSUME NEW n \in Waits, DrainFires(n) PROVE WaitsInv'
  BY <1>2, SettleInv DEF DrainFires
<1>3. CASE Cancel
  <2>1. pending \in Waits
    BY <1>3, MaxWaitsAssumption DEF Cancel, WaitsInv, WaitTypeOK, Waits
  <2> QED BY <1>3, <2>1, SettleInv DEF Cancel
<1>4. CASE UNCHANGED waitVars
  BY <1>4 DEF waitVars, WaitsInv, WaitTypeOK, PendingIsLast, NotStarted, UnsettledIsPending,
              TimersArePending, DrainedIsOwn, ReportedOnce, StalledOnce
<1> QED BY <1>1, <1>2, <1>3, <1>4, WaitInv DEF WaitNext

\* The invariant holds in every reachable state.
THEOREM WaitsInvariant == WaitSpec => []WaitsInv
BY WaitsInitInv, WaitsStepInv, PTL DEF WaitSpec

\* A wait is never abandoned: while it is undecided it is the one its timer and
\* cancel() settle, whatever older promises and timers do.
THEOREM UnsettledTheorem == WaitSpec => []UnsettledIsPending
<1>1. WaitsInv => UnsettledIsPending
  BY DEF WaitsInv
<1> QED BY WaitsInvariant, <1>1, PTL

\* A wait reports 'drained' for its own promise only: a stale promise of an
\* earlier wait never lets the producer go on.
THEOREM DrainedTheorem == WaitSpec => []DrainedIsOwn
<1>1. WaitsInv => DrainedIsOwn
  BY DEF WaitsInv
<1> QED BY WaitsInvariant, <1>1, PTL

-----------------------------------------------------------------------------
(***************************************************************************)
(* MessageSession.  A turn is a few calls of methods on the session's record, *)
(* and a send in the middle of it may already have closed the session.  So *)
(* the invariant comes in two strengths: Sound holds between the calls of a *)
(* turn too, Settled only when a turn is over.  Each method is shown once to *)
(* keep Sound; each turn then restores Settled.                            *)
(***************************************************************************)

\* The owner is told once.  A session it was told of can still be "ready" (a
\* send of hello-ok that closes it), but it has let go of everything.
ToldOnce(s) ==
  /\ s.closeCalls = (IF s.closeNotified THEN 1 ELSE 0)
  /\ s.state = "closed" => s.closeNotified
  /\ s.closeNotified =>
       /\ s.ready # "pending" /\ s.drains = 0
       /\ ~s.timer /\ ~s.listening /\ ~s.up

\* What went out under a server's name: nothing, or a reply and then frames
\* that are none.
RepliesFirst(s) ==
  s.role = "server" =>
    \A i \in 1 .. Len(s.out) : IsReply(s.out[i]) <=> i = 1

Sound(s) == s \in Sessions /\ ToldOnce(s) /\ RepliesFirst(s)

\* Before the handshake is over nothing is settled, sent by a server, or
\* delivered; an accept is awaited at no other time.
Waiting(s) ==
  /\ s.state = "waiting-hello" =>
       /\ ~s.closeNotified /\ s.ready = "pending" /\ s.delivered = 0
       /\ s.accept \in {"none", "waiting"}
       /\ s.role = "server" => s.out = <<>>
  /\ s.role = "client" => s.accept = "none"
  /\ s.accept = "waiting" =>
       /\ s.state # "ready"
       /\ s.state = "waiting-hello" => s.acceptGeneration = s.helloGeneration

\* After it a session still in use was accepted and, as a server, said so.
InUse(s) ==
  /\ s.state = "ready" /\ ~s.closeNotified =>
       /\ s.ready = "resolved"
       /\ s.role = "server" => s.accept = "resolved"
  /\ s.state = "ready" /\ s.up /\ s.role = "server" => s.out # <<>>
  /\ s.delivered > 0 =>
       /\ s.ready = "resolved"
       /\ s.role = "server" => s.accept = "resolved"

Settled(s) == Sound(s) /\ Waiting(s) /\ InUse(s)

SessionInv == Settled(session)

\* What no method but those of the handshake changes.
Keeps(s, t) ==
  /\ t.role = s.role /\ t.accept = s.accept /\ t.delivered = s.delivered
  /\ s.ready = "resolved" => t.ready = "resolved"

-----------------------------------------------------------------------------
(* The methods *)

\* Mutators of single fields keep a session typed.
LEMMA FailReadySound ==
  ASSUME NEW s, Sound(s)
  PROVE  LET t == FailReady(s)
         IN  /\ Sound(t) /\ Keeps(s, t) /\ t.ready # "pending"
             /\ t.state = s.state /\ t.out = s.out /\ t.up = s.up
BY DEF Sound, FailReady, Keeps, Sessions, ToldOnce, RepliesFirst

\* The way both close() and the close of the duplex take a session out.
Shut(s) == NotifyOnClose([FailReady(EnterClosed(s)) EXCEPT !.up = FALSE])

LEMMA ShutSound ==
  ASSUME NEW s, Sound(s)
  PROVE  Sound(Shut(s)) /\ Keeps(s, Shut(s)) /\ Shut(s).state = "closed"
<1> DEFINE x == EnterClosed(s)
           y == FailReady(x)
           e == [y EXCEPT !.up = FALSE]
           t == NotifyOnClose(e)
<1>1. /\ x \in Sessions
      /\ x.state = "closed" /\ x.ready = s.ready /\ x.drains = 0
      /\ ~x.timer /\ ~x.listening
      /\ x.out = s.out /\ Keeps(s, x)
      /\ x.closeNotified = s.closeNotified /\ x.closeCalls = s.closeCalls
  <2>1. s \in Sessions /\ s.helloGeneration + 1 \in Nat
    BY DEF Sound, Sessions
  <2> QED BY <2>1 DEF Sessions, EnterClosed, Keeps, States
<1>2. Shut(s) = t
  BY DEF Shut
<1> HIDE DEF x
<1>3. /\ y \in Sessions
      /\ y.state = "closed" /\ y.ready # "pending" /\ y.drains = 0
      /\ ~y.timer /\ ~y.listening
      /\ y.out = s.out /\ Keeps(x, y)
      /\ y.closeNotified = s.closeNotified /\ y.closeCalls = s.closeCalls
  BY <1>1 DEF Sessions, FailReady, Keeps
<1> HIDE DEF y
<1>4. /\ e \in Sessions
      /\ e.state = "closed" /\ e.ready # "pending" /\ e.drains = 0
      /\ ~e.timer /\ ~e.listening /\ ~e.up
      /\ e.out = s.out /\ Keeps(s, e)
      /\ e.closeNotified = s.closeNotified /\ e.closeCalls = s.closeCalls
  BY <1>1, <1>3 DEF Sessions, Keeps
<1> HIDE DEF e
<1>5. /\ t \in Sessions
      /\ t.state = "closed" /\ t.ready # "pending" /\ t.drains = 0
      /\ ~t.timer /\ ~t.listening /\ ~t.up
      /\ t.out = e.out /\ Keeps(e, t)
      /\ t.closeNotified
      /\ t.closeCalls = IF e.closeNotified THEN e.closeCalls ELSE e.closeCalls + 1
  <2>1. e.closeCalls + 1 \in Nat
    BY <1>4 DEF Sessions
  <2> QED BY <1>4, <2>1 DEF Sessions, NotifyOnClose, Keeps
<1> HIDE DEF t
<1> QED BY <1>2, <1>4, <1>5 DEF Sound, ToldOnce, RepliesFirst, Keeps

\* close() leaves a closed session, whatever state it is called in, and so
\* does the close of the duplex.
LEMMA CloseSound ==
  ASSUME NEW s, Sound(s),
         NEW t \in {CloseSession(s), DuplexClosed(s)}
  PROVE  Sound(t) /\ Keeps(s, t) /\ t.state = "closed"
<1>1. CASE s.state = "closed"
  <2>1. NotifyOnClose(s) = s
    BY <1>1 DEF Sound, ToldOnce, NotifyOnClose
  <2>2. t = s
    BY <1>1, <2>1 DEF CloseSession, DuplexClosed
  <2> QED BY <1>1, <2>2 DEF Keeps
<1>2. CASE s.state # "closed"
  <2>1. t = Shut(s)
    BY <1>2 DEF CloseSession, DuplexClosed, Shut
  <2> QED BY <2>1, ShutSound
<1> QED BY <1>1, <1>2

\* A send: the session goes on with one more text on the wire, or as it was
\* when the duplex is down already, or the send has closed it.
SentOrClosed(s, t) ==
  \/ t.state = "closed"
  \/ /\ t.state = s.state /\ t.ready = s.ready /\ t.up = s.up
     /\ t.timer = s.timer /\ t.closeNotified = s.closeNotified
     /\ s.up => t.out # <<>>
     /\ ~s.up => t.out = s.out

LEMMA SendTextSound ==
  ASSUME NEW s, Sound(s), NEW frame \in Frames, NEW how \in Sends,
         s.role = "server" /\ s.state # "closed" /\ s.up
           => (IsReply(frame) <=> s.out = <<>>)
  PROVE  LET t == SendText(s, frame, how)
         IN  Sound(t) /\ Keeps(s, t) /\ SentOrClosed(s, t)
<1> DEFINE sent == [s EXCEPT !.out = Append(@, frame)]
           drain == [s EXCEPT !.out = Append(@, frame), !.drains = @ + 1]
<1>0. /\ s \in Sessions /\ s.out \in Seq(Frames) /\ s.drains \in Nat
      /\ Append(s.out, frame) \in Seq(Frames) /\ Append(s.out, frame) # <<>>
      /\ s.drains + 1 \in Nat
  BY AppendProperties DEF Sound, Sessions
<1>1. CASE s.state = "closed" \/ ~s.up
  BY <1>1 DEF SendText, Keeps, SentOrClosed
<1>2. ASSUME s.state # "closed", s.up, NEW t \in {sent, drain}
      PROVE  Sound(t) /\ Keeps(s, t) /\ SentOrClosed(s, t)
  <2>1. /\ t \in Sessions
        /\ t.out = Append(s.out, frame) /\ Keeps(s, t)
        /\ t.state = s.state /\ t.ready = s.ready /\ t.up = s.up
        /\ t.timer = s.timer /\ t.closeNotified = s.closeNotified
        /\ t.closeCalls = s.closeCalls /\ t.listening = s.listening
    BY <1>0, ZenonT(30) DEF Sessions, Keeps
  <2>2. ToldOnce(t)
    BY <1>2, <2>1 DEF Sound, ToldOnce
  <2>3. RepliesFirst(t)
    <3> SUFFICES ASSUME s.role = "server", NEW i \in 1 .. Len(s.out) + 1
                 PROVE  IsReply(Append(s.out, frame)[i]) <=> i = 1
      BY <1>0, <2>1, AppendProperties DEF RepliesFirst, Keeps
    <3>1. Len(s.out) \in Nat /\ (s.out = <<>> <=> Len(s.out) = 0)
      BY <1>0, LenProperties, EmptySeq
    <3>2. CASE i = Len(s.out) + 1
      BY <1>0, <1>2, <3>1, <3>2, AppendProperties
    <3>3. CASE i # Len(s.out) + 1
      <4>1. i \in 1 .. Len(s.out) /\ Append(s.out, frame)[i] = s.out[i]
        BY <1>0, <3>1, <3>3, AppendProperties
      <4> QED BY <4>1 DEF Sound, RepliesFirst
    <3> QED BY <3>2, <3>3
  <2> QED BY <1>0, <1>2, <2>1, <2>2, <2>3 DEF Sound, SentOrClosed
<1>3. CASE s.state # "closed" /\ s.up
  <2> DEFINE t == SendText(s, frame, how)
  <2>1. CASE how = "sent"
    BY <1>2, <1>3, <2>1 DEF SendText
  <2>2. CASE how = "drain"
    BY <1>2, <1>3, <2>2 DEF SendText
  <2>3. CASE how = "closes"
    BY <1>3, <2>3, CloseSound DEF SendText, SentOrClosed
  <2>4. CASE how = "throws"
    BY <1>3, <2>4, CloseSound DEF SendText, SentOrClosed
  <2> QED BY <2>1, <2>2, <2>3, <2>4, SendsAssumption
<1> QED BY <1>1, <1>3

\* A closed session is settled as long as what was delivered was.
LEMMA ClosedSettled ==
  ASSUME NEW s, NEW t, Settled(s), Sound(t), Keeps(s, t), t.state = "closed"
  PROVE  Settled(t)
BY DEF Settled, Waiting, InUse, Keeps, Sound, Sessions

-----------------------------------------------------------------------------
(* The turns *)

LEMMA FailHandshakeCloses ==
  ASSUME NEW s, Sound(s), s.role = "server" => s.out = <<>>, NEW how \in Sends
  PROVE  LET t == FailHandshake(s, how)
         IN  Sound(t) /\ Keeps(s, t) /\ t.state = "closed"
<1> DEFINE f == FailReady(s)
           sent == SendText(f, "hello-error", how)
<1>1. CASE s.state = "closed"
  BY <1>1 DEF FailHandshake, Keeps
<1>2. CASE s.state # "closed"
  <2>1. Sound(f) /\ Keeps(s, f) /\ f.out = s.out
    BY FailReadySound
  <2> HIDE DEF f
  <2>2. "hello-error" \in Frames /\ IsReply("hello-error")
    BY DEF Frames, IsReply
  <2>3. Sound(sent) /\ Keeps(f, sent)
    BY <2>1, <2>2, SendTextSound DEF Keeps
  <2> HIDE DEF sent
  <2>4. Sound(CloseSession(sent)) /\ Keeps(sent, CloseSession(sent))
        /\ CloseSession(sent).state = "closed"
    BY <2>3, CloseSound
  <2>5. FailHandshake(s, how) = CloseSession(sent)
    BY <1>2 DEF FailHandshake, sent, f
  <2> QED BY <2>1, <2>3, <2>4, <2>5 DEF Keeps
<1> QED BY <1>1, <1>2

\* The accept of a hello in the session's own generation: the send of hello-ok
\* may have closed it, which onHello's continuation does not look at.
LEMMA AcceptedSettled ==
  ASSUME NEW s, Sound(s), s.role = "server", s.state = "waiting-hello",
         s.ready = "pending", s.accept = "resolved", s.delivered = 0,
         s.out = <<>>, NEW how \in Sends
  PROVE  Settled(Accepted(s, how))
<1> DEFINE sent == SendText(s, "hello-ok", how)
           ready == [sent EXCEPT !.timer = FALSE, !.state = "ready",
                                 !.helloInFlight = FALSE]
<1>1. "hello-ok" \in Frames /\ IsReply("hello-ok")
  BY DEF Frames, IsReply
<1>2. Sound(sent) /\ Keeps(s, sent) /\ SentOrClosed(s, sent)
  BY <1>1, SendTextSound
<1> HIDE DEF sent
<1>3. CASE ~SendOk(s, how)
  <2> DEFINE f == FailReady(sent)
             t == CloseSession(f)
  <2>1. Sound(f) /\ Keeps(sent, f)
    BY <1>2, FailReadySound
  <2> HIDE DEF f
  <2>2. Sound(t) /\ Keeps(f, t) /\ t.state = "closed"
    BY <2>1, CloseSound
  <2>3. Accepted(s, how) = t
    BY <1>3 DEF Accepted, sent, f
  <2> HIDE DEF t
  <2> QED BY <1>2, <2>1, <2>2, <2>3 DEF Keeps, Settled, Waiting, InUse
<1>4. CASE SendOk(s, how)
  <2> DEFINE t == SucceedReady(ready)
  <2>1. /\ ready \in Sessions /\ Keeps(sent, ready)
        /\ ready.state = "ready" /\ ~ready.timer /\ ready.ready = sent.ready
        /\ ready.out = sent.out /\ ready.up = sent.up
        /\ ready.closeNotified = sent.closeNotified
        /\ ready.closeCalls = sent.closeCalls
        /\ ready.drains = sent.drains /\ ready.listening = sent.listening
    BY <1>2 DEF Sound, Sessions, States, Keeps
  <2> HIDE DEF ready
  <2>2. /\ t \in Sessions /\ Keeps(ready, t)
        /\ t.state = "ready" /\ ~t.timer
        /\ t.ready = IF ready.ready = "pending" THEN "resolved" ELSE ready.ready
        /\ t.out = ready.out /\ t.up = ready.up
        /\ t.closeNotified = ready.closeNotified
        /\ t.closeCalls = ready.closeCalls
        /\ t.drains = ready.drains /\ t.listening = ready.listening
    BY <2>1 DEF Sessions, SucceedReady, Keeps
  <2>3. Accepted(s, how) = t
    BY <1>4 DEF Accepted, sent, ready
  <2> HIDE DEF t
  <2>4. Sound(t)
    BY <1>2, <2>1, <2>2 DEF Sound, ToldOnce, RepliesFirst, Keeps
  <2>5. Waiting(t)
    BY <1>2, <2>1, <2>2 DEF Waiting, Keeps
  <2>6. t.state = "ready" /\ t.up => t.out # <<>>
    BY <1>2, <2>1, <2>2 DEF Sound, ToldOnce, SentOrClosed
  <2>7. ~t.closeNotified => t.ready = "resolved"
    <3>1. sent.state = "closed" => t.closeNotified
      BY <1>2, <2>1, <2>2 DEF Sound, ToldOnce
    <3>2. sent.state # "closed" => sent.ready = s.ready
      BY <1>2 DEF SentOrClosed
    <3> QED BY <1>2, <2>1, <2>2, <3>1, <3>2 DEF Keeps, Sound, Sessions
  <2>8. t.role = "server" /\ t.accept = "resolved" /\ t.delivered = 0
    BY <1>2, <2>1, <2>2 DEF Keeps
  <2>9. InUse(t)
    BY <2>6, <2>7, <2>8 DEF InUse
  <2> QED BY <2>3, <2>4, <2>5, <2>9 DEF Settled
<1> QED BY <1>3, <1>4

LEMMA FreshSettled ==
  ASSUME NEW role \in Roles, NEW s \in Bound(role)
  PROVE  Settled(s) /\ s.state = "waiting-hello" /\ s.role = role
<1>1. <<>> \in Seq(Frames) /\ Len(<<>>) = 0
  BY EmptySeq
<1>2. HasHelloTimeout \in BOOLEAN /\ role \in {"client", "server"}
  BY HasHelloTimeoutAssumption, RolesAssumption
<1>3. /\ s \in Sessions /\ s.role = role /\ s.accept = "none"
      /\ s.delivered = 0 /\ s.state = "waiting-hello" /\ s.ready = "pending"
      /\ ~s.closeNotified /\ s.closeCalls = 0 /\ s.out = <<>>
  <2>1. Fresh(role) \in Sessions
    BY <1>1, <1>2 DEF Fresh, Sessions, States
  <2>2. CASE s = Fresh(role)
    BY <2>1, <2>2 DEF Fresh
  <2>3. CASE s = [Fresh(role) EXCEPT !.up = FALSE]
    <3>1. s \in Sessions
      BY <2>1, <2>3 DEF Sessions
    <3> QED BY <2>3, <3>1 DEF Fresh
  <2> QED BY <2>2, <2>3 DEF Bound
<1>4. Sound(s)
  BY <1>1, <1>3 DEF Sound, ToldOnce, RepliesFirst
<1>5. Waiting(s) /\ InUse(s)
  BY <1>3 DEF Waiting, InUse
<1> QED BY <1>3, <1>4, <1>5 DEF Settled

\* The constructor: a client has said hello, or is closed already.
LEMMA SessionInitInv == SessionInit => SessionInv
<1> SUFFICES ASSUME NEW role \in Roles, NEW s \in Bound(role), NEW how \in Sends,
                    session = Constructed(s, how)
             PROVE  Settled(session)
  BY DEF SessionInit, SessionInv
<1> DEFINE sent == SendText(s, "hello", how)
           f == FailReady(sent)
<1>0. Settled(s) /\ Sound(s) /\ s.state = "waiting-hello" /\ s.role = role
      /\ role \in {"client", "server"}
  BY FreshSettled, RolesAssumption DEF Settled
<1>1. CASE role = "server"
  BY <1>0, <1>1 DEF Constructed
<1>2. CASE role = "client"
  <2>1. "hello" \in Frames
    BY DEF Frames
  <2>2. Sound(sent) /\ Keeps(s, sent) /\ SentOrClosed(s, sent)
    BY <1>0, <1>2, <2>1, SendTextSound
  <2>3. session = IF SendOk(s, how) THEN sent ELSE CloseSession(f)
    BY <1>0, <1>2 DEF Constructed
  <2> HIDE DEF sent
  <2>4. Settled(sent)
    <3>1. CASE sent.state = "closed"
      BY <1>0, <2>2, <3>1, ClosedSettled
    <3>2. CASE sent.state # "closed"
      BY <1>0, <1>2, <2>2, <3>2 DEF SentOrClosed, Settled, Waiting, InUse, Keeps
    <3> QED BY <3>1, <3>2
  <2>5. Sound(f) /\ Keeps(sent, f)
    BY <2>2, FailReadySound
  <2> HIDE DEF f
  <2>6. Sound(CloseSession(f)) /\ Keeps(f, CloseSession(f))
        /\ CloseSession(f).state = "closed"
    BY <2>5, CloseSound
  <2>7. Settled(CloseSession(f))
    BY <2>4, <2>5, <2>6, ClosedSettled DEF Keeps
  <2> QED BY <2>3, <2>4, <2>7
<1> QED BY <1>0, <1>1, <1>2

\* An inbound frame while the session waits for the handshake.
LEMMA HandshakeSettled ==
  ASSUME NEW s, Settled(s), s.state = "waiting-hello",
         NEW text \in Texts, NEW how \in Sends
  PROVE  Settled(Handshake(s, text, how))
<1> DEFINE t == Handshake(s, text, how)
<1>0. Sound(s) /\ s \in Sessions /\ s.role \in {"client", "server"}
  BY RolesAssumption DEF Settled, Sound, Sessions
<1>1. CASE text = "garbage"
  <2>1. t = CloseSession(s)
    BY <1>1 DEF Handshake
  <2> QED BY <1>0, <2>1, CloseSound, ClosedSettled
<1>2. CASE text # "garbage" /\ s.role = "client" /\ text = "hello-ok"
  <2> DEFINE r == [s EXCEPT !.timer = FALSE, !.state = "ready"]
  <2>1. t = SucceedReady(r)
    BY <1>2 DEF Handshake
  <2>2. /\ t \in Sessions /\ t.role = "client" /\ t.accept = s.accept
        /\ t.delivered = s.delivered /\ t.state = "ready" /\ ~t.timer
        /\ t.ready = "resolved" /\ t.closeNotified = s.closeNotified
        /\ t.closeCalls = s.closeCalls /\ t.up = s.up /\ t.drains = s.drains
        /\ t.listening = s.listening /\ t.out = s.out
    <3>1. /\ r \in Sessions /\ r.role = "client" /\ r.accept = s.accept
          /\ r.delivered = s.delivered /\ r.state = "ready" /\ ~r.timer
          /\ r.ready = "pending" /\ r.closeNotified = s.closeNotified
          /\ r.closeCalls = s.closeCalls /\ r.up = s.up /\ r.drains = s.drains
          /\ r.listening = s.listening /\ r.out = s.out
      BY <1>0, <1>2 DEF Sessions, States, Settled, Waiting
    <3> HIDE DEF r
    <3> QED BY <2>1, <3>1 DEF Sessions, SucceedReady
  <2> HIDE DEF t
  <2>3. Sound(t)
    BY <2>2 DEF Settled, Sound, ToldOnce, RepliesFirst
  <2>4. Waiting(t) /\ InUse(t)
    BY <1>2, <2>2 DEF Settled, Waiting, InUse
  <2> QED BY <2>3, <2>4 DEF Settled, t
<1>3. CASE text # "garbage" /\ s.role = "client" /\ text # "hello-ok"
  <2>1. t = CloseSession(FailReady(s))
    BY <1>3 DEF Handshake
  <2>2. Sound(FailReady(s)) /\ Keeps(s, FailReady(s))
    BY <1>0, FailReadySound
  <2>3. Sound(t) /\ Keeps(FailReady(s), t) /\ t.state = "closed"
    BY <2>1, <2>2, CloseSound
  <2> QED BY <2>2, <2>3, ClosedSettled DEF Keeps
<1>4. CASE s.role = "server" /\ text = "hello" /\ ~s.helloInFlight
  <2>1. t = [s EXCEPT !.helloInFlight = TRUE, !.accept = "waiting",
                      !.acceptGeneration = s.helloGeneration]
    BY <1>4 DEF Handshake
  <2>2. /\ t \in Sessions /\ t.role = "server" /\ t.accept = "waiting"
        /\ t.delivered = s.delivered /\ t.state = s.state /\ t.timer = s.timer
        /\ t.ready = s.ready /\ t.closeNotified = s.closeNotified
        /\ t.closeCalls = s.closeCalls /\ t.up = s.up /\ t.drains = s.drains
        /\ t.listening = s.listening /\ t.out = s.out
    BY <1>0, <1>4, <2>1 DEF Sessions
  <2>5. t.acceptGeneration = t.helloGeneration
    BY <1>0, <2>1 DEF Sessions
  <2> HIDE DEF t
  <2>3. Sound(t)
    BY <1>4, <2>2 DEF Settled, Sound, ToldOnce, RepliesFirst
  <2>4. Waiting(t) /\ InUse(t)
    BY <1>4, <2>2, <2>5 DEF Settled, Waiting, InUse
  <2> QED BY <2>3, <2>4 DEF Settled, t
<1>5. CASE text # "garbage" /\ s.role = "server" /\ ~(text = "hello" /\ ~s.helloInFlight)
  <2>1. t = FailHandshake(s, how)
    BY <1>5 DEF Handshake
  <2>2. s.out = <<>>
    BY <1>5 DEF Settled, Waiting
  <2> QED BY <1>0, <2>1, <2>2, FailHandshakeCloses, ClosedSettled
<1> QED BY <1>0, <1>1, <1>2, <1>3, <1>4, <1>5

\* An inbound frame after the handshake.
LEMMA ReadySettled ==
  ASSUME NEW s, Settled(s), s.state = "ready", s.listening,
         NEW text \in Texts \ {"oversize"}
  PROVE  Settled(ReadyMessage(s, text))
<1> DEFINE t == ReadyMessage(s, text)
<1>0. Sound(s) /\ s \in Sessions /\ s.delivered + 1 \in Nat /\ ~s.closeNotified
      /\ s.delivered + 1 > 0
  BY DEF Settled, Sound, Sessions, ToldOnce
<1>1. CASE text \in {"garbage", "bad", "bad hello"}
  <2>1. t = CloseSession(s)
    BY <1>1 DEF ReadyMessage, Frames
  <2> QED BY <1>0, <2>1, CloseSound, ClosedSettled
<1>2. CASE text = "bad id"
  BY <1>2 DEF ReadyMessage, Frames
<1>3. CASE text \in Frames
  <2>1. t = [s EXCEPT !.delivered = @ + 1]
    BY <1>3 DEF ReadyMessage, Frames
  <2>2. /\ t \in Sessions /\ t.role = s.role /\ t.accept = s.accept
        /\ t.state = s.state /\ t.timer = s.timer
        /\ t.ready = s.ready /\ t.closeNotified = s.closeNotified
        /\ t.closeCalls = s.closeCalls /\ t.up = s.up /\ t.drains = s.drains
        /\ t.listening = s.listening /\ t.out = s.out
    BY <1>0, <2>1 DEF Sessions
  <2> HIDE DEF t
  <2>3. Sound(t)
    BY <2>2 DEF Settled, Sound, ToldOnce, RepliesFirst
  <2>4. Waiting(t) /\ InUse(t)
    BY <1>0, <2>2 DEF Settled, Waiting, InUse
  <2> QED BY <2>3, <2>4 DEF Settled, t
<1> QED BY <1>1, <1>2, <1>3 DEF Texts

LEMMA InboundInv ==
  ASSUME SessionInv, NEW text \in Texts, Inbound(text)
  PROVE  SessionInv'
<1> SUFFICES ASSUME NEW how \in Sends,
               session' = IF text = "oversize" THEN CloseSession(FailReady(session))
                          ELSE IF session.state = "waiting-hello"
                          THEN Handshake(session, text, how)
                          ELSE ReadyMessage(session, text)
             PROVE  Settled(session')
  BY DEF Inbound, SessionInv
<1>1. Settled(session) /\ Sound(session) /\ session.listening
      /\ session.state \in {"waiting-hello", "ready"}
  BY DEF Inbound, SessionInv, Settled, Sound, Sessions, States
<1>2. CASE text = "oversize"
  <2> DEFINE f == FailReady(session)
  <2>1. Sound(f) /\ Keeps(session, f)
    BY <1>1, FailReadySound
  <2>2. Sound(CloseSession(f)) /\ Keeps(f, CloseSession(f))
        /\ CloseSession(f).state = "closed"
    BY <2>1, CloseSound
  <2> QED BY <1>1, <1>2, <2>1, <2>2, ClosedSettled DEF Keeps
<1>3. CASE text # "oversize" /\ session.state = "waiting-hello"
  BY <1>1, <1>3, HandshakeSettled
<1>4. CASE text # "oversize" /\ session.state = "ready"
  BY <1>1, <1>4, ReadySettled
<1> QED BY <1>1, <1>2, <1>3, <1>4

\* onHello resolves or rejects: the session is closed, or still waits for it.
LEMMA OnHelloInv ==
  ASSUME SessionInv, OnHelloResolves \/ OnHelloRejects
  PROVE  SessionInv'
<1> DEFINE S(answer) == [session EXCEPT !.accept = answer]
<1>1. PICK answer \in {"resolved", "rejected"}, how \in Sends :
         session' = IF Abandoned(S(answer)) THEN S(answer)
                    ELSE IF answer = "resolved" THEN Accepted(S(answer), how)
                    ELSE FailHandshake(S(answer), how)
  BY DEF OnHelloResolves, OnHelloRejects
<1> DEFINE s == S(answer)
<1>2. Settled(session) /\ session \in Sessions /\ session.accept = "waiting"
      /\ session.role = "server" /\ session.state \in {"waiting-hello", "closed"}
      /\ session.delivered = 0
  BY RolesAssumption DEF OnHelloResolves, OnHelloRejects, SessionInv, Settled, Sound,
     Sessions, States, Waiting, InUse
<1>3. /\ s \in Sessions /\ s.accept = answer
      /\ s.role = "server" /\ s.delivered = 0 /\ s.state = session.state
      /\ s.timer = session.timer /\ s.ready = session.ready
      /\ s.closeNotified = session.closeNotified
      /\ s.closeCalls = session.closeCalls /\ s.up = session.up
      /\ s.drains = session.drains /\ s.listening = session.listening
      /\ s.out = session.out
      /\ s.acceptGeneration = session.acceptGeneration
      /\ s.helloGeneration = session.helloGeneration
  BY <1>2 DEF Sessions
<1>4. session' = IF Abandoned(s) THEN s
                 ELSE IF answer = "resolved" THEN Accepted(s, how)
                 ELSE FailHandshake(s, how)
  BY <1>1
<1> HIDE DEF s
<1>5. Sound(s)
  BY <1>2, <1>3 DEF Settled, Sound, ToldOnce, RepliesFirst
<1>6. CASE s.state = "closed"
  <2>1. Settled(s)
    BY <1>3, <1>5, <1>6 DEF Settled, Waiting, InUse
  <2> QED BY <1>4, <1>6, <2>1 DEF Abandoned, SessionInv
<1>7. CASE s.state = "waiting-hello"
  <2>1. s.out = <<>> /\ s.ready = "pending"
    BY <1>2, <1>3, <1>7 DEF Settled, Waiting
  <2>2. ~Abandoned(s)
    BY <1>2, <1>3, <1>7 DEF Settled, Waiting, Abandoned
  <2>3. CASE answer = "resolved"
    BY <1>3, <1>4, <1>5, <1>7, <2>1, <2>2, <2>3, AcceptedSettled DEF SessionInv
  <2>4. CASE answer = "rejected"
    <3> DEFINE t == FailHandshake(s, how)
    <3>1. Sound(t) /\ Keeps(s, t) /\ t.state = "closed"
      BY <1>5, <2>1, FailHandshakeCloses
    <3> QED BY <1>3, <1>4, <2>2, <2>4, <3>1 DEF Keeps, Settled, Waiting, InUse, SessionInv
  <2> QED BY <2>3, <2>4
<1> QED BY <1>2, <1>3, <1>6, <1>7

LEMMA SessionStepInv == SessionInv /\ [SessionNext]_session => SessionInv'
<1> SUFFICES ASSUME SessionInv, [SessionNext]_session PROVE Settled(session')
  BY DEF SessionInv
<1>0. Settled(session) /\ Sound(session) /\ session \in Sessions
  BY DEF SessionInv, Settled, Sound
<1>1. ASSUME NEW text \in Texts, Inbound(text) PROVE Settled(session')
  BY <1>1, InboundInv DEF SessionInv
<1>2. CASE OnHelloResolves \/ OnHelloRejects
  BY <1>2, OnHelloInv DEF SessionInv
<1>3. CASE OnHelloTimeout
  <2>1. CASE session.state = "waiting-hello"
    <3> DEFINE f == FailReady(session)
    <3>1. session' = CloseSession(f)
      BY <1>3, <2>1 DEF OnHelloTimeout
    <3>2. Sound(f) /\ Keeps(session, f)
      BY <1>0, FailReadySound
    <3>3. Sound(CloseSession(f)) /\ Keeps(f, CloseSession(f))
          /\ CloseSession(f).state = "closed"
      BY <3>2, CloseSound
    <3> QED BY <1>0, <3>1, <3>2, <3>3, ClosedSettled DEF Keeps
  <2>2. CASE session.state # "waiting-hello"
    <3>1. session' = [session EXCEPT !.timer = FALSE]
      BY <1>3, <2>2 DEF OnHelloTimeout
    <3>2. /\ session' \in Sessions
          /\ session'.state = session.state /\ session'.role = session.role
          /\ session'.out = session.out /\ session'.ready = session.ready
          /\ session'.accept = session.accept
          /\ session'.closeNotified = session.closeNotified
          /\ session'.closeCalls = session.closeCalls
          /\ session'.drains = session.drains /\ session'.up = session.up
          /\ session'.listening = session.listening
          /\ session'.delivered = session.delivered /\ ~session'.timer
      BY <1>0, <3>1 DEF Sessions
    <3> QED BY <1>0, <2>2, <3>2
            DEF Settled, Sound, ToldOnce, RepliesFirst, Waiting, InUse
  <2> QED BY <2>1, <2>2
<1>4. CASE PipeCloses
  <2>1. session' = [session EXCEPT !.up = FALSE]
    BY <1>4 DEF PipeCloses
  <2>2. /\ session' \in Sessions
        /\ session'.state = session.state /\ session'.role = session.role
        /\ session'.out = session.out /\ session'.ready = session.ready
        /\ session'.accept = session.accept
        /\ session'.acceptGeneration = session.acceptGeneration
        /\ session'.helloGeneration = session.helloGeneration
        /\ session'.closeNotified = session.closeNotified
        /\ session'.closeCalls = session.closeCalls
        /\ session'.drains = session.drains /\ session'.timer = session.timer
        /\ session'.listening = session.listening
        /\ session'.delivered = session.delivered /\ ~session'.up
    BY <1>0, <2>1 DEF Sessions
  <2> QED BY <1>0, <2>2 DEF Settled, Sound, ToldOnce, RepliesFirst, Waiting, InUse
<1>5. CASE OnDuplexClose \/ DrainRejects \/ OwnerCloses
  <2>1. session' \in {CloseSession(session), DuplexClosed(session)}
    BY <1>5 DEF OnDuplexClose, DrainRejects, OwnerCloses
  <2> QED BY <1>0, <2>1, CloseSound, ClosedSettled
<1>6. CASE DrainSettles
  <2>1. session' = [session EXCEPT !.drains = @ - 1] /\ session.drains - 1 \in Nat
        /\ session.drains # 0
    BY <1>0, <1>6 DEF DrainSettles, Sessions
  <2>2. /\ session' \in Sessions
        /\ session'.state = session.state /\ session'.role = session.role
        /\ session'.out = session.out /\ session'.ready = session.ready
        /\ session'.accept = session.accept
        /\ session'.acceptGeneration = session.acceptGeneration
        /\ session'.helloGeneration = session.helloGeneration
        /\ session'.closeNotified = session.closeNotified
        /\ session'.closeCalls = session.closeCalls
        /\ session'.timer = session.timer /\ session'.up = session.up
        /\ session'.listening = session.listening
        /\ session'.delivered = session.delivered
    BY <1>0, <2>1 DEF Sessions
  <2> QED BY <1>0, <2>1, <2>2
          DEF Settled, Sound, ToldOnce, RepliesFirst, Waiting, InUse
<1>7. CASE OwnerSends
  <2>1. PICK how \in Sends : session' = SendText(session, "app", how)
    BY <1>7 DEF OwnerSends
  <2>2. "app" \in Frames /\ ~IsReply("app")
    BY DEF Frames, IsReply
  <2>3. session.state # "waiting-hello"
    BY <1>0, <1>7 DEF OwnerSends, Settled, Waiting
  <2>4. Sound(session') /\ Keeps(session, session') /\ SentOrClosed(session, session')
    <3>1. session.role = "server" /\ session.state # "closed" /\ session.up
            => session.out # <<>>
      BY <1>0, <2>3 DEF Settled, InUse, Sessions, States
    <3> QED BY <1>0, <2>1, <2>2, <3>1, SendTextSound
  <2>5. CASE session'.state = "closed"
    BY <1>0, <2>4, <2>5, ClosedSettled
  <2>6. CASE session'.state # "closed"
    BY <1>0, <2>3, <2>4, <2>6 DEF SentOrClosed, Settled, Waiting, InUse, Keeps
  <2> QED BY <2>5, <2>6
<1>8. CASE UNCHANGED session
  BY <1>0, <1>8
<1> QED BY <1>1, <1>2, <1>3, <1>4, <1>5, <1>6, <1>7, <1>8 DEF SessionNext

-----------------------------------------------------------------------------
(* The theorems *)

\* Every session the turns of session.ts reach satisfies the invariant.
THEOREM SessionInvariant == SessionSpec => []SessionInv
<1>1. SessionInit => SessionInv
  BY SessionInitInv
<1>2. SessionInv /\ [SessionNext]_session => SessionInv'
  BY SessionStepInv
<1> QED BY <1>1, <1>2, PTL DEF SessionSpec

\* The fields of a session keep their types (session.ts).
THEOREM SessionType == SessionSpec => []SessionTypeOK
<1>1. SessionInv => SessionTypeOK
  BY DEF SessionInv, Settled, Sound, SessionTypeOK
<1> QED BY <1>1, SessionInvariant, PTL

\* enterClosed and notifyClosed: whichever of close(), the duplex, a failed
\* send, a rejected drain or the hello timer comes first, and whatever comes
\* after it, the owner is told once and nothing of the session is left.
THEOREM SessionClosesOnce == SessionSpec => []ClosedIsClean
<1>1. SessionInv => ClosedIsClean
  BY DEF SessionInv, Settled, Sound, ToldOnce, ClosedIsClean
<1> QED BY <1>1, SessionInvariant, PTL

\* acceptHello and failHandshake: over all orders of a second hello, the
\* context factory's answer, the timer and the close, one reply goes out, it
\* is the first frame, and nothing is delivered before it.
THEOREM SessionRepliesOnce == SessionSpec => []OneReply
<1>1. SessionInv => OneReply
  BY DEF SessionInv, Settled, Sound, RepliesFirst, InUse, OneReply, DeliveredAfterHandshake
<1> QED BY <1>1, SessionInvariant, PTL

-----------------------------------------------------------------------------
(***************************************************************************)
(* The adapters.  Each is one direction of a pipe: every step of it is one *)
(* of DuplexPipe's, or none.                                               *)
(***************************************************************************)

\* PortDuplex: it is started after the session has subscribed.
PortInv ==
  /\ DOMAIN port = {"started", "subscribed", "closed", "ownerClosed", "told", "taken",
                    "posted", "received"}
  /\ port.closed \in BOOLEAN /\ port.told \in Nat /\ port.taken \in Nat
  /\ port.started => port.subscribed
  /\ port.closed <=> port.told > 0

LEMMA ClosePortFacts ==
  ASSUME PortInv, port.started, NEW p, p = port \/ p = [port EXCEPT !.ownerClosed = TRUE]
  PROVE  LET q == ClosePort(p)
         IN  /\ DOMAIN q = DOMAIN port
             /\ q.closed /\ q.told \in Nat /\ q.told > 0 /\ q.taken = port.taken
             /\ q.started = port.started /\ q.subscribed = port.subscribed
             /\ port.closed => q.told = port.told
<1>1. /\ DOMAIN p = DOMAIN port
      /\ p.closed = port.closed /\ p.told = port.told /\ p.taken = port.taken
      /\ p.started = port.started /\ p.subscribed = port.subscribed
  BY DEF PortInv
<1>2. CASE p.closed
  BY <1>1, <1>2 DEF PortInv, ClosePort
<1>3. CASE ~p.closed
  <2>1. ClosePort(p) = [p EXCEPT !.closed = TRUE, !.told = @ + 1]
    BY <1>1, <1>3 DEF PortInv, ClosePort
  <2> DEFINE q == ClosePort(p)
  <2>2. DOMAIN q = DOMAIN p
    BY <2>1
  <2>3. q.closed /\ q.told = p.told + 1
    BY <1>1, <2>1 DEF PortInv
  <2>4. q.taken = p.taken /\ q.started = p.started /\ q.subscribed = p.subscribed
    BY <1>1, <2>1 DEF PortInv
  <2> HIDE DEF q
  <2>5. q.told \in Nat /\ q.told > 0
    BY <1>1, <2>3 DEF PortInv
  <2>6. ~port.closed
    BY <1>1, <1>3
  <2> QED BY <1>1, <2>2, <2>3, <2>4, <2>5, <2>6 DEF q
<1> QED BY <1>2, <1>3

LEMMA PortStep ==
  ASSUME PortInv, PortNext
  PROVE  /\ PortInv'
         /\ PortPipe!PipeNext \/ UNCHANGED PortPipe!pipe
<1>1. ASSUME port.started, NEW p, p = port \/ p = [port EXCEPT !.ownerClosed = TRUE],
             port' = ClosePort(p)
      PROVE  PortInv' /\ (PortPipe!Close \/ UNCHANGED PortPipe!pipe)
  <2>1. /\ DOMAIN port' = DOMAIN port
        /\ port'.closed /\ port'.told \in Nat /\ port'.told > 0
        /\ port'.taken = port.taken
        /\ port'.started = port.started /\ port'.subscribed = port.subscribed
        /\ port.closed => port'.told = port.told
    BY <1>1, ClosePortFacts
  <2>2. PortInv'
    BY <1>1, <2>1 DEF PortInv
  <2>3. CASE ~port.closed
    <3>1. [i \in 1 .. port'.taken |-> i] = [i \in 1 .. port.taken |-> i]
      BY <2>1
    <3> QED BY <2>1, <2>2, <2>3, <3>1 DEF PortPipe!Close
  <2>4. CASE port.closed
    BY <2>1, <2>2, <2>4 DEF PortPipe!pipe, PortInv
  <2> QED BY <2>2, <2>3, <2>4
<1>2. ASSUME UNCHANGED <<port.closed, port.told, port.taken>>,
             DOMAIN port' = DOMAIN port, port'.started => port'.subscribed
      PROVE  PortInv' /\ UNCHANGED PortPipe!pipe
  BY <1>2 DEF PortInv, PortPipe!pipe
<1>3. CASE PortBinds \/ PeerPosts
  <2>1. /\ UNCHANGED <<port.closed, port.told, port.taken>> /\ DOMAIN port' = DOMAIN port
        /\ port'.started => port'.subscribed
    BY <1>3 DEF PortInv, PortBinds, PeerPosts
  <2> QED BY <1>2, <2>1
<1>4. CASE PortMessage
  <2>1. CASE port' = [port EXCEPT !.received = @ + 1]
    <3>1. /\ UNCHANGED <<port.closed, port.told, port.taken>> /\ DOMAIN port' = DOMAIN port
          /\ port'.started => port'.subscribed
      BY <2>1 DEF PortInv
    <3> QED BY <1>2, <3>1
  <2> QED BY <1>1, <1>4, <2>1 DEF PortMessage, PortPipe!PipeNext
<1>5. CASE PortSend
  <2>1. /\ UNCHANGED <<port.closed, port.told, port.started, port.subscribed>>
        /\ DOMAIN port' = DOMAIN port /\ port'.taken = port.taken + 1 /\ ~port.closed
    BY <1>5 DEF PortInv, PortSend
  <2>2. PortInv'
    BY <2>1 DEF PortInv
  <2>3. port.taken + 1 \in Len([i \in 1 .. port.taken |-> i]) .. port.taken + 1
    <3>1. Len([i \in 1 .. port.taken |-> i]) = port.taken
      BY DEF PortInv
    <3> QED BY <3>1 DEF PortInv
  <2>4. PortPipe!Passes
    BY <2>1, <2>3 DEF PortPipe!Passes, PortPipe!First
  <2>5. PortPipe!Send
    BY <2>1, <2>4 DEF PortPipe!Send
  <2> QED BY <2>2, <2>5 DEF PortPipe!PipeNext
<1>6. CASE PortClosed \/ PortOwnerCloses
  BY <1>1, <1>6 DEF PortClosed, PortOwnerCloses, PortPipe!PipeNext
<1> QED BY <1>3, <1>4, <1>5, <1>6 DEF PortNext

\* port.ts: a port under a session is a pipe.
THEOREM PortIsPipe == PortSpec => PortPipe!PipeSafety
<1>1. PortInit => PortInv /\ PortPipe!PipeInit
  BY DEF PortInit, PortInv, PortPipe!PipeInit
<1>2. PortInv /\ [PortNext]_port
        => PortInv' /\ (PortPipe!PipeNext \/ UNCHANGED PortPipe!pipe)
  <2>1. CASE PortNext
    BY <2>1, PortStep
  <2>2. CASE UNCHANGED port
    BY <2>2 DEF PortInv, PortPipe!pipe
  <2> QED BY <2>1, <2>2
<1> QED BY <1>1, <1>2, PTL DEF PortSpec, PortPipe!PipeSafety

\* StdioDuplex: whoever closes it tells the owner in the same turn.
StdioFields ==
  {"read", "flowing", "ended", "pending", "delivered", "closed", "tasks",
   "drainWaiters", "taken", "told"}

StdioInv ==
  /\ DOMAIN stdio = StdioFields
  /\ stdio.closed \in BOOLEAN /\ stdio.told \in BOOLEAN
  /\ stdio.taken \in Nat /\ stdio.drainWaiters \in Nat
  /\ stdio.closed <=> stdio.told
  /\ stdio.closed => stdio.drainWaiters = 0

\* s has of stdio what the pipe sees of it.
SamePipe(s) ==
  /\ DOMAIN s = StdioFields
  /\ s.closed = stdio.closed /\ s.told = stdio.told
  /\ s.taken = stdio.taken /\ s.drainWaiters = stdio.drainWaiters

StdioMoves == StdioInv' /\ (StdioPipe!PipeNext \/ UNCHANGED StdioPipe!pipe)

LEMMA StdioKeeps == ASSUME StdioInv, SamePipe(stdio') PROVE StdioMoves
<1>1. StdioInv'
  BY DEF StdioInv, SamePipe
<1>2. UNCHANGED StdioPipe!pipe
  BY DEF SamePipe, StdioPipe!pipe
<1> QED BY <1>1, <1>2 DEF StdioMoves

LEMMA StdioCloses ==
  ASSUME StdioInv, NEW s, SamePipe(s), stdio' = CloseStdio(s) PROVE StdioMoves
<1>1. CASE stdio.closed
  <2>1. stdio' = s
    BY <1>1 DEF CloseStdio, SamePipe
  <2> QED BY <2>1, StdioKeeps DEF SamePipe
<1>2. CASE ~stdio.closed
  <2>1. stdio' = [s EXCEPT !.closed = TRUE, !.pending = <<>>, !.drainWaiters = 0,
                           !.told = TRUE]
    BY <1>2 DEF CloseStdio, SamePipe
  <2>2. DOMAIN stdio' = StdioFields
    BY <2>1 DEF SamePipe
  <2>3. stdio'.closed /\ stdio'.told
    BY <2>1 DEF SamePipe, StdioFields
  <2>4. stdio'.drainWaiters = 0 /\ stdio'.taken = stdio.taken
    BY <2>1 DEF SamePipe, StdioFields
  <2>5. StdioInv'
    BY <2>1, <2>2, <2>3, <2>4 DEF StdioInv, SamePipe, StdioFields
  <2>6. UNCHANGED <<stdio.taken, [i \in 1 .. stdio.taken |-> i]>>
    BY <2>4
  <2>7. StdioPipe!Close
    BY <1>2, <2>3, <2>4, <2>6 DEF StdioPipe!Close
  <2> QED BY <2>5, <2>7 DEF StdioMoves, StdioPipe!PipeNext
<1> QED BY <1>1, <1>2

LEMMA StdioStep == ASSUME StdioInv, StdioNext PROVE StdioMoves
<1> USE DEF StdioFields
<1>1. CASE DataArrives
  <2>1. PICK m, n : stdio' = OnData([stdio EXCEPT !.read = m],
                                    SubSeq(PeerText, stdio.read + 1, m), n)
    BY <1>1 DEF DataArrives
  <2> DEFINE split == NextLines([stdio EXCEPT !.read = m].pending
                                  \o SubSeq(PeerText, stdio.read + 1, m))
             after == [[stdio EXCEPT !.read = m] EXCEPT
                       !.delivered = @ \o SubSeq(split.lines, 1, n)]
             kept == [after EXCEPT !.pending = split.rest]
  <2>2. stdio' \in {CloseStdio(after), kept}
    BY <2>1 DEF OnData
  <2>3. SamePipe(after) /\ SamePipe(kept)
    <3> HIDE DEF split
    <3> QED BY DEF StdioInv, SamePipe
  <2> HIDE DEF after, kept
  <2> QED BY <2>2, <2>3, StdioCloses, StdioKeeps
<1>2. CASE OnEnd
  <2> DEFINE ended == [stdio EXCEPT !.ended = TRUE, !.pending = <<>>]
             line == Trim(stdio.pending)
             rest == IF line = <<>> THEN ended.delivered ELSE Append(ended.delivered, line)
             kept == [ended EXCEPT !.tasks = @ + 1, !.delivered = rest]
  <2>1. stdio' \in {CloseStdio(ended), kept}
    BY <1>2 DEF OnEnd
  <2>2. SamePipe(ended) /\ SamePipe(kept)
    <3> HIDE DEF rest
    <3> QED BY DEF StdioInv, SamePipe
  <2> HIDE DEF ended, kept
  <2> QED BY <2>1, <2>2, StdioCloses, StdioKeeps
<1>3. CASE OnInputClose \/ StdioPause \/ StdioResume
  <2>1. SamePipe(stdio')
    BY <1>3 DEF OnInputClose, StdioPause, StdioResume, StdioInv, SamePipe
  <2> QED BY <2>1, StdioKeeps
<1>4. CASE CloseTask
  <2>1. SamePipe([stdio EXCEPT !.tasks = @ - 1])
    BY DEF StdioInv, SamePipe
  <2> QED BY <1>4, <2>1, StdioCloses DEF CloseTask
<1>5. SamePipe(stdio)
  BY DEF StdioInv, SamePipe
<1>6. CASE StreamFails \/ StdioOwnerCloses
  BY <1>5, <1>6, StdioCloses DEF StreamFails, StdioOwnerCloses
<1>7. CASE StdioSend
  <2>1. CASE stdio' = CloseStdio(stdio)
    BY <1>5, <2>1, StdioCloses
  <2>2. CASE \/ stdio' = [stdio EXCEPT !.taken = @ + 1]
             \/ stdio' = [[stdio EXCEPT !.taken = @ + 1] EXCEPT !.drainWaiters = @ + 1]
    <3>1. /\ DOMAIN stdio' = DOMAIN stdio /\ stdio'.taken = stdio.taken + 1
          /\ UNCHANGED <<stdio.closed, stdio.told>>
      BY <2>2 DEF StdioInv
    <3>2. stdio'.drainWaiters \in {stdio.drainWaiters, stdio.drainWaiters + 1}
      BY <2>2 DEF StdioInv
    <3>3. ~stdio.closed /\ ~stdio.told
      BY <1>7 DEF StdioSend, StdioInv
    <3>4. StdioInv'
      BY <3>1, <3>2, <3>3 DEF StdioInv
    <3>5. stdio.taken + 1 \in Len([i \in 1 .. stdio.taken |-> i]) .. stdio.taken + 1
      <4>1. Len([i \in 1 .. stdio.taken |-> i]) = stdio.taken
        BY DEF StdioInv
      <4> QED BY <4>1 DEF StdioInv
    <3>6. StdioPipe!Passes
      BY <3>1, <3>5 DEF StdioPipe!Passes, StdioPipe!First
    <3>7. StdioPipe!Send
      BY <3>1, <3>2, <3>3, <3>6 DEF StdioPipe!Send
    <3> QED BY <3>4, <3>7 DEF StdioMoves, StdioPipe!PipeNext
  <2> QED BY <1>7, <2>1, <2>2 DEF StdioSend
<1>8. CASE OnDrain
  <2>1. /\ DOMAIN stdio' = DOMAIN stdio /\ stdio'.drainWaiters = 0
        /\ UNCHANGED <<stdio.closed, stdio.told, stdio.taken>>
    BY <1>8 DEF OnDrain, StdioInv
  <2>2. ~stdio.closed /\ ~stdio.told
    BY <1>8 DEF OnDrain, StdioInv
  <2>3. StdioInv'
    BY <2>1, <2>2 DEF StdioInv
  <2>4. stdio.taken \in Len([i \in 1 .. stdio.taken |-> i]) .. stdio.taken
    <3>1. Len([i \in 1 .. stdio.taken |-> i]) = stdio.taken
      BY DEF StdioInv
    <3> QED BY <3>1 DEF StdioInv
  <2>5. StdioPipe!Passes
    BY <2>1, <2>4 DEF StdioPipe!Passes, StdioPipe!First
  <2>6. StdioPipe!Deliver
    BY <2>1, <2>2, <2>5 DEF StdioPipe!Deliver
  <2> QED BY <2>3, <2>6 DEF StdioMoves, StdioPipe!PipeNext
<1> QED BY <1>1, <1>2, <1>3, <1>4, <1>6, <1>7, <1>8 DEF StdioNext

LEMMA StdioStarts == StdioInit => StdioInv /\ StdioPipe!PipeInit
  BY DEF StdioInit, StdioInv, StdioFields, StdioPipe!PipeInit

LEMMA StdioStutters == ASSUME StdioInv, UNCHANGED stdio PROVE StdioMoves
  BY DEF StdioInv, StdioFields, StdioMoves, StdioPipe!pipe

\* stdio.ts: the NDJSON duplex is a pipe, and no drain promise outlives it.
THEOREM StdioIsPipe == StdioSpec => StdioPipe!PipeSafety /\ []StdioInv
<1>1. StdioInv /\ [StdioNext]_stdio
        => StdioInv' /\ (StdioPipe!PipeNext \/ UNCHANGED StdioPipe!pipe)
  BY StdioStep, StdioStutters DEF StdioMoves
<1> QED BY StdioStarts, <1>1, PTL DEF StdioSpec, StdioPipe!PipeSafety

-----------------------------------------------------------------------------
(***************************************************************************)
(* Induction over the naturals without an operator as a parameter: a set   *)
(* of naturals with 0 and all successors is Nat, by the well-foundedness   *)
(* of <.                                                                   *)
(***************************************************************************)
Less == {ss \in Nat \X Nat : ss[1] < ss[2]}

LEMMA LessWellFounded == IsWellFoundedOn(Less, Nat)
BY NatLessThanWellFounded DEF OpToRel, Less

LEMMA LeastExists ==
  ASSUME NEW T \in SUBSET Nat, T # {}
  PROVE  \E n \in T : \A m \in T : n <= m
<1>1. PICK n \in T : \A m \in T : ~(<<m, n>> \in Less)
  BY LessWellFounded, WFMin
<1>2. \A m \in T : ~(m < n)
  BY <1>1 DEF Less
<1> QED BY <1>2

LEMMA SetInduction ==
  ASSUME NEW T \in SUBSET Nat, 0 \in T, \A n \in T : n + 1 \in T
  PROVE  T = Nat
<1>1. SUFFICES ASSUME Nat \ T # {} PROVE FALSE
  OBVIOUS
<1>2. PICK n \in Nat \ T : \A m \in Nat \ T : n <= m
  BY <1>1, LeastExists
<1>3. n # 0 /\ n - 1 \in Nat
  BY <1>2
<1> QED BY <1>2, <1>3

\* A bounded set of naturals that is not empty has a maximum.
LEMMA MaxExists ==
  ASSUME NEW n \in Nat, NEW T \in SUBSET (0 .. n), T # {}
  PROVE  Max(T) \in T /\ \A m \in T : m <= Max(T)
<1> DEFINE gaps == {n - m : m \in T}
<1>1. gaps \in SUBSET Nat /\ gaps # {}
  <2>1. \A m \in T : n - m \in Nat
    OBVIOUS
  <2>2. PICK m \in T : TRUE
    OBVIOUS
  <2>3. n - m \in gaps
    OBVIOUS
  <2> QED BY <2>1, <2>3
<1>2. PICK g \in gaps : \A h \in gaps : g <= h
  BY <1>1, LeastExists
<1>3. PICK x \in T : g = n - x
  BY <1>2
<1>4. \A m \in T : x >= m
  BY <1>2, <1>3
<1>5. \E y \in T : \A m \in T : y >= m
  BY <1>4
<1>6. Max(T) \in T /\ \A m \in T : Max(T) >= m
  BY <1>5 DEF Max
<1> QED BY <1>6

-----------------------------------------------------------------------------
(* Lines *)

\* What a text is made of.
Tokens == STRING \cup {"nl"}

\* The texts that are lines; that trim() gives one is all the proofs use of it.
TrimmedTexts == {Trim(line) : line \in Seq(Tokens)}

\* The newlines before place i, and a place for the start of the text.
NewlinesBefore(text, i) == {0} \cup {j \in 1 .. i - 1 : text[j] = "nl"}

\* What follows the last newline.
RestOf(text) == SubSeq(text, LineStart(text, Len(text) + 1), Len(text))

LEMMA LineStartType ==
  ASSUME NEW text \in Seq(Tokens), NEW i \in 1 .. Len(text) + 1
  PROVE  /\ LineStart(text, i) \in 1 .. i
         /\ \A j \in LineStart(text, i) .. i - 1 : text[j] # "nl"
         /\ LineStart(text, i) = 1 + Max(NewlinesBefore(text, i))
<1> DEFINE marks == NewlinesBefore(text, i)
<1>1. i - 1 \in Nat /\ marks \in SUBSET (0 .. i - 1) /\ marks # {}
  BY DEF NewlinesBefore
<1>2. Max(marks) \in marks /\ \A m \in marks : m <= Max(marks)
  BY <1>1, MaxExists
<1>a. PICK last \in Nat : last = Max(marks)
  BY <1>1, <1>2
<1>3. LineStart(text, i) = 1 + last
  BY <1>a DEF LineStart, NewlinesBefore
<1>4. LineStart(text, i) \in 1 .. i
  BY <1>1, <1>2, <1>3, <1>a
<1>5. ASSUME NEW j \in LineStart(text, i) .. i - 1, text[j] = "nl" PROVE FALSE
  <2>1. j \in marks
    BY <1>4, <1>5 DEF NewlinesBefore
  <2>2. j <= last
    BY <1>2, <1>a, <2>1
  <2> QED BY <1>3, <1>4, <2>2
<1> QED BY <1>3, <1>4, <1>5, <1>a

LEMMA RestType ==
  ASSUME NEW text \in Seq(Tokens)
  PROVE  /\ RestOf(text) \in Seq(Tokens)
         /\ \A i \in 1 .. Len(RestOf(text)) : RestOf(text)[i] # "nl"
<1> DEFINE first == LineStart(text, Len(text) + 1)
           n == Len(text)
<1>1. n \in Nat
  OBVIOUS
<1>2. first \in 1 .. n + 1 /\ \A j \in first .. n : text[j] # "nl"
  BY <1>1, LineStartType
<1> HIDE DEF first
<1>3. RestOf(text) = SubSeq(text, first, n)
  BY DEF RestOf, first
<1>4. \A i \in first .. n : i \in 1 .. n
  BY <1>1, <1>2
<1>5. RestOf(text) \in Seq(Tokens) /\ Len(RestOf(text)) = (IF first <= n THEN n - first + 1 ELSE 0)
      /\ \A i \in 1 .. n - first + 1 : RestOf(text)[i] = text[first + i - 1]
  BY <1>1, <1>2, <1>3, <1>4, SubSeqProperties
<1>6. \A i \in 1 .. n - first + 1 : first + i - 1 \in first .. n
  BY <1>1, <1>2
<1>7. Len(RestOf(text)) = n - first + 1
  BY <1>1, <1>2, <1>5
<1> QED BY <1>2, <1>5, <1>6, <1>7

\* One token more does not move the lines there were.
LEMMA AppendKeepsStarts ==
  ASSUME NEW text \in Seq(Tokens), NEW t \in Tokens, NEW i \in 1 .. Len(text) + 1
  PROVE  LineStart(Append(text, t), i) = LineStart(text, i)
<1>1. \A j \in 1 .. i - 1 : Append(text, t)[j] = text[j]
  BY AppendProperties
<1>2. {j \in 1 .. i - 1 : Append(text, t)[j] = "nl"} = {j \in 1 .. i - 1 : text[j] = "nl"}
  BY <1>1
<1> QED BY <1>2 DEF LineStart

LEMMA AppendKeepsSubSeq ==
  ASSUME NEW text \in Seq(Tokens), NEW t \in Tokens,
         NEW a \in 1 .. Len(text) + 1, NEW b \in 0 .. Len(text)
  PROVE  SubSeq(Append(text, t), a, b) = SubSeq(text, a, b)
<1> DEFINE n == Len(text)
           longer == Append(text, t)
<1>1. n \in Nat /\ longer \in Seq(Tokens) /\ Len(longer) = n + 1
      /\ \A j \in 1 .. n : longer[j] = text[j]
  BY AppendProperties
<1>2. \A j \in a .. b : j \in 1 .. n /\ j \in 1 .. n + 1
  BY <1>1
<1> HIDE DEF n, longer
<1>3. /\ SubSeq(longer, a, b) \in Seq(Tokens)
      /\ Len(SubSeq(longer, a, b)) = IF a <= b THEN b - a + 1 ELSE 0
      /\ \A j \in 1 .. b - a + 1 : SubSeq(longer, a, b)[j] = longer[a + j - 1]
  BY <1>1, <1>2, SubSeqProperties DEF n
<1>4. /\ SubSeq(text, a, b) \in Seq(Tokens)
      /\ Len(SubSeq(text, a, b)) = IF a <= b THEN b - a + 1 ELSE 0
      /\ \A j \in 1 .. b - a + 1 : SubSeq(text, a, b)[j] = text[a + j - 1]
  BY <1>1, <1>2, SubSeqProperties DEF n
<1>5. \A j \in 1 .. b - a + 1 : a + j - 1 \in 1 .. n
  BY <1>1 DEF n
<1>6. Len(SubSeq(longer, a, b)) = Len(SubSeq(text, a, b))
  BY <1>3, <1>4
<1>7. \A j \in 1 .. b - a + 1 : SubSeq(longer, a, b)[j] = SubSeq(text, a, b)[j]
  BY <1>1, <1>3, <1>4, <1>5
<1>8. 1 .. Len(SubSeq(text, a, b)) \subseteq 1 .. b - a + 1
  BY <1>4
<1> QED BY <1>3, <1>4, <1>6, <1>7, <1>8, SeqEqual

LEMMA AppendKeepsLines ==
  ASSUME NEW text \in Seq(Tokens), NEW t \in Tokens, NEW i \in 1 .. Len(text) + 1
  PROVE  LineAt(Append(text, t), i) = LineAt(text, i)
<1>1. LineStart(text, i) \in 1 .. Len(text) + 1 /\ i - 1 \in 0 .. Len(text)
  BY LineStartType
<1>2. SubSeq(Append(text, t), LineStart(text, i), i - 1)
        = SubSeq(text, LineStart(text, i), i - 1)
  BY <1>1, AppendKeepsSubSeq
<1> QED BY <1>2, AppendKeepsStarts DEF LineAt

\* A newline ends what follows the last one.
LEMMA RestBecomesLine ==
  ASSUME NEW text \in Seq(Tokens), NEW t \in Tokens
  PROVE  /\ LineAt(Append(text, t), Len(text) + 1) = Trim(RestOf(text))
         /\ RestOf(Append(text, t)) =
              IF t = "nl" THEN <<>> ELSE Append(RestOf(text), t)
<1> DEFINE longer == Append(text, t)
           first == LineStart(text, Len(text) + 1)
<1>1. PICK n \in Nat : n = Len(text)
  OBVIOUS
<1>2. /\ longer \in Seq(Tokens) /\ Len(longer) = n + 1 /\ longer[n + 1] = t
      /\ \A j \in 1 .. n : longer[j] = text[j]
  BY <1>1, AppendProperties
<1>3. first \in 1 .. n + 1 /\ LineStart(longer, n + 1) = first
  BY <1>1, LineStartType, AppendKeepsStarts
<1>4. SubSeq(longer, first, n) = SubSeq(text, first, n)
  BY <1>1, <1>3, AppendKeepsSubSeq
<1>5. RestOf(text) = SubSeq(text, first, n)
  BY <1>1 DEF RestOf
<1>6. LineAt(longer, n + 1) = Trim(RestOf(text))
  <2>1. (n + 1) - 1 = n
    BY <1>1
  <2> QED BY <1>3, <1>4, <1>5, <2>1 DEF LineAt
<1>7. RestOf(longer) = SubSeq(longer, LineStart(longer, n + 2), n + 1)
  <2>1. (n + 1) + 1 = n + 2
    BY <1>1
  <2> QED BY <1>2, <2>1 DEF RestOf
<1>a. n + 2 \in 1 .. Len(longer) + 1 /\ (n + 2) - 1 = n + 1
  BY <1>1, <1>2
<1>b. LineStart(longer, n + 2) = 1 + Max(NewlinesBefore(longer, n + 2))
  BY <1>2, <1>a, LineStartType
<1>c. NewlinesBefore(longer, n + 2)
        = NewlinesBefore(text, n + 1) \cup (IF t = "nl" THEN {n + 1} ELSE {})
  <2>1. (n + 1) - 1 = n /\ 1 .. n + 1 = (1 .. n) \cup {n + 1}
    BY <1>1
  <2>2. NewlinesBefore(longer, n + 2) = {0} \cup {j \in 1 .. n + 1 : longer[j] = "nl"}
    BY <1>a DEF NewlinesBefore
  <2>3. NewlinesBefore(text, n + 1) = {0} \cup {j \in 1 .. n : text[j] = "nl"}
    BY <2>1 DEF NewlinesBefore
  <2>4. {j \in 1 .. n : longer[j] = "nl"} = {j \in 1 .. n : text[j] = "nl"}
    BY <1>2
  <2> QED BY <1>2, <2>1, <2>2, <2>3, <2>4
<1>8. CASE t = "nl"
  <2>1. n + 1 \in NewlinesBefore(longer, n + 2)
    BY <1>8, <1>c
  <2>2. NewlinesBefore(longer, n + 2) \in SUBSET (0 .. n + 1)
    BY <1>1, <1>a DEF NewlinesBefore
  <2>a. n + 1 \in Nat /\ NewlinesBefore(longer, n + 2) # {}
    BY <1>1, <2>1
  <2>b. /\ Max(NewlinesBefore(longer, n + 2)) \in NewlinesBefore(longer, n + 2)
        /\ \A m \in NewlinesBefore(longer, n + 2) : m <= Max(NewlinesBefore(longer, n + 2))
    BY <2>2, <2>a, MaxExists
  <2>3. /\ Max(NewlinesBefore(longer, n + 2)) \in 0 .. n + 1
        /\ n + 1 <= Max(NewlinesBefore(longer, n + 2))
    BY <2>1, <2>2, <2>b
  <2>4. Max(NewlinesBefore(longer, n + 2)) = n + 1
    BY <1>1, <2>3
  <2>5. LineStart(longer, n + 2) = n + 2
    BY <1>1, <1>b, <2>4
  <2>6. RestOf(longer) = <<>>
    BY <1>1, <1>7, <2>5, SubSeqEmpty
  <2> QED BY <1>1, <1>6, <1>8, <2>6
<1>9. CASE t # "nl"
  <2>1. NewlinesBefore(longer, n + 2) = NewlinesBefore(text, n + 1)
    BY <1>9, <1>c
  <2>2. first = 1 + Max(NewlinesBefore(text, n + 1))
    BY <1>1, LineStartType
  <2>3. LineStart(longer, n + 2) = first
    BY <1>b, <2>1, <2>2
  <2>4. RestOf(longer) = SubSeq(longer, first, n + 1)
    BY <1>7, <2>3
  <2> HIDE DEF first, longer
  <2>5. SubSeq(longer, first, n + 1) = SubSeq(longer, first, n) \o <<longer[n + 1]>>
    <3>1. first \in 1 .. Len(longer) /\ n + 1 \in first .. Len(longer) /\ (n + 1) - 1 = n
      BY <1>1, <1>2, <1>3
    <3> QED BY <1>2, <3>1, SubSeqRecursiveSecond
  <2>6. RestOf(text) \in Seq(Tokens)
    BY RestType
  <2>7. Append(RestOf(text), t) = RestOf(text) \o <<t>>
    BY <2>6, AppendIsConcat
  <2>8. RestOf(longer) = Append(RestOf(text), t)
    BY <1>2, <1>4, <1>5, <2>4, <2>5, <2>7
  <2> QED BY <1>1, <1>6, <1>9, <2>8 DEF longer
<1> QED BY <1>8, <1>9

LEMMA EndsOfAppend ==
  ASSUME NEW text \in Seq(Tokens), NEW t \in Tokens
  PROVE  LineEnds(Append(text, t)) =
           LineEnds(text) \cup (IF t = "nl" /\ Trim(RestOf(text)) # <<>>
                                THEN {Len(text) + 1} ELSE {})
<1> DEFINE longer == Append(text, t)
           n == Len(text)
<1>1. /\ n \in Nat /\ DOMAIN text = 1 .. n
      /\ longer \in Seq(Tokens) /\ DOMAIN longer = (1 .. n) \cup {n + 1}
      /\ longer[n + 1] = t
      /\ \A j \in 1 .. n : longer[j] = text[j]
  <2>1. n \in Nat /\ longer \in Seq(Tokens) /\ Len(longer) = n + 1
    BY AppendProperties
  <2>2. 1 .. n + 1 = (1 .. n) \cup {n + 1}
    BY <2>1
  <2>3. DOMAIN longer = 1 .. n + 1
    BY <2>1, LenProperties
  <2> QED BY <2>1, <2>2, <2>3, AppendProperties, LenProperties
<1>2. \A i \in 1 .. n : LineAt(longer, i) = LineAt(text, i)
  <2>1. \A i \in 1 .. n : i \in 1 .. n + 1
    BY <1>1
  <2> QED BY <2>1, AppendKeepsLines
<1>3. LineAt(longer, n + 1) = Trim(RestOf(text))
  BY RestBecomesLine
<1> HIDE DEF longer, n
<1> QED BY <1>1, <1>2, <1>3 DEF LineEnds, longer, n

\* The number of lines up to a place is a rank among the ends of lines.
LEMMA LinesUpToType ==
  ASSUME NEW text \in Seq(Tokens), NEW i \in 0 .. Len(text)
  PROVE  /\ LinesUpTo(text, i) \in Nat
         /\ LinesUpTo(text, i) <= LinesUpTo(text, Len(text))
         /\ i \in LineEnds(text) => LinesUpTo(text, i) > 0
<1> DEFINE upTo(k) == {j \in LineEnds(text) : j <= k}
<1>1. Len(text) \in Nat /\ LineEnds(text) \subseteq 1 .. Len(text)
  BY LenProperties DEF LineEnds
<1>2. IsFiniteSet(upTo(Len(text))) /\ IsFiniteSet(upTo(i))
  <2>1. IsFiniteSet(1 .. Len(text))
    BY <1>1, FS_Interval
  <2>2. upTo(Len(text)) \subseteq 1 .. Len(text) /\ upTo(i) \subseteq 1 .. Len(text)
    BY <1>1
  <2> HIDE DEF upTo
  <2> QED BY <2>1, <2>2, FS_Subset
<1>3. upTo(i) \subseteq upTo(Len(text))
  BY <1>1
<1>4. i \in LineEnds(text) => upTo(i) # {}
  BY <1>1
<1> HIDE DEF upTo
<1>5. Cardinality(upTo(i)) \in Nat /\ Cardinality(upTo(i)) <= Cardinality(upTo(Len(text)))
  BY <1>2, <1>3, FS_CardinalityType, FS_Subset
<1>6. i \in LineEnds(text) => Cardinality(upTo(i)) # 0
  BY <1>2, <1>4, FS_EmptySet
<1>7. \A k : LinesUpTo(text, k) = Cardinality(upTo(k))
  BY DEF LinesUpTo, upTo
<1> QED BY <1>5, <1>6, <1>7

LEMMA LinesUpToAppend ==
  ASSUME NEW text \in Seq(Tokens), NEW t \in Tokens
  PROVE  /\ \A i \in 1 .. Len(text) : LinesUpTo(Append(text, t), i) = LinesUpTo(text, i)
         /\ LinesUpTo(Append(text, t), Len(text) + 1) =
              LinesUpTo(text, Len(text))
              + (IF t = "nl" /\ Trim(RestOf(text)) # <<>> THEN 1 ELSE 0)
<1> DEFINE longer == Append(text, t)
           ends == LineEnds(text)
           newEnd == IF t = "nl" /\ Trim(RestOf(text)) # <<>> THEN {Len(text) + 1} ELSE {}
<1>1. PICK n \in Nat : n = Len(text)
  OBVIOUS
<1>2. LineEnds(longer) = ends \cup newEnd
  BY EndsOfAppend
<1>3. ends \subseteq 1 .. n
  BY <1>1, LenProperties DEF LineEnds
<1>4. newEnd = {} \/ newEnd = {n + 1}
  BY <1>1
<1> HIDE DEF ends, newEnd, longer
<1>5. \A i \in 1 .. n : {j \in ends \cup newEnd : j <= i} = {j \in ends : j <= i}
  BY <1>1, <1>4
<1>6. {j \in ends \cup newEnd : j <= n + 1} = ends \cup newEnd
      /\ {j \in ends : j <= n} = ends
  <2>1. \A j \in ends : j <= n /\ j <= n + 1 /\ j # n + 1
    BY <1>3
  <2>2. \A j \in newEnd : j <= n + 1
    BY <1>4
  <2>3. {j \in ends : j <= n} = ends
    BY <2>1
  <2>4. {j \in ends \cup newEnd : j <= n + 1} = ends \cup newEnd
    BY <2>1, <2>2
  <2> QED BY <2>3, <2>4
<1>7. IsFiniteSet(ends) /\ n + 1 \notin ends
  <2>1. IsFiniteSet(1 .. n)
    BY <1>1, FS_Interval
  <2>2. IsFiniteSet(ends)
    BY <1>3, <2>1, FS_Subset
  <2>3. n + 1 \notin 1 .. n
    OBVIOUS
  <2> QED BY <1>3, <2>2, <2>3
<1>8. Cardinality(ends \cup {n + 1}) = Cardinality(ends) + 1
  BY <1>7, FS_AddElement
<1>9. Cardinality(ends) \in Nat /\ ends \cup {} = ends
  BY <1>7, FS_CardinalityType
<1>a. \A i \in 1 .. n : LinesUpTo(longer, i) = LinesUpTo(text, i)
  BY <1>2, <1>5 DEF LinesUpTo, ends
<1>b. LinesUpTo(longer, n + 1) = Cardinality(ends \cup newEnd)
  BY <1>2, <1>6 DEF LinesUpTo
<1>c. LinesUpTo(text, n) = Cardinality(ends)
  BY <1>6 DEF LinesUpTo, ends
<1>d. CASE t = "nl" /\ Trim(RestOf(text)) # <<>>
  BY <1>1, <1>8, <1>a, <1>b, <1>c, <1>d DEF newEnd, longer
<1>e. CASE ~(t = "nl" /\ Trim(RestOf(text)) # <<>>)
  <2>1. newEnd = {}
    BY <1>e DEF newEnd
  <2> QED BY <1>1, <1>9, <1>a, <1>b, <1>c, <1>e, <2>1 DEF longer
<1> QED BY <1>d, <1>e

\* Every end of a line has its line.
LEMMA AllLines ==
  ASSUME NEW text \in Seq(Tokens), NEW lines
  PROVE  AreLinesOf(lines, text) <=>
           /\ Len(lines) = LinesUpTo(text, Len(text))
           /\ \A i \in LineEnds(text) : lines[LinesUpTo(text, i)] = LineAt(text, i)
<1>1. \A i \in LineEnds(text) : i \in 0 .. Len(text)
  BY LenProperties DEF LineEnds
<1>2. \A i \in LineEnds(text) :
        /\ LinesUpTo(text, i) <= LinesUpTo(text, Len(text))
  BY <1>1, LinesUpToType
<1>3. LinesUpTo(text, Len(text)) <= LinesUpTo(text, Len(text))
  <2>1. Len(text) \in 0 .. Len(text)
    OBVIOUS
  <2> QED BY <2>1, LinesUpToType
<1> QED BY <1>2, <1>3 DEF AreLinesOf, AreFirstLines

\* The first of the lines of a text.
LEMMA FirstOfLines ==
  ASSUME NEW text \in Seq(Tokens), NEW a \in Seq(TrimmedTexts), NEW b \in Seq(TrimmedTexts),
         AreLinesOf(a \o b, text), NEW n \in 0 .. Len(b)
  PROVE  /\ a \o SubSeq(b, 1, n) \in Seq(TrimmedTexts)
         /\ AreFirstLines(a \o SubSeq(b, 1, n), text)
         /\ n = Len(b) => AreLinesOf(a \o SubSeq(b, 1, n), text)
<1> DEFINE all == a \o b
           some == a \o SubSeq(b, 1, n)
<1>1. PICK la \in Nat, lb \in Nat : la = Len(a) /\ lb = Len(b)
  OBVIOUS
<1>2. /\ SubSeq(b, 1, n) \in Seq(TrimmedTexts) /\ Len(SubSeq(b, 1, n)) = n
      /\ \A k \in 1 .. n : SubSeq(b, 1, n)[k] = b[k]
  <2>1. \A k \in 1 .. n : b[k] \in TrimmedTexts
    BY ElementOfSeq
  <2>2. /\ SubSeq(b, 1, n) \in Seq(TrimmedTexts)
        /\ Len(SubSeq(b, 1, n)) = IF 1 <= n THEN n - 1 + 1 ELSE 0
        /\ \A k \in 1 .. n - 1 + 1 : SubSeq(b, 1, n)[k] = b[1 + k - 1]
    BY <2>1, SubSeqProperties
  <2>3. n - 1 + 1 = n /\ \A k \in 1 .. n : 1 + k - 1 = k
    OBVIOUS
  <2> QED BY <2>2, <2>3
<1>3. /\ some \in Seq(TrimmedTexts) /\ Len(some) = la + n
      /\ \A k \in 1 .. la + n : some[k] = IF k <= la THEN a[k] ELSE b[k - la]
  <2>1. /\ some \in Seq(TrimmedTexts) /\ Len(some) = la + n
        /\ \A k \in 1 .. la + n : some[k] = IF k <= la THEN a[k] ELSE SubSeq(b, 1, n)[k - la]
    BY <1>1, <1>2, ConcatProperties
  <2>2. \A k \in 1 .. la + n : ~(k <= la) => k - la \in 1 .. n
    BY <1>1
  <2> HIDE DEF some
  <2> QED BY <1>2, <2>1, <2>2
<1>4. /\ Len(all) = la + lb
      /\ \A k \in 1 .. la + lb : all[k] = IF k <= la THEN a[k] ELSE b[k - la]
  BY <1>1, ConcatProperties
<1> HIDE DEF all, some
<1>5. \A k \in 1 .. la + n : k \in 1 .. la + lb
  BY <1>1
<1>6. \A k \in 1 .. la + n : some[k] = all[k]
  BY <1>3, <1>4, <1>5
<1>7. /\ la + lb = LinesUpTo(text, Len(text))
      /\ \A i \in LineEnds(text) : all[LinesUpTo(text, i)] = LineAt(text, i)
  BY <1>4, AllLines DEF all
<1>8. \A i \in LineEnds(text) : LinesUpTo(text, i) \in Nat /\ LinesUpTo(text, i) > 0
  <2>1. \A i \in LineEnds(text) : i \in 0 .. Len(text)
    BY LenProperties DEF LineEnds
  <2> QED BY <2>1, LinesUpToType
<1>9. AreFirstLines(some, text)
  <2>1. la + n <= la + lb
    BY <1>1
  <2>2. \A i \in LineEnds(text) :
          LinesUpTo(text, i) <= la + n => LinesUpTo(text, i) \in 1 .. la + n
    BY <1>8
  <2>3. \A i \in LineEnds(text) :
          LinesUpTo(text, i) <= la + n => some[LinesUpTo(text, i)] = LineAt(text, i)
    BY <1>6, <1>7, <2>2
  <2>4. Len(some) = la + n /\ Len(some) <= LinesUpTo(text, Len(text))
    BY <1>3, <1>7, <2>1
  <2> QED BY <2>3, <2>4 DEF AreFirstLines
<1>10. n = lb => AreLinesOf(some, text)
  BY <1>3, <1>7, <1>9 DEF AreLinesOf
<1> QED BY <1>1, <1>3, <1>9, <1>10 DEF some

\* One token more keeps lines and ends right.
LEMMA SameLines ==
  ASSUME NEW text \in Seq(Tokens), NEW t \in Tokens, NEW lines \in Seq(TrimmedTexts),
         AreLinesOf(lines, text)
  PROVE  /\ ~(t = "nl" /\ Trim(RestOf(text)) # <<>>) => AreLinesOf(lines, Append(text, t))
         /\ (t = "nl" /\ Trim(RestOf(text)) # <<>>)
              => AreLinesOf(Append(lines, Trim(RestOf(text))), Append(text, t))
<1> DEFINE longer == Append(text, t)
           line == Trim(RestOf(text))
<1>1. PICK n \in Nat : n = Len(text)
  OBVIOUS
<1>2. Len(longer) = n + 1
  BY <1>1, AppendProperties
<1>3. LineEnds(text) \subseteq 1 .. n
  BY <1>1, LenProperties DEF LineEnds
<1>4. \A i \in LineEnds(text) :
        /\ LinesUpTo(longer, i) = LinesUpTo(text, i)
        /\ LineAt(longer, i) = LineAt(text, i)
        /\ LinesUpTo(text, i) \in 1 .. Len(lines)
        /\ lines[LinesUpTo(text, i)] = LineAt(text, i)
  <2> SUFFICES ASSUME NEW i \in LineEnds(text)
               PROVE  /\ LinesUpTo(longer, i) = LinesUpTo(text, i)
                      /\ LineAt(longer, i) = LineAt(text, i)
                      /\ LinesUpTo(text, i) \in 1 .. Len(lines)
                      /\ lines[LinesUpTo(text, i)] = LineAt(text, i)
    OBVIOUS
  <2>1. i \in 1 .. n /\ i \in 0 .. n /\ i \in 1 .. n + 1
    BY <1>1, <1>3
  <2>2. LinesUpTo(longer, i) = LinesUpTo(text, i) /\ LineAt(longer, i) = LineAt(text, i)
    BY <1>1, <2>1, LinesUpToAppend, AppendKeepsLines
  <2>3. LinesUpTo(text, i) \in 1 .. LinesUpTo(text, n)
    <3>1. LinesUpTo(text, n) \in Nat /\ LinesUpTo(text, i) \in Nat
          /\ LinesUpTo(text, i) <= LinesUpTo(text, n) /\ LinesUpTo(text, i) > 0
      <4>1. n \in 0 .. n
        BY <1>1
      <4> QED BY <1>1, <2>1, <4>1, LinesUpToType
    <3> QED BY <3>1
  <2>4. LinesUpTo(text, n) = Len(lines) /\ lines[LinesUpTo(text, i)] = LineAt(text, i)
    BY <1>1, AllLines
  <2> QED BY <2>2, <2>3, <2>4
<1>5. CASE ~(t = "nl" /\ line # <<>>)
  <2>1. LineEnds(longer) = LineEnds(text)
    BY <1>5, EndsOfAppend
  <2>2. LinesUpTo(longer, n + 1) = LinesUpTo(text, n)
    <3>1. LinesUpTo(text, n) \in Nat
      <4>1. n \in 0 .. n
        BY <1>1
      <4> QED BY <1>1, <4>1, LinesUpToType
    <3> QED BY <1>1, <1>5, <3>1, LinesUpToAppend
  <2> HIDE DEF longer
  <2>3. LinesUpTo(text, n) = Len(lines) /\ longer \in Seq(Tokens)
    BY <1>1, AllLines, AppendProperties DEF longer
  <2>4. AreLinesOf(lines, longer)
    BY <1>2, <1>4, <2>1, <2>2, <2>3, AllLines
  <2> QED BY <1>5, <2>4 DEF longer
<1>6. CASE t = "nl" /\ line # <<>>
  <2>1. LineEnds(longer) = LineEnds(text) \cup {n + 1}
    BY <1>1, <1>6, EndsOfAppend
  <2>2. LinesUpTo(longer, n + 1) = Len(lines) + 1
    BY <1>1, <1>6, LinesUpToAppend, AllLines
  <2>3. LineAt(longer, n + 1) = line
    BY <1>1, RestBecomesLine
  <2>4. line \in TrimmedTexts
    BY RestType DEF TrimmedTexts
  <2>5. /\ Len(Append(lines, line)) = Len(lines) + 1
        /\ Append(lines, line)[Len(lines) + 1] = line
        /\ \A k \in 1 .. Len(lines) : Append(lines, line)[k] = lines[k]
    BY <2>4, AppendProperties
  <2> HIDE DEF longer, line
  <2>6. \A i \in LineEnds(text) :
          Append(lines, line)[LinesUpTo(longer, i)] = LineAt(longer, i)
    BY <1>4, <2>5
  <2>7. longer \in Seq(Tokens)
    BY AppendProperties DEF longer
  <2>8. AreLinesOf(Append(lines, line), longer)
    BY <1>2, <2>1, <2>2, <2>3, <2>5, <2>6, <2>7, AllLines
  <2> QED BY <1>6, <2>8 DEF longer, line
<1> QED BY <1>5, <1>6

-----------------------------------------------------------------------------
(* The loop over a buffer *)

NoLines == [lines |-> <<>>, rest |-> <<>>]

\* f[i] is what the loop holds after i tokens of the buffer.
IsLoop(f, buffer, n) ==
  f = [i \in 0 .. n |-> IF i = 0 THEN NoLines ELSE NextToken(f[i - 1], buffer[i])]

LEMMA LoopExists ==
  ASSUME NEW buffer, NEW n \in Nat
  PROVE  \E f : IsLoop(f, buffer, n)
<1> DEFINE lengths == {k \in Nat : \E f : IsLoop(f, buffer, k)}
<1>1. 0 \in lengths
  <2>1. IsLoop([i \in 0 .. 0 |-> NoLines], buffer, 0)
    BY DEF IsLoop
  <2> QED BY <2>1
<1>2. ASSUME NEW k \in lengths PROVE k + 1 \in lengths
  <2>1. PICK f : IsLoop(f, buffer, k)
    OBVIOUS
  <2> DEFINE g == [i \in 0 .. k + 1 |->
                    IF i = k + 1 THEN NextToken(f[k], buffer[k + 1]) ELSE f[i]]
  <2>2. \A i \in 0 .. k : f[i] = IF i = 0 THEN NoLines ELSE NextToken(f[i - 1], buffer[i])
    BY <2>1 DEF IsLoop
  <2>3. \A i \in 0 .. k : g[i] = f[i]
    OBVIOUS
  <2>4. g[k + 1] = NextToken(f[k], buffer[k + 1])
    OBVIOUS
  <2>5. \A i \in 1 .. k + 1 : i - 1 \in 0 .. k /\ (i # k + 1 => i \in 0 .. k)
    OBVIOUS
  <2>6. \A i \in 1 .. k + 1 : g[i] = NextToken(g[i - 1], buffer[i])
    <3> SUFFICES ASSUME NEW i \in 1 .. k + 1 PROVE g[i] = NextToken(g[i - 1], buffer[i])
      OBVIOUS
    <3>1. CASE i = k + 1
      <4>1. i - 1 = k /\ g[k] = f[k]
        BY <2>3, <3>1
      <4> HIDE DEF g
      <4> QED BY <2>4, <3>1, <4>1
    <3>2. CASE i # k + 1
      <4>1. g[i] = f[i] /\ g[i - 1] = f[i - 1] /\ i # 0 /\ i \in 0 .. k
        BY <2>3, <2>5, <3>2
      <4> HIDE DEF g
      <4> QED BY <2>2, <4>1
    <3> QED BY <3>1, <3>2
  <2>7. g[0] = NoLines
    BY <2>2, <2>3
  <2>8. g = [i \in 0 .. k + 1 |-> g[i]]
    OBVIOUS
  <2> HIDE DEF g
  <2>9. \A i \in 0 .. k + 1 : g[i] = IF i = 0 THEN NoLines ELSE NextToken(g[i - 1], buffer[i])
    BY <2>6, <2>7
  <2>10. IsLoop(g, buffer, k + 1)
    BY <2>8, <2>9 DEF IsLoop
  <2> QED BY <2>10
<1>3. lengths \in SUBSET Nat
  OBVIOUS
<1> HIDE DEF lengths
<1>4. lengths = Nat
  BY <1>1, <1>2, <1>3, SetInduction
<1> QED BY <1>4 DEF lengths

LEMMA NextLinesLoops ==
  ASSUME NEW buffer \in Seq(Tokens)
  PROVE  \E f : IsLoop(f, buffer, Len(buffer)) /\ NextLines(buffer) = f[Len(buffer)]
<1>1. PICK n \in Nat : n = Len(buffer)
  OBVIOUS
<1> DEFINE f == CHOOSE g : IsLoop(g, buffer, n)
<1>2. IsLoop(f, buffer, n)
  BY LoopExists
<1>3. NextLines(buffer) = f[n]
  BY <1>1 DEF NextLines, IsLoop, NoLines
<1> QED BY <1>1, <1>2, <1>3

LEMMA LoopSteps ==
  ASSUME NEW f, NEW buffer, NEW n \in Nat, IsLoop(f, buffer, n)
  PROVE  /\ f[0] = NoLines
         /\ \A i \in 0 .. n : i < n => f[i + 1] = NextToken(f[i], buffer[i + 1])
<1>1. \A i \in 0 .. n : f[i] = IF i = 0 THEN NoLines ELSE NextToken(f[i - 1], buffer[i])
  BY DEF IsLoop
<1>2. \A i \in 0 .. n : i < n => i + 1 \in 0 .. n /\ i + 1 # 0 /\ (i + 1) - 1 = i
  OBVIOUS
<1>3. 0 \in 0 .. n
  OBVIOUS
<1> QED BY <1>1, <1>2, <1>3

LEMMA TokenIsHeld ==
  ASSUME NEW lines, NEW rest, NEW t, t # "nl"
  PROVE  NextToken([lines |-> lines, rest |-> rest], t)
           = [lines |-> lines, rest |-> Append(rest, t)]
BY DEF NextToken

\* What a chunk left has no newline, so the loop comes back to it.
LEMMA LoopOverRest ==
  ASSUME NEW rest \in Seq(Tokens), \A i \in 1 .. Len(rest) : rest[i] # "nl",
         NEW buffer, \A i \in 1 .. Len(rest) : buffer[i] = rest[i],
         NEW f, NEW n \in Nat, Len(rest) <= n, IsLoop(f, buffer, n)
  PROVE  f[Len(rest)] = [lines |-> <<>>, rest |-> rest]
<1>1. PICK k \in Nat : k = Len(rest)
  OBVIOUS
<1> DEFINE good == {i \in Nat : i <= k => f[i] = [lines |-> <<>>, rest |-> SubSeq(rest, 1, i)]}
<1>2. 0 \in good
  <2>1. SubSeq(rest, 1, 0) = <<>>
    BY SubSeqEmpty
  <2>2. f[0] = NoLines
    BY LoopSteps
  <2> QED BY <2>1, <2>2 DEF NoLines
<1>3. ASSUME NEW i \in good PROVE i + 1 \in good
  <2> SUFFICES ASSUME i + 1 <= k
               PROVE  f[i + 1] = [lines |-> <<>>, rest |-> SubSeq(rest, 1, i + 1)]
    OBVIOUS
  <2>1. i \in Nat /\ i \in 0 .. n /\ i < n /\ i + 1 \in 1 .. k
    BY <1>1
  <2>2. f[i] = [lines |-> <<>>, rest |-> SubSeq(rest, 1, i)]
    BY <2>1
  <2>3. f[i + 1] = NextToken(f[i], buffer[i + 1])
    BY <2>1, LoopSteps
  <2>4. buffer[i + 1] = rest[i + 1] /\ rest[i + 1] # "nl" /\ rest[i + 1] \in Tokens
    BY <1>1, <2>1, ElementOfSeq
  <2>5. SubSeq(rest, 1, i + 1) = SubSeq(rest, 1, i) \o <<rest[i + 1]>>
    <3>1. 1 \in 1 .. Len(rest) /\ i + 1 \in 1 .. Len(rest) /\ (i + 1) - 1 = i
      BY <1>1, <2>1
    <3> QED BY <3>1, SubSeqRecursiveSecond
  <2>6. SubSeq(rest, 1, i) \in Seq(Tokens)
    <3>1. \A j \in 1 .. i : rest[j] \in Tokens
      BY <1>1, <2>1, ElementOfSeq
    <3> QED BY <2>1, <3>1, SubSeqProperties
  <2>7. Append(SubSeq(rest, 1, i), rest[i + 1]) = SubSeq(rest, 1, i + 1)
    BY <2>4, <2>5, <2>6, AppendIsConcat
  <2>8. NextToken([lines |-> <<>>, rest |-> SubSeq(rest, 1, i)], rest[i + 1])
          = [lines |-> <<>>, rest |-> SubSeq(rest, 1, i + 1)]
    BY <2>4, <2>7, TokenIsHeld
  <2> QED BY <2>2, <2>3, <2>4, <2>8
<1>4. good \in SUBSET Nat
  OBVIOUS
<1> HIDE DEF good
<1>5. good = Nat
  BY <1>2, <1>3, <1>4, SetInduction
<1>6. f[k] = [lines |-> <<>>, rest |-> SubSeq(rest, 1, k)]
  <2>1. k \in good
    BY <1>5
  <2> QED BY <2>1 DEF good
<1>7. SubSeq(rest, 1, k) = rest
  BY <1>1, SubSeqFull
<1> QED BY <1>1, <1>6, <1>7

\* What the loop holds after a text: its lines, the first of them delivered
\* before, and what follows the last newline.
Holds(acc, before, text) ==
  \E lines \in Seq(TrimmedTexts) :
    acc = [lines |-> lines, rest |-> RestOf(text)] /\ AreLinesOf(before \o lines, text)

LEMMA NextTokenHolds ==
  ASSUME NEW before \in Seq(TrimmedTexts), NEW text \in Seq(Tokens), NEW t \in Tokens,
         NEW acc, Holds(acc, before, text)
  PROVE  Holds(NextToken(acc, t), before, Append(text, t))
<1> DEFINE line == Trim(RestOf(text))
           longer == Append(text, t)
<1>1. PICK lines \in Seq(TrimmedTexts) :
        acc = [lines |-> lines, rest |-> RestOf(text)] /\ AreLinesOf(before \o lines, text)
  BY DEF Holds
<1>2. before \o lines \in Seq(TrimmedTexts)
  BY ConcatProperties
<1>3. RestOf(longer) = IF t = "nl" THEN <<>> ELSE Append(RestOf(text), t)
  BY RestBecomesLine
<1>4. line \in TrimmedTexts
  BY RestType DEF TrimmedTexts
<1>5. CASE t # "nl"
  <2>1. NextToken(acc, t) = [lines |-> lines, rest |-> RestOf(longer)]
    BY <1>1, <1>3, <1>5 DEF NextToken
  <2>2. AreLinesOf(before \o lines, longer)
    BY <1>1, <1>2, <1>5, SameLines
  <2> QED BY <2>1, <2>2 DEF Holds
<1>6. CASE t = "nl" /\ line = <<>>
  <2>1. NextToken(acc, t) = [lines |-> lines, rest |-> RestOf(longer)]
    BY <1>1, <1>3, <1>6 DEF NextToken
  <2>2. AreLinesOf(before \o lines, longer)
    BY <1>1, <1>2, <1>6, SameLines
  <2> QED BY <2>1, <2>2 DEF Holds
<1>7. CASE t = "nl" /\ line # <<>>
  <2>1. NextToken(acc, t) = [lines |-> Append(lines, line), rest |-> RestOf(longer)]
    BY <1>1, <1>3, <1>7 DEF NextToken
  <2>2. AreLinesOf(Append(before \o lines, line), longer)
    BY <1>1, <1>2, <1>7, SameLines
  <2> HIDE DEF line, longer
  <2>3. Append(before \o lines, line) = (before \o lines) \o <<line>>
    BY <1>2, <1>4, AppendIsConcat
  <2>4. Append(lines, line) = lines \o <<line>> /\ <<line>> \in Seq(TrimmedTexts)
    BY <1>4, AppendIsConcat
  <2>5. (before \o lines) \o <<line>> = before \o (lines \o <<line>>)
    <3>1. <<line>> \in Seq(TrimmedTexts)
      BY <2>4
    <3>2. lines \in Seq(TrimmedTexts) /\ before \in Seq(TrimmedTexts)
      OBVIOUS
    <3> QED BY <3>1, <3>2, ConcatAssociative
  <2>6. Append(lines, line) \in Seq(TrimmedTexts) /\ AreLinesOf(before \o Append(lines, line), longer)
    BY <1>4, <2>2, <2>3, <2>4, <2>5, AppendProperties
  <2> QED BY <2>1, <2>6 DEF Holds, longer
<1> QED BY <1>5, <1>6, <1>7

\* A text one token longer.
LEMMA PrefixGrows ==
  ASSUME NEW text \in Seq(Tokens), NEW i \in Nat, i < Len(text)
  PROVE  /\ SubSeq(text, 1, i) \in Seq(Tokens) /\ Len(SubSeq(text, 1, i)) = i
         /\ text[i + 1] \in Tokens
         /\ SubSeq(text, 1, i + 1) = Append(SubSeq(text, 1, i), text[i + 1])
<1>1. \A j \in 1 .. i : text[j] \in Tokens
  BY ElementOfSeq
<1>2. SubSeq(text, 1, i) \in Seq(Tokens)
  BY <1>1, SubSeqProperties
<1>3. Len(SubSeq(text, 1, i)) = i
  <2>1. Len(SubSeq(text, 1, i)) = IF 1 <= i THEN i - 1 + 1 ELSE 0
    BY <1>1, SubSeqProperties
  <2> QED BY <2>1
<1>4. text[i + 1] \in Tokens
  BY ElementOfSeq
<1>5. SubSeq(text, 1, i + 1) = SubSeq(text, 1, i) \o <<text[i + 1]>>
  <2>1. 1 \in 1 .. Len(text) /\ i + 1 \in 1 .. Len(text) /\ (i + 1) - 1 = i
    OBVIOUS
  <2> QED BY <2>1, SubSeqRecursiveSecond
<1> QED BY <1>2, <1>3, <1>4, <1>5, AppendIsConcat

LEMMA PrefixType ==
  ASSUME NEW text \in Seq(Tokens), NEW i \in 0 .. Len(text)
  PROVE  SubSeq(text, 1, i) \in Seq(Tokens) /\ Len(SubSeq(text, 1, i)) = i
<1>1. \A j \in 1 .. i : text[j] \in Tokens
  BY ElementOfSeq
<1>2. SubSeq(text, 1, i) \in Seq(Tokens)
  BY <1>1, SubSeqProperties
<1>3. Len(SubSeq(text, 1, i)) = IF 1 <= i THEN i - 1 + 1 ELSE 0
  BY <1>1, SubSeqProperties
<1> QED BY <1>2, <1>3

\* What onData finds in the buffer, wherever the peer's text was cut before.
LEMMA ChunkReassembles ==
  ASSUME NEW text \in Seq(Tokens), NEW r \in 0 .. Len(text), NEW m \in r .. Len(text),
         NEW before \in Seq(TrimmedTexts), AreLinesOf(before, SubSeq(text, 1, r))
  PROVE  Holds(NextLines(RestOf(SubSeq(text, 1, r)) \o SubSeq(text, r + 1, m)),
               before, SubSeq(text, 1, m))
<1> DEFINE rest == RestOf(SubSeq(text, 1, r))
           chunk == SubSeq(text, r + 1, m)
           buffer == rest \o chunk
<1>1. SubSeq(text, 1, r) \in Seq(Tokens)
  BY PrefixType
<1>2. rest \in Seq(Tokens) /\ \A i \in 1 .. Len(rest) : rest[i] # "nl"
  BY <1>1, RestType
<1>3. PICK k \in Nat : k = Len(rest)
  BY <1>2
<1>4. PICK d \in Nat : d = m - r /\ d <= Len(text)
  OBVIOUS
<1>5. /\ chunk \in Seq(Tokens) /\ Len(chunk) = d
      /\ \A i \in 1 .. d : chunk[i] = text[r + i]
  <2>1. \A i \in r + 1 .. m : text[i] \in Tokens
    BY ElementOfSeq
  <2>2. /\ chunk \in Seq(Tokens)
        /\ Len(chunk) = IF r + 1 <= m THEN m - (r + 1) + 1 ELSE 0
        /\ \A i \in 1 .. m - (r + 1) + 1 : chunk[i] = text[r + 1 + i - 1]
    BY <2>1, SubSeqProperties
  <2> HIDE DEF chunk
  <2>3. m - (r + 1) + 1 = d /\ \A i \in 1 .. d : r + 1 + i - 1 = r + i
    BY <1>4
  <2> QED BY <1>4, <2>2, <2>3
<1> HIDE DEF rest, chunk
<1>6. /\ buffer \in Seq(Tokens) /\ Len(buffer) = k + d
      /\ \A i \in 1 .. k : buffer[i] = rest[i]
      /\ \A i \in 1 .. d : buffer[k + i] = text[r + i]
  <2>1. /\ buffer \in Seq(Tokens) /\ Len(buffer) = k + d
        /\ \A i \in 1 .. k + d : buffer[i] = IF i <= k THEN rest[i] ELSE chunk[i - k]
    BY <1>2, <1>3, <1>5, ConcatProperties
  <2> HIDE DEF buffer
  <2>2. \A i \in 1 .. d : k + i \in 1 .. k + d /\ ~(k + i <= k) /\ (k + i) - k = i
    OBVIOUS
  <2>3. \A i \in 1 .. k : i \in 1 .. k + d /\ i <= k
    OBVIOUS
  <2>4. \A i \in 1 .. k : buffer[i] = rest[i]
    BY <2>1, <2>3
  <2>5. \A i \in 1 .. d : buffer[k + i] = chunk[i]
    BY <2>1, <2>2
  <2>6. \A i \in 1 .. d : buffer[k + i] = text[r + i]
    BY <1>5, <2>5
  <2> QED BY <2>1, <2>4, <2>6
<1> HIDE DEF buffer
<1>7. PICK f : IsLoop(f, buffer, k + d) /\ NextLines(buffer) = f[k + d]
  BY <1>6, NextLinesLoops
<1> DEFINE good == {j \in Nat : j <= d => Holds(f[k + j], before, SubSeq(text, 1, r + j))}
<1>8. 0 \in good
  <2>1. f[k] = [lines |-> <<>>, rest |-> rest]
    <3>1. k + d \in Nat /\ Len(rest) <= k + d
      BY <1>3
    <3>2. \A i \in 1 .. Len(rest) : buffer[i] = rest[i]
      BY <1>3, <1>6
    <3>3. f[Len(rest)] = [lines |-> <<>>, rest |-> rest]
      BY <1>2, <1>7, <3>1, <3>2, LoopOverRest
    <3> QED BY <1>3, <3>3
  <2>2. before \o <<>> = before /\ <<>> \in Seq(TrimmedTexts)
    BY ConcatEmptySeq, EmptySeq
  <2>3. r + 0 = r /\ k + 0 = k
    OBVIOUS
  <2> QED BY <2>1, <2>2, <2>3 DEF Holds, rest
<1>9. ASSUME NEW j \in good PROVE j + 1 \in good
  <2> SUFFICES ASSUME j + 1 <= d
               PROVE  Holds(f[k + (j + 1)], before, SubSeq(text, 1, r + (j + 1)))
    OBVIOUS
  <2>1. j \in Nat /\ j <= d
    OBVIOUS
  <2>2. Holds(f[k + j], before, SubSeq(text, 1, r + j))
    BY <2>1
  <2> HIDE DEF good
  <2>3. /\ r + j \in Nat /\ r + j < Len(text) /\ r + (j + 1) = (r + j) + 1
        /\ k + j \in 0 .. k + d /\ k + j < k + d /\ k + (j + 1) = (k + j) + 1
        /\ j + 1 \in 1 .. d
    BY <1>4, <2>1
  <2>4. f[(k + j) + 1] = NextToken(f[k + j], buffer[(k + j) + 1])
    BY <1>7, <2>3, LoopSteps
  <2>5. buffer[(k + j) + 1] = text[(r + j) + 1]
    <3>1. (k + j) + 1 = k + (j + 1) /\ (r + j) + 1 = r + (j + 1)
      BY <2>1, <2>3
    <3>2. buffer[k + (j + 1)] = text[r + (j + 1)]
      BY <1>6, <2>3
    <3> QED BY <3>1, <3>2
  <2>6. /\ SubSeq(text, 1, r + j) \in Seq(Tokens)
        /\ text[(r + j) + 1] \in Tokens
        /\ SubSeq(text, 1, (r + j) + 1) = Append(SubSeq(text, 1, r + j), text[(r + j) + 1])
    BY <2>3, PrefixGrows
  <2>7. Holds(NextToken(f[k + j], text[(r + j) + 1]), before,
              Append(SubSeq(text, 1, r + j), text[(r + j) + 1]))
    BY <2>2, <2>6, NextTokenHolds
  <2> QED BY <2>3, <2>4, <2>5, <2>6, <2>7
<1>10. good \in SUBSET Nat
  OBVIOUS
<1> HIDE DEF good
<1>11. good = Nat
  BY <1>8, <1>9, <1>10, SetInduction
<1>12. Holds(f[k + d], before, SubSeq(text, 1, r + d))
  <2>1. d \in good
    BY <1>11
  <2> QED BY <2>1 DEF good
<1>13. r + d = m
  BY <1>4
<1> QED BY <1>7, <1>12, <1>13 DEF buffer, rest, chunk

-----------------------------------------------------------------------------
(* StdioDuplex: the lines of the peer's text *)

\* What the loop has seen: the end of the stream ends the last line.
Came(read, ended) == SubSeq(PeerText, 1, read) \o (IF ended THEN <<"nl">> ELSE <<>>)

\* LinesInv adds to LinesReassembled that what is pending is what follows the
\* last newline read.
LinesInv ==
  /\ stdio.read \in 0 .. Len(PeerText)
  /\ stdio.ended \in BOOLEAN
  /\ stdio.ended => stdio.read = Len(PeerText)
  /\ stdio.delivered \in Seq(TrimmedTexts)
  /\ AreFirstLines(stdio.delivered, Came(stdio.read, stdio.ended))
  /\ ~stdio.closed =>
       /\ AreLinesOf(stdio.delivered, Came(stdio.read, stdio.ended))
       /\ stdio.pending = IF stdio.ended THEN <<>>
                          ELSE RestOf(SubSeq(PeerText, 1, stdio.read))

LEMMA PeerTokens == PeerText \in Seq(Tokens) /\ "nl" \in Tokens
<1>1. PeerText \in Seq(Tokens)
  BY StdioAssumption, SeqMonotonic DEF Tokens
<1>2. "nl" \in Tokens
  BY DEF Tokens
<1> QED BY <1>1, <1>2

LEMMA CameType ==
  ASSUME NEW r \in 0 .. Len(PeerText)
  PROVE  /\ Came(r, FALSE) = SubSeq(PeerText, 1, r)
         /\ Came(r, TRUE) = Append(SubSeq(PeerText, 1, r), "nl")
<1>1. SubSeq(PeerText, 1, r) \in Seq(Tokens) /\ "nl" \in Tokens
  BY PeerTokens, PrefixType
<1>2. SubSeq(PeerText, 1, r) \o <<>> = SubSeq(PeerText, 1, r)
  BY <1>1, ConcatEmptySeq
<1>3. Append(SubSeq(PeerText, 1, r), "nl") = SubSeq(PeerText, 1, r) \o <<"nl">>
  BY <1>1, AppendIsConcat
<1> QED BY <1>2, <1>3 DEF Came

LEMMA LinesInitially == ASSUME StdioInit PROVE LinesInv
<1>1. SubSeq(PeerText, 1, 0) = <<>> /\ Len(PeerText) \in Nat
  BY PeerTokens, SubSeqEmpty
<1>2. <<>> \in Seq(Tokens) /\ <<>> \in Seq(TrimmedTexts) /\ Len(<<>>) = 0
  BY EmptySeq
<1>3. LineEnds(<<>>) = {}
  BY DEF LineEnds
<1>4. LinesUpTo(<<>>, 0) = 0
  <2>1. {j \in {} : j <= 0} = {}
    OBVIOUS
  <2> QED BY <1>3, <2>1, FS_EmptySet DEF LinesUpTo
<1>5. AreLinesOf(<<>>, <<>>)
  BY <1>2, <1>3, <1>4 DEF AreLinesOf, AreFirstLines
<1>6. RestOf(<<>>) = <<>>
  <2>1. 0 + 1 = 1 /\ 1 \in 1 .. 0 + 1
    OBVIOUS
  <2>2. LineStart(<<>>, 1) \in 1 .. 1
    BY <1>2, <2>1, LineStartType
  <2> QED BY <1>2, <2>2, SubSeqEmpty DEF RestOf
<1>7. Came(0, FALSE) = <<>>
  <2>1. 0 \in 0 .. Len(PeerText)
    BY <1>1
  <2> QED BY <1>1, <2>1, CameType
<1>8. /\ stdio.read = 0 /\ stdio.ended = FALSE /\ stdio.delivered = <<>>
      /\ stdio.pending = <<>>
  BY DEF StdioInit
<1>9. AreFirstLines(<<>>, <<>>)
  BY <1>5 DEF AreLinesOf
<1>10. Came(stdio.read, stdio.ended) = <<>> /\ SubSeq(PeerText, 1, stdio.read) = <<>>
  BY <1>1, <1>8 DEF Came
<1>11. RestOf(SubSeq(PeerText, 1, stdio.read)) = <<>>
  BY <1>6, <1>10
<1>12. stdio.read \in 0 .. Len(PeerText)
  BY <1>1, <1>8
<1> QED BY <1>2, <1>5, <1>8, <1>9, <1>10, <1>11, <1>12 DEF LinesInv

\* What reads nothing keeps the lines, unless it closes.
LEMMA LinesKept ==
  ASSUME LinesInv,
         stdio'.read = stdio.read, stdio'.ended = stdio.ended,
         stdio'.delivered = stdio.delivered,
         stdio.closed => stdio'.closed,
         stdio'.closed \/ stdio'.pending = stdio.pending
  PROVE  LinesInv'
BY DEF LinesInv, Came

LEMMA ClosedKeepsLines ==
  ASSUME NEW s, DOMAIN s = StdioFields
  PROVE  /\ CloseStdio(s).read = s.read /\ CloseStdio(s).ended = s.ended
         /\ CloseStdio(s).delivered = s.delivered
         /\ CloseStdio(s).closed
<1>1. CASE s.closed
  BY <1>1 DEF CloseStdio
<1>2. CASE ~s.closed
  <2>1. CloseStdio(s) = [s EXCEPT !.closed = TRUE, !.pending = <<>>, !.drainWaiters = 0,
                           !.told = TRUE]
    BY <1>2 DEF CloseStdio
  <2> QED BY <2>1 DEF StdioFields
<1> QED BY <1>1, <1>2

LEMMA DataKeepsLines == ASSUME StdioInv, LinesInv, DataArrives PROVE LinesInv'
<1> DEFINE text(k) == SubSeq(PeerText, 1, k)
           r == stdio.read
           before == stdio.delivered
<1>1. PICK m \in r + 1 .. Len(PeerText), n \in 0 .. Len(PeerText) :
        /\ n <= Len(NextLines(stdio.pending \o SubSeq(PeerText, r + 1, m)).lines)
        /\ stdio' = OnData([stdio EXCEPT !.read = m], SubSeq(PeerText, r + 1, m), n)
  BY DEF DataArrives
<1>2. /\ ~stdio.closed
      /\ r \in 0 .. Len(PeerText) /\ m \in r .. Len(PeerText) /\ m \in 0 .. Len(PeerText)
      /\ r # Len(PeerText)
      /\ PeerText \in Seq(Tokens)
  BY <1>1, PeerTokens DEF DataArrives, LinesInv
<1>3. stdio.ended = FALSE /\ before \in Seq(TrimmedTexts)
  BY <1>2 DEF LinesInv
<1>4. AreLinesOf(before, text(r)) /\ stdio.pending = RestOf(text(r))
  BY <1>2, <1>3, CameType DEF LinesInv
<1> DEFINE split == NextLines(stdio.pending \o SubSeq(PeerText, r + 1, m))
<1>5. Holds(split, before, text(m))
  BY <1>2, <1>3, <1>4, ChunkReassembles
<1>6. PICK lines \in Seq(TrimmedTexts) :
        split = [lines |-> lines, rest |-> RestOf(text(m))] /\ AreLinesOf(before \o lines, text(m))
  BY <1>5 DEF Holds
<1>7. split.lines = lines /\ split.rest = RestOf(text(m)) /\ n \in 0 .. Len(lines)
  BY <1>1, <1>6
<1> DEFINE some == before \o SubSeq(lines, 1, n)
           moved == [stdio EXCEPT !.read = m]
           taken == [moved EXCEPT !.delivered = some]
<1>8. text(m) \in Seq(Tokens)
  BY <1>2, PrefixType
<1>9. /\ some \in Seq(TrimmedTexts) /\ AreFirstLines(some, text(m))
      /\ n = Len(lines) => AreLinesOf(some, text(m))
  BY <1>3, <1>6, <1>7, <1>8, FirstOfLines
<1>10. Came(m, FALSE) = text(m)
  BY <1>2, CameType
<1>11. /\ DOMAIN moved = StdioFields /\ moved.pending = stdio.pending
       /\ moved.delivered = before /\ moved.read = m /\ moved.ended = FALSE
       /\ moved.closed = stdio.closed
  BY <1>3 DEF StdioInv, StdioFields
<1> HIDE DEF moved, some, split, text, r, before
<1>12. /\ DOMAIN taken = StdioFields
       /\ taken.delivered = some /\ taken.read = m /\ taken.ended = FALSE
       /\ taken.closed = stdio.closed
  BY <1>11 DEF StdioFields
<1>13. OnData(moved, SubSeq(PeerText, r + 1, m), n) =
         IF n < Len(lines) THEN CloseStdio(taken)
         ELSE IF ExceedsMax(RestOf(text(m))) THEN CloseStdio(taken)
         ELSE [taken EXCEPT !.pending = RestOf(text(m))]
  BY <1>7, <1>11 DEF OnData, split, some
<1> HIDE DEF taken
<1>14. \/ stdio' = CloseStdio(taken)
       \/ n = Len(lines) /\ stdio' = [taken EXCEPT !.pending = RestOf(text(m))]
  <2>1. n < Len(lines) \/ n = Len(lines)
    BY <1>7
  <2> QED BY <1>1, <1>13, <2>1 DEF moved, r
<1>15. CASE stdio' = CloseStdio(taken)
  <2>1. /\ stdio'.read = m /\ stdio'.ended = FALSE /\ stdio'.delivered = some /\ stdio'.closed
    BY <1>12, <1>15, ClosedKeepsLines
  <2> QED BY <1>2, <1>9, <1>10, <2>1 DEF LinesInv, Came
<1>16. CASE n = Len(lines) /\ stdio' = [taken EXCEPT !.pending = RestOf(text(m))]
  <2>1. /\ stdio'.read = m /\ stdio'.ended = FALSE /\ stdio'.delivered = some
        /\ stdio'.pending = RestOf(text(m))
    BY <1>12, <1>16 DEF StdioFields
  <2> QED BY <1>2, <1>9, <1>10, <1>16, <2>1 DEF LinesInv, Came, text
<1> QED BY <1>14, <1>15, <1>16

LEMMA EndKeepsLines == ASSUME StdioInv, LinesInv, OnEnd PROVE LinesInv'
<1> DEFINE text == SubSeq(PeerText, 1, stdio.read)
           longer == Append(text, "nl")
           line == Trim(RestOf(text))
           before == stdio.delivered
           ended == [stdio EXCEPT !.ended = TRUE, !.pending = <<>>]
<1>1. /\ ~stdio.closed /\ stdio.ended = FALSE /\ stdio.read = Len(PeerText)
      /\ stdio.read \in 0 .. Len(PeerText) /\ before \in Seq(TrimmedTexts)
      /\ "nl" \in Tokens
  BY PeerTokens DEF OnEnd, LinesInv
<1>2. text \in Seq(Tokens) /\ longer \in Seq(Tokens)
  <2>1. text \in Seq(Tokens)
    BY <1>1, PeerTokens, PrefixType
  <2> QED BY <1>1, <2>1, AppendProperties
<1>3. AreLinesOf(before, text) /\ stdio.pending = RestOf(text)
  BY <1>1, CameType DEF LinesInv
<1>4. Came(stdio.read, TRUE) = longer
  BY <1>1, CameType
<1>5. line \in TrimmedTexts
  BY <1>2, RestType DEF TrimmedTexts
<1> DEFINE after == IF line = <<>> THEN before ELSE Append(before, line)
<1> HIDE DEF text, line, longer
<1>6. after \in Seq(TrimmedTexts) /\ AreLinesOf(after, longer) /\ AreFirstLines(before, longer)
  <2>1. CASE line = <<>>
    <3>1. AreLinesOf(before, longer)
      BY <1>1, <1>2, <1>3, <2>1, SameLines DEF line, longer
    <3> QED BY <1>1, <2>1, <3>1 DEF AreLinesOf
  <2>2. CASE line # <<>>
    <3>1. AreLinesOf(Append(before, line), longer)
      BY <1>1, <1>2, <1>3, <2>2, SameLines DEF line, longer
    <3>2. Append(before, line) = before \o <<line>> /\ <<line>> \in Seq(TrimmedTexts)
          /\ Append(before, line) \in Seq(TrimmedTexts)
      BY <1>1, <1>5, AppendIsConcat, AppendProperties
    <3>3. 0 \in 0 .. Len(<<line>>)
      OBVIOUS
    <3>4. AreLinesOf(before \o <<line>>, longer)
      BY <3>1, <3>2
    <3>5. AreFirstLines(before \o SubSeq(<<line>>, 1, 0), longer)
      BY <1>1, <1>2, <3>2, <3>3, <3>4, FirstOfLines
    <3>6. before \o SubSeq(<<line>>, 1, 0) = before
      <4>1. SubSeq(<<line>>, 1, 0) = <<>>
        BY SubSeqEmpty
      <4> QED BY <1>1, <4>1, ConcatEmptySeq
    <3> QED BY <2>2, <3>1, <3>2, <3>5, <3>6
  <2> QED BY <2>1, <2>2
<1> HIDE DEF before, after
<1>7. /\ DOMAIN ended = StdioFields /\ ended.ended = TRUE /\ ended.pending = <<>>
      /\ ended.read = stdio.read /\ ended.delivered = before
  BY DEF StdioInv, StdioFields, before
<1> HIDE DEF ended
<1>8. \/ stdio' = CloseStdio(ended)
      \/ stdio' = [ended EXCEPT !.tasks = @ + 1, !.delivered = after]
  <2>1. stdio' = IF ExceedsMax(stdio.pending) THEN CloseStdio(ended)
                 ELSE [ended EXCEPT !.tasks = @ + 1,
                         !.delivered = IF Trim(stdio.pending) = <<>> THEN @
                                       ELSE Append(@, Trim(stdio.pending))]
    BY DEF OnEnd, ended
  <2>2. (IF Trim(stdio.pending) = <<>> THEN ended.delivered
         ELSE Append(ended.delivered, Trim(stdio.pending))) = after
    BY <1>3, <1>7 DEF after, line
  <2> QED BY <2>1, <2>2
<1>9. CASE stdio' = CloseStdio(ended)
  <2>1. /\ stdio'.read = stdio.read /\ stdio'.ended = TRUE
        /\ stdio'.delivered = before /\ stdio'.closed
    BY <1>7, <1>9, ClosedKeepsLines
  <2>2. Came(stdio'.read, stdio'.ended) = longer
    BY <1>4, <2>1 DEF Came
  <2> QED BY <1>1, <1>6, <2>1, <2>2 DEF LinesInv, Came, before
<1>10. CASE stdio' = [ended EXCEPT !.tasks = @ + 1, !.delivered = after]
  <2>1. /\ stdio'.read = stdio.read /\ stdio'.ended = TRUE
        /\ stdio'.delivered = after /\ stdio'.pending = <<>>
    BY <1>7, <1>10 DEF StdioFields
  <2>2. Came(stdio'.read, stdio'.ended) = longer
    BY <1>4, <2>1 DEF Came
  <2> QED BY <1>1, <1>6, <2>1, <2>2 DEF LinesInv, Came, AreLinesOf
<1> QED BY <1>8, <1>9, <1>10

LEMMA LinesStep == ASSUME StdioInv, LinesInv, StdioNext PROVE LinesInv'
<1>1. CASE DataArrives
  BY <1>1, DataKeepsLines
<1>2. CASE OnEnd
  BY <1>2, EndKeepsLines
<1>3. CASE OnInputClose \/ OnDrain \/ StdioPause \/ StdioResume
  <2>1. /\ stdio'.read = stdio.read /\ stdio'.ended = stdio.ended
        /\ stdio'.delivered = stdio.delivered
        /\ stdio'.closed = stdio.closed /\ stdio'.pending = stdio.pending
    BY <1>3 DEF OnInputClose, OnDrain, StdioPause, StdioResume, StdioInv, StdioFields
  <2> QED BY <2>1, LinesKept
<1>4. CASE CloseTask
  <2> DEFINE ran == [stdio EXCEPT !.tasks = @ - 1]
  <2>1. /\ DOMAIN ran = StdioFields /\ ran.read = stdio.read /\ ran.ended = stdio.ended
        /\ ran.delivered = stdio.delivered
    BY DEF StdioInv, StdioFields
  <2>2. stdio' = CloseStdio(ran)
    BY <1>4 DEF CloseTask
  <2> HIDE DEF ran
  <2> QED BY <2>1, <2>2, ClosedKeepsLines, LinesKept
<1>5. ASSUME stdio' = CloseStdio(stdio) PROVE LinesInv'
  <2>1. DOMAIN stdio = StdioFields
    BY DEF StdioInv
  <2> QED BY <1>5, <2>1, ClosedKeepsLines, LinesKept
<1>6. CASE StreamFails \/ StdioOwnerCloses
  BY <1>5, <1>6 DEF StreamFails, StdioOwnerCloses
<1>7. CASE StdioSend
  <2> DEFINE written == [stdio EXCEPT !.taken = @ + 1]
  <2>1. stdio' = written \/ stdio' = [written EXCEPT !.drainWaiters = @ + 1]
        \/ stdio' = CloseStdio(stdio)
    BY <1>7 DEF StdioSend
  <2>2. CASE stdio' = written \/ stdio' = [written EXCEPT !.drainWaiters = @ + 1]
    <3>1. /\ stdio'.read = stdio.read /\ stdio'.ended = stdio.ended
          /\ stdio'.delivered = stdio.delivered
          /\ stdio'.closed = stdio.closed /\ stdio'.pending = stdio.pending
      BY <2>2 DEF StdioInv, StdioFields
    <3> QED BY <3>1, LinesKept
  <2> QED BY <1>5, <2>1, <2>2
<1> QED BY <1>1, <1>2, <1>3, <1>4, <1>6, <1>7 DEF StdioNext

LEMMA LinesImplied == LinesInv => LinesReassembled
<1> SUFFICES ASSUME LinesInv PROVE LinesReassembled
  OBVIOUS
<1> QED BY DEF LinesInv, LinesReassembled, Came

\* Wherever the peer's text is cut into chunks, the handler is given its lines in
\* order, all of those read until it closes (onData and onEnd of stdio.ts).
THEOREM LinesTheorem == StdioSpec => []LinesReassembled
<1>1. StdioInit => StdioInv /\ LinesInv
  BY StdioStarts, LinesInitially
<1>2. StdioInv /\ LinesInv /\ [StdioNext]_stdio => (StdioInv /\ LinesInv)'
  <2> SUFFICES ASSUME StdioInv, LinesInv, [StdioNext]_stdio PROVE (StdioInv /\ LinesInv)'
    OBVIOUS
  <2>1. CASE StdioNext
    BY <2>1, StdioStep, LinesStep DEF StdioMoves
  <2>2. CASE UNCHANGED stdio
    <3>1. StdioInv'
      BY <2>2, StdioStutters DEF StdioMoves
    <3>2. LinesInv'
      BY <2>2, LinesKept
    <3> QED BY <3>1, <3>2
  <2> QED BY <2>1, <2>2
<1> QED BY <1>1, <1>2, LinesImplied, PTL DEF StdioSpec

-----------------------------------------------------------------------------
\* MemoryDuplex: the texts of one end, in its inbox or with its handler.
Memories ==
  [closed : BOOLEAN, tasks : Seq(Ends \cup {"close"}), queue : [Ends -> Seq(Nat)],
   paused : [Ends -> BOOLEAN], flushScheduled : [Ends -> BOOLEAN],
   drains : [Ends -> Nat], taken : [Ends -> Nat], arrived : [Ends -> Seq(Nat)],
   told : BOOLEAN]

\* What arrived (handed) and what the inbox holds are the texts taken, in order.
Ordered(handed, inbox, count) ==
  /\ \A i \in 1 .. Len(handed) : handed[i] = i
  /\ \A i \in 1 .. Len(inbox) : inbox[i] = Len(handed) + i
  /\ Len(handed) + Len(inbox) = count

\* The microtask of the close is the last one, and it runs once.
CloseIsLast ==
  /\ ~memory.closed => ~memory.told /\ \A i \in 1 .. Len(memory.tasks) : memory.tasks[i] # "close"
  /\ memory.closed /\ ~memory.told =>
       /\ memory.tasks # <<>>
       /\ \A i \in 1 .. Len(memory.tasks) :
            memory.tasks[i] = "close" <=> i = Len(memory.tasks)
  /\ memory.told => memory.tasks = <<>> /\ \A e \in Ends : memory.drains[e] = 0

AllOrdered ==
  \A e \in Ends : Ordered(memory.arrived[e], memory.queue[e], memory.taken[e])

MemoryInv == MemoryTypeOK /\ AllOrdered /\ CloseIsLast /\ MemoryParkedIsWoken

LEMMA OrderedAppend ==
  ASSUME NEW handed \in Seq(Nat), NEW inbox \in Seq(Nat), NEW count \in Nat,
         Ordered(handed, inbox, count)
  PROVE  Ordered(handed, Append(inbox, count + 1), count + 1)
<1> DEFINE q == Append(inbox, count + 1)
<1>1. /\ Len(q) = Len(inbox) + 1
      /\ \A i \in 1 .. Len(q) :
           q[i] = IF i = Len(inbox) + 1 THEN count + 1 ELSE inbox[i]
  OBVIOUS
<1>2. Len(handed) \in Nat /\ Len(inbox) \in Nat
  OBVIOUS
<1> HIDE DEF q
<1>3. ASSUME NEW i \in 1 .. Len(q) PROVE q[i] = Len(handed) + i
  <2>0. Len(handed) + Len(inbox) = count
    BY DEF Ordered
  <2>1. CASE i = Len(inbox) + 1
    <3>1. q[i] = count + 1
      BY <1>1, <2>1
    <3> QED BY <1>2, <2>0, <2>1, <3>1, SMTT(30)
  <2>2. CASE i # Len(inbox) + 1
    <3>1. i \in 1 .. Len(inbox)
      BY <1>1, <1>2, <2>2
    <3> QED BY <1>1, <2>2, <3>1 DEF Ordered
  <2> QED BY <2>1, <2>2
<1> QED BY <1>1, <1>2, <1>3 DEF Ordered, q

FlushedInOrder(handed, inbox, count, n) ==
  LET all == handed \o SubSeq(inbox, 1, n)
      rest == SubSeq(inbox, n + 1, Len(inbox))
  IN  /\ rest \in Seq(Nat) /\ all \in Seq(Nat)
      /\ Ordered(all, rest, count)
      /\ \E k \in Len(handed) .. count : all = [i \in 1 .. k |-> i]

LEMMA OrderedFlush ==
  ASSUME NEW handed \in Seq(Nat), NEW inbox \in Seq(Nat), NEW count \in Nat,
         Ordered(handed, inbox, count), NEW n \in 0 .. Len(inbox)
  PROVE  FlushedInOrder(handed, inbox, count, n)
<1> DEFINE front == SubSeq(inbox, 1, n)
           rest == SubSeq(inbox, n + 1, Len(inbox))
           all == handed \o front
<1>1. /\ front \in Seq(Nat) /\ Len(front) = n
      /\ \A i \in 1 .. n : front[i] = inbox[i]
  OBVIOUS
<1>2. /\ rest \in Seq(Nat) /\ Len(rest) = Len(inbox) - n
      /\ \A i \in 1 .. Len(inbox) - n : rest[i] = inbox[n + i]
  OBVIOUS
<1> HIDE DEF front, rest
<1>3. /\ all \in Seq(Nat) /\ Len(all) = Len(handed) + n
      /\ \A i \in 1 .. Len(handed) + n :
           all[i] = IF i <= Len(handed) THEN handed[i] ELSE front[i - Len(handed)]
  BY <1>1, ConcatProperties
<1>0. Len(handed) \in Nat /\ Len(inbox) \in Nat
  OBVIOUS
<1> HIDE DEF all
<1>4. ASSUME NEW i \in 1 .. Len(all) PROVE all[i] = i
  <2>1. CASE i <= Len(handed)
    <3>1. i \in 1 .. Len(handed) /\ all[i] = handed[i]
      BY <1>0, <1>3, <2>1
    <3> QED BY <3>1 DEF Ordered
  <2>2. CASE ~(i <= Len(handed))
    <3>1. i - Len(handed) \in 1 .. n
      BY <1>0, <1>3, <2>2
    <3>2. i - Len(handed) \in 1 .. Len(inbox)
      BY <1>0, <3>1
    <3>3. all[i] = inbox[i - Len(handed)]
      BY <1>0, <1>1, <1>3, <2>2, <3>1
    <3> QED BY <1>0, <3>2, <3>3 DEF Ordered
  <2> QED BY <2>1, <2>2
<1>5. ASSUME NEW i \in 1 .. Len(rest) PROVE rest[i] = Len(all) + i
  <2>1. n + i \in 1 .. Len(inbox) /\ i \in 1 .. Len(inbox) - n
    BY <1>0, <1>2
  <2> QED BY <1>0, <1>2, <1>3, <2>1 DEF Ordered
<1>6. Ordered(all, rest, count)
  <2>1. Len(all) + Len(rest) = count
    <3>1. Len(handed) + Len(inbox) = count
      BY DEF Ordered
    <3>2. Len(all) = Len(handed) + n /\ Len(rest) = Len(inbox) - n
      BY <1>2, <1>3
    <3>3. n \in Int
      BY <1>0
    <3>4. \A a, b \in Int : (a + n) + (b - n) = a + b
      BY <3>3
    <3>5. Len(all) + Len(rest) = (Len(handed) + n) + (Len(inbox) - n)
      BY <3>2
    <3>6. (Len(handed) + n) + (Len(inbox) - n) = Len(handed) + Len(inbox)
      BY <1>0, <3>4
    <3> QED BY <3>1, <3>5, <3>6
  <2> QED BY <1>4, <1>5, <2>1 DEF Ordered
<1>7. all = [i \in 1 .. Len(all) |-> i]
  BY <1>3, <1>4
<1>8. Len(all) \in Len(handed) .. count
  BY <1>0, <1>3 DEF Ordered
<1>9. \E k \in Len(handed) .. count : all = [i \in 1 .. k |-> i]
  BY <1>7, <1>8
<1> QED BY <1>2, <1>3, <1>6, <1>9 DEF FlushedInOrder, all, front, rest

LEMMA ScheduleFacts ==
  ASSUME NEW m \in Memories, NEW e \in Ends
  PROVE  LET q == ScheduleFlush(m, e)
         IN  /\ q \in Memories
             /\ q.closed = m.closed /\ q.queue = m.queue /\ q.paused = m.paused
             /\ q.drains = m.drains /\ q.taken = m.taken /\ q.arrived = m.arrived
             /\ q.told = m.told
             /\ q.tasks \in {m.tasks, Append(m.tasks, e)}
             /\ q.flushScheduled[e] \/ m.paused[e]
             /\ \A d \in Ends : m.flushScheduled[d] => q.flushScheduled[d]
<1>1. CASE m.flushScheduled[e] \/ m.paused[e]
  <2>1. ScheduleFlush(m, e) = m
    BY <1>1 DEF ScheduleFlush
  <2> QED BY <1>1, <2>1
<1>2. CASE ~(m.flushScheduled[e] \/ m.paused[e])
  <2> DEFINE q == [m EXCEPT !.flushScheduled[e] = TRUE, !.tasks = Append(@, e)]
  <2>1. ScheduleFlush(m, e) = q
    BY <1>2 DEF ScheduleFlush
  <2>2. q.tasks = Append(m.tasks, e)
    BY DEF Memories
  <2>3. q.flushScheduled = [m.flushScheduled EXCEPT ![e] = TRUE]
    BY DEF Memories
  <2>4. /\ q.closed = m.closed /\ q.queue = m.queue /\ q.paused = m.paused
        /\ q.drains = m.drains /\ q.taken = m.taken /\ q.arrived = m.arrived
        /\ q.told = m.told
    BY DEF Memories
  <2>5. Append(m.tasks, e) \in Seq(Ends \cup {"close"})
    BY DEF Memories
  <2>6. q \in Memories
    BY <2>5 DEF Memories
  <2>7. q.flushScheduled[e] /\ \A d \in Ends : m.flushScheduled[d] => q.flushScheduled[d]
    BY <2>3 DEF Memories
  <2> HIDE DEF q
  <2> QED BY <2>1, <2>2, <2>4, <2>6, <2>7
<1> QED BY <1>1, <1>2

\* What one step is for the pipe to the end e.
EndStays(e) ==
  UNCHANGED <<memory.taken[e], memory.arrived[e], memory.drains[e],
              memory.closed, memory.told>>
EndTakes(e) ==
  /\ ~memory.closed
  /\ memory'.taken[e] = memory.taken[e] + 1
  /\ memory'.drains[e] \in {memory.drains[e], memory.drains[e] + 1}
  /\ UNCHANGED <<memory.arrived[e], memory.closed, memory.told>>
EndGives(e) ==
  /\ ~memory.told
  /\ \E k \in Len(memory.arrived[e]) .. memory.taken[e] :
       memory'.arrived[e] = [i \in 1 .. k |-> i]
  /\ memory'.drains[e] \in {memory.drains[e], 0}
  /\ UNCHANGED <<memory.taken[e], memory.closed, memory.told>>
EndShuts(e) ==
  /\ ~memory.closed /\ memory'.closed /\ ~memory'.told
  /\ UNCHANGED <<memory.taken[e], memory.arrived[e], memory.drains[e], memory.told>>
EndHears(e) ==
  /\ memory.closed /\ ~memory.told /\ memory'.told /\ memory'.drains[e] = 0
  /\ UNCHANGED <<memory.taken[e], memory.arrived[e], memory.closed>>

EndMoves(e) ==
  EndStays(e) \/ EndTakes(e) \/ EndGives(e) \/ EndShuts(e) \/ EndHears(e)

MemoryMoves == MemoryInv' /\ \A e \in Ends : EndMoves(e)

LEMMA MemoryTyped == MemoryTypeOK <=> memory \in Memories
  BY DEF MemoryTypeOK, Memories

\* Tasks that are not the close may follow while the duplex is open.
LEMMA CloseStaysLast ==
  ASSUME MemoryInv, ~memory.closed, ~memory'.closed, ~memory'.told,
         NEW e \in Ends, memory'.tasks \in {memory.tasks, Append(memory.tasks, e)}
  PROVE  CloseIsLast'
<1>1. memory.tasks \in Seq(Ends \cup {"close"})
  BY DEF MemoryInv, MemoryTypeOK
<1>2. \A i \in 1 .. Len(memory.tasks) : memory.tasks[i] # "close"
  BY DEF MemoryInv, CloseIsLast
<1>3. e # "close"
  BY DEF Ends
<1>4. \A i \in 1 .. Len(memory'.tasks) : memory'.tasks[i] # "close"
  <2>1. CASE memory'.tasks = memory.tasks
    BY <1>2, <2>1
  <2>2. CASE memory'.tasks = Append(memory.tasks, e)
    BY <1>1, <1>2, <1>3, <2>2
  <2> QED BY <2>1, <2>2
<1> QED BY <1>4 DEF CloseIsLast

LEMMA MemorySendMoves ==
  ASSUME MemoryInv, NEW e \in Ends, MemorySend(e) PROVE MemoryMoves
<1> DEFINE text == memory.taken[e] + 1
           base == [memory EXCEPT !.taken[e] = text, !.queue[e] = Append(@, text)]
           sent == ScheduleFlush(base, e)
           parks == [sent EXCEPT !.drains[e] = @ + 1]
<1>1. memory \in Memories
  BY MemoryTyped DEF MemoryInv
<1>2. text \in Nat /\ Append(memory.queue[e], text) \in Seq(Nat)
  BY <1>1 DEF Memories
<1>3. /\ base.taken = [memory.taken EXCEPT ![e] = text]
      /\ base.queue = [memory.queue EXCEPT ![e] = Append(@, text)]
  BY <1>1 DEF Memories
<1>4. /\ base.closed = memory.closed /\ base.paused = memory.paused
      /\ base.drains = memory.drains /\ base.arrived = memory.arrived
      /\ base.told = memory.told /\ base.tasks = memory.tasks
      /\ base.flushScheduled = memory.flushScheduled
  BY <1>1 DEF Memories
<1>5. base \in Memories
  BY <1>1, <1>2 DEF Memories
<1>6. /\ sent \in Memories
      /\ sent.closed = base.closed /\ sent.queue = base.queue /\ sent.paused = base.paused
      /\ sent.drains = base.drains /\ sent.taken = base.taken /\ sent.arrived = base.arrived
      /\ sent.told = base.told
      /\ sent.tasks \in {base.tasks, Append(base.tasks, e)}
      /\ sent.flushScheduled[e] \/ base.paused[e]
      /\ \A d \in Ends : base.flushScheduled[d] => sent.flushScheduled[d]
  BY <1>5, ScheduleFacts
<1>7. memory' = IF Len(sent.queue[e]) > MemoryMark THEN parks ELSE sent
  BY DEF MemorySend
<1>8. ~memory.closed
  BY DEF MemorySend
<1> HIDE DEF base, sent
<1>9. /\ parks \in Memories
      /\ parks.drains = [sent.drains EXCEPT ![e] = @ + 1]
      /\ parks.closed = sent.closed /\ parks.queue = sent.queue /\ parks.paused = sent.paused
      /\ parks.taken = sent.taken /\ parks.arrived = sent.arrived
      /\ parks.told = sent.told /\ parks.tasks = sent.tasks
      /\ parks.flushScheduled = sent.flushScheduled
  <2>1. parks.drains = [sent.drains EXCEPT ![e] = @ + 1]
    BY <1>6 DEF Memories
  <2>2. [sent.drains EXCEPT ![e] = @ + 1] \in [Ends -> Nat]
    BY <1>6 DEF Memories
  <2>3. parks \in Memories
    BY <1>6, <2>2 DEF Memories
  <2>4. /\ parks.closed = sent.closed /\ parks.queue = sent.queue /\ parks.paused = sent.paused
        /\ parks.taken = sent.taken /\ parks.arrived = sent.arrived
        /\ parks.told = sent.told /\ parks.tasks = sent.tasks
        /\ parks.flushScheduled = sent.flushScheduled
    BY <1>6 DEF Memories
  <2> QED BY <2>1, <2>3, <2>4
<1> HIDE DEF parks, text
<1>10. memory' \in {sent, parks}
  BY <1>7
<1>11. /\ memory' \in Memories
       /\ memory'.taken = [memory.taken EXCEPT ![e] = text]
       /\ memory'.queue = [memory.queue EXCEPT ![e] = Append(@, text)]
       /\ memory'.arrived = memory.arrived /\ memory'.paused = memory.paused
       /\ memory'.closed = memory.closed /\ memory'.told = memory.told
       /\ memory'.tasks \in {memory.tasks, Append(memory.tasks, e)}
       /\ memory'.flushScheduled[e] \/ memory.paused[e]
       /\ \A d \in Ends : memory.flushScheduled[d] => memory'.flushScheduled[d]
  BY <1>3, <1>4, <1>6, <1>9, <1>10
<1>12. /\ \A d \in Ends : d # e => memory'.drains[d] = memory.drains[d]
       /\ memory'.drains[e] \in {memory.drains[e], memory.drains[e] + 1}
       /\ memory'.drains[e] # memory.drains[e] => Len(memory'.queue[e]) > MemoryMark
  <2>1. CASE Len(sent.queue[e]) > MemoryMark
    <3>1. memory' = parks
      BY <1>7, <2>1
    <3> QED BY <1>1, <1>4, <1>6, <1>9, <2>1, <3>1 DEF Memories
  <2>2. CASE ~(Len(sent.queue[e]) > MemoryMark)
    <3>1. memory' = sent
      BY <1>7, <2>2
    <3> QED BY <1>4, <1>6, <3>1
  <2> QED BY <2>1, <2>2
<1>13. AllOrdered'
  <2> SUFFICES ASSUME NEW d \in Ends
               PROVE  Ordered(memory'.arrived[d], memory'.queue[d], memory'.taken[d])
    BY DEF AllOrdered
  <2>1. Ordered(memory.arrived[d], memory.queue[d], memory.taken[d])
    BY DEF MemoryInv, AllOrdered
  <2>2. CASE d = e
    <3>1. /\ memory.arrived[e] \in Seq(Nat) /\ memory.queue[e] \in Seq(Nat)
          /\ memory.taken[e] \in Nat
      BY <1>1 DEF Memories
    <3>2. Ordered(memory.arrived[e], Append(memory.queue[e], text), text)
      BY <2>1, <2>2, <3>1, OrderedAppend DEF text
    <3>3. memory'.queue[e] = Append(memory.queue[e], text) /\ memory'.taken[e] = text
      BY <1>1, <1>11 DEF Memories
    <3> QED BY <1>11, <2>2, <3>2, <3>3
  <2>3. CASE d # e
    <3>1. memory'.queue[d] = memory.queue[d] /\ memory'.taken[d] = memory.taken[d]
      BY <1>1, <1>11, <2>3 DEF Memories
    <3> QED BY <1>11, <2>1, <3>1
  <2> QED BY <2>2, <2>3
<1>14. ~memory.told
  BY <1>8 DEF MemoryInv, CloseIsLast
<1>15. CloseIsLast'
  BY <1>8, <1>11, <1>14, CloseStaysLast
<1>16. MemoryParkedIsWoken'
  <2> SUFFICES ASSUME NEW d \in Ends, memory'.drains[d] > 0
               PROVE  \/ memory'.paused[d] /\ Len(memory'.queue[d]) > MemoryMark
                      \/ memory'.flushScheduled[d]
    BY DEF MemoryParkedIsWoken
  <2>1. memory.drains[d] > 0 =>
          \/ memory.paused[d] /\ Len(memory.queue[d]) > MemoryMark
          \/ memory.flushScheduled[d]
    BY <1>8 DEF MemoryInv, MemoryParkedIsWoken
  <2>2. CASE d # e
    <3>1. memory'.queue[d] = memory.queue[d]
      BY <1>1, <1>11, <2>2 DEF Memories
    <3> QED BY <1>11, <1>12, <2>1, <2>2, <3>1
  <2>3. CASE d = e /\ memory'.drains[e] = memory.drains[e]
    <3>1. Len(memory'.queue[e]) = Len(memory.queue[e]) + 1
      BY <1>1, <1>2, <1>11 DEF Memories
    <3>2. Len(memory.queue[e]) \in Nat
      BY <1>1 DEF Memories
    <3>3. Len(memory.queue[e]) > MemoryMark => Len(memory'.queue[e]) > MemoryMark
      BY <3>1, <3>2, MemoryMarkAssumption
    <3> QED BY <1>11, <2>1, <2>3, <3>3
  <2>4. CASE d = e /\ memory'.drains[e] # memory.drains[e]
    BY <1>11, <1>12, <2>4
  <2> QED BY <2>2, <2>3, <2>4
<1>17. ASSUME NEW d \in Ends PROVE EndMoves(d)
  <2>1. CASE d = e
    <3>1. memory'.taken[e] = memory.taken[e] + 1
      BY <1>1, <1>11 DEF Memories, text
    <3> QED BY <1>8, <1>11, <1>12, <2>1, <3>1 DEF EndMoves, EndStays, EndTakes, EndGives, EndShuts, EndHears
  <2>2. CASE d # e
    <3>1. memory'.taken[d] = memory.taken[d]
      BY <1>1, <1>11, <2>2 DEF Memories
    <3> QED BY <1>11, <1>12, <2>2, <3>1 DEF EndMoves, EndStays, EndTakes, EndGives, EndShuts, EndHears
  <2> QED BY <2>1, <2>2
<1> QED BY <1>11, <1>13, <1>15, <1>16, <1>17, MemoryTyped DEF MemoryMoves, MemoryInv, MemoryTypeOK, Memories

LEMMA MemoryFlushMoves ==
  ASSUME MemoryInv, NEW e \in Ends, MemoryFlush(e) PROVE MemoryMoves
<1>1. memory \in Memories
  BY MemoryTyped DEF MemoryInv
<1>2. PICK n \in 0 .. Len(memory.queue[e]) : memory' = Flushed(memory, e, n)
  BY DEF MemoryFlush
<1>3. memory.tasks # <<>> /\ memory.tasks[1] = e
  BY DEF MemoryFlush
<1> DEFINE inbox == memory.queue[e]
           rest == SubSeq(inbox, n + 1, Len(inbox))
           handed == memory.arrived[e] \o SubSeq(inbox, 1, n)
           left == IF Len(rest) <= MemoryMark THEN 0 ELSE memory.drains[e]
           holds == memory.paused[e] \/ rest # <<>>
           after == [memory EXCEPT !.flushScheduled[e] = FALSE, !.tasks = Tail(@),
                                   !.arrived[e] = handed, !.queue[e] = rest,
                                   !.paused[e] = holds, !.drains[e] = left]
<1>4. memory' = after
  BY <1>1, <1>2 DEF Flushed, Memories
<1>5. /\ rest \in Seq(Nat) /\ handed \in Seq(Nat)
      /\ Ordered(handed, rest, memory.taken[e])
      /\ \E k \in Len(memory.arrived[e]) .. memory.taken[e] : handed = [i \in 1 .. k |-> i]
  <2>1. /\ memory.arrived[e] \in Seq(Nat) /\ inbox \in Seq(Nat) /\ memory.taken[e] \in Nat
        /\ Ordered(memory.arrived[e], inbox, memory.taken[e])
    BY <1>1 DEF Memories, MemoryInv, AllOrdered
  <2>2. n \in 0 .. Len(inbox)
    OBVIOUS
  <2> HIDE DEF inbox
  <2>3. PICK a \in Seq(Nat), b \in Seq(Nat), c \in Nat :
          a = memory.arrived[e] /\ b = inbox /\ c = memory.taken[e]
    BY <2>1
  <2>4. Ordered(a, b, c) /\ n \in 0 .. Len(b)
    BY <2>1, <2>2, <2>3
  <2>5. FlushedInOrder(a, b, c, n)
    BY <2>4, OrderedFlush
  <2> QED BY <2>3, <2>5 DEF FlushedInOrder
<1>6. left \in {memory.drains[e], 0} /\ left \in Nat /\ holds \in BOOLEAN
  BY <1>1 DEF Memories
<1>7. left > 0 => Len(rest) > MemoryMark /\ rest # <<>>
  <2> HIDE DEF rest
  <2> QED BY <1>5, MemoryMarkAssumption
<1> HIDE DEF handed, rest, inbox, left
<1>8. Tail(memory.tasks) \in Seq(Ends \cup {"close"})
  BY <1>1, <1>3 DEF Memories
<1>9. /\ memory'.flushScheduled = [memory.flushScheduled EXCEPT ![e] = FALSE]
      /\ memory'.tasks = Tail(memory.tasks)
      /\ memory'.arrived = [memory.arrived EXCEPT ![e] = handed]
      /\ memory'.queue = [memory.queue EXCEPT ![e] = rest]
  BY <1>1, <1>4 DEF Memories
<1>10. /\ memory'.paused = [memory.paused EXCEPT ![e] = holds]
       /\ memory'.drains = [memory.drains EXCEPT ![e] = left]
       /\ memory'.closed = memory.closed /\ memory'.told = memory.told
       /\ memory'.taken = memory.taken
  <2> HIDE DEF holds
  <2> QED BY <1>1, <1>4 DEF Memories
<1>11. memory' \in Memories
  <2> HIDE DEF holds
  <2> QED BY <1>1, <1>4, <1>5, <1>6, <1>8 DEF Memories
<1>12. ASSUME NEW d \in Ends, d # e
       PROVE  UNCHANGED <<memory.flushScheduled[d], memory.arrived[d], memory.queue[d],
                          memory.paused[d], memory.drains[d]>>
  BY <1>1, <1>9, <1>10, <1>12 DEF Memories
<1>13. /\ memory'.arrived[e] = handed /\ memory'.queue[e] = rest
       /\ memory'.paused[e] = holds /\ memory'.drains[e] = left
  BY <1>1, <1>9, <1>10 DEF Memories
<1>14. AllOrdered'
  <2> SUFFICES ASSUME NEW d \in Ends
               PROVE  Ordered(memory'.arrived[d], memory'.queue[d], memory'.taken[d])
    BY DEF AllOrdered
  <2>1. CASE d = e
    BY <1>5, <1>10, <1>13, <2>1
  <2>2. CASE d # e
    BY <1>10, <1>12, <2>2 DEF MemoryInv, AllOrdered
  <2> QED BY <2>1, <2>2
<1>15. ~memory.told
  BY <1>3 DEF MemoryInv, CloseIsLast
<1>16. CloseIsLast'
  <2>1. memory.tasks \in Seq(Ends \cup {"close"}) /\ Len(memory.tasks) > 0
    BY <1>1, <1>3 DEF Memories
  <2>2. /\ Len(memory'.tasks) = Len(memory.tasks) - 1
        /\ \A i \in 1 .. Len(memory'.tasks) : memory'.tasks[i] = memory.tasks[i + 1]
    BY <1>9, <2>1
  <2>3. e # "close"
    BY DEF Ends
  <2>4. ASSUME ~memory.closed, NEW i \in 1 .. Len(memory'.tasks)
        PROVE  memory'.tasks[i] # "close"
    <3>1. i + 1 \in 1 .. Len(memory.tasks)
      BY <2>1, <2>2
    <3> QED BY <2>2, <2>4, <3>1 DEF MemoryInv, CloseIsLast
  <2>5. ASSUME memory.closed
        PROVE  /\ memory'.tasks # <<>>
               /\ \A i \in 1 .. Len(memory'.tasks) :
                    memory'.tasks[i] = "close" <=> i = Len(memory'.tasks)
    <3>1. \A i \in 1 .. Len(memory.tasks) :
            memory.tasks[i] = "close" <=> i = Len(memory.tasks)
      BY <1>15, <2>5 DEF MemoryInv, CloseIsLast
    <3>2. Len(memory.tasks) # 1
      <4>1. 1 \in 1 .. Len(memory.tasks) /\ memory.tasks[1] # "close"
        BY <1>3, <2>1, <2>3
      <4> QED BY <3>1, <4>1
    <3>3. Len(memory'.tasks) > 0
      <4>1. Len(memory.tasks) \in Nat /\ Len(memory'.tasks) = Len(memory.tasks) - 1
        BY <2>1, <2>2
      <4>2. \A k \in Nat : k > 0 /\ k # 1 => k - 1 > 0
        OBVIOUS
      <4> QED BY <2>1, <3>2, <4>1, <4>2
    <3>4. ASSUME NEW i \in 1 .. Len(memory'.tasks)
          PROVE  memory'.tasks[i] = "close" <=> i = Len(memory'.tasks)
      <4>1. i + 1 \in 1 .. Len(memory.tasks)
        BY <2>1, <2>2
      <4>2. i + 1 = Len(memory.tasks) <=> i = Len(memory'.tasks)
        BY <2>1, <2>2
      <4> QED BY <2>2, <3>1, <4>1, <4>2
    <3> QED BY <3>3, <3>4
  <2> QED BY <1>10, <1>15, <2>4, <2>5 DEF CloseIsLast
<1>17. MemoryParkedIsWoken'
  <2> SUFFICES ASSUME NEW d \in Ends, memory'.drains[d] > 0
               PROVE  \/ memory'.paused[d] /\ Len(memory'.queue[d]) > MemoryMark
                      \/ memory'.flushScheduled[d]
                      \/ memory'.closed /\ ~memory'.told
    BY DEF MemoryParkedIsWoken
  <2>1. CASE d = e
    BY <1>7, <1>13, <2>1
  <2>2. CASE d # e
    BY <1>10, <1>12, <2>2 DEF MemoryInv, MemoryParkedIsWoken
  <2> QED BY <2>1, <2>2
<1>18. ASSUME NEW d \in Ends PROVE EndMoves(d)
  <2>1. CASE d = e
    <3>1. \E k \in Len(memory.arrived[e]) .. memory.taken[e] :
            memory'.arrived[e] = [i \in 1 .. k |-> i]
      BY <1>5, <1>13
    <3> QED BY <1>6, <1>10, <1>13, <1>15, <2>1, <3>1 DEF EndMoves, EndStays, EndTakes, EndGives, EndShuts, EndHears
  <2>2. CASE d # e
    BY <1>10, <1>12, <2>2 DEF EndMoves, EndStays, EndTakes, EndGives, EndShuts, EndHears
  <2> QED BY <2>1, <2>2
<1> QED BY <1>11, <1>14, <1>16, <1>17, <1>18, MemoryTyped
     DEF MemoryMoves, MemoryInv, MemoryTypeOK, Memories

\* A turn that only pauses an end, or resumes it and may schedule its flush.
LEMMA MemoryKeeps ==
  ASSUME MemoryInv, memory' \in Memories,
         UNCHANGED <<memory.queue, memory.drains, memory.taken, memory.arrived,
                     memory.closed, memory.told>>,
         CloseIsLast', MemoryParkedIsWoken'
  PROVE  MemoryMoves
<1>1. AllOrdered'
  BY DEF MemoryInv, AllOrdered
<1>2. \A e \in Ends : EndMoves(e)
  BY DEF EndMoves, EndStays, EndTakes, EndGives, EndShuts, EndHears
<1> QED BY <1>1, <1>2, MemoryTyped DEF MemoryMoves, MemoryInv, MemoryTypeOK, Memories

LEMMA MemoryPauseMoves ==
  ASSUME MemoryInv, NEW e \in Ends, MemoryPause(e) PROVE MemoryMoves
<1>1. memory \in Memories
  BY MemoryTyped DEF MemoryInv
<1>2. memory' = [memory EXCEPT !.paused[e] = TRUE]
  BY DEF MemoryPause
<1>3. /\ memory' \in Memories
      /\ UNCHANGED <<memory.queue, memory.drains, memory.taken, memory.arrived,
                     memory.closed, memory.told, memory.tasks, memory.flushScheduled>>
      /\ memory'.paused = [memory.paused EXCEPT ![e] = TRUE]
  BY <1>1, <1>2 DEF Memories
<1>4. CloseIsLast'
  BY <1>3 DEF MemoryInv, CloseIsLast
<1>5. \A d \in Ends : memory.paused[d] => memory'.paused[d]
  BY <1>1, <1>3 DEF Memories
<1>6. MemoryParkedIsWoken'
  BY <1>3, <1>5 DEF MemoryInv, MemoryParkedIsWoken
<1> QED BY <1>3, <1>4, <1>6, MemoryKeeps

LEMMA MemoryResumeMoves ==
  ASSUME MemoryInv, NEW e \in Ends, MemoryResume(e) PROVE MemoryMoves
<1> DEFINE resumed == [memory EXCEPT !.paused[e] = FALSE]
           q == ScheduleFlush(resumed, e)
<1>1. memory \in Memories
  BY MemoryTyped DEF MemoryInv
<1>2. /\ resumed \in Memories
      /\ resumed.queue = memory.queue /\ resumed.drains = memory.drains
      /\ resumed.taken = memory.taken /\ resumed.arrived = memory.arrived
      /\ resumed.closed = memory.closed /\ resumed.told = memory.told
      /\ resumed.tasks = memory.tasks /\ resumed.flushScheduled = memory.flushScheduled
      /\ resumed.paused = [memory.paused EXCEPT ![e] = FALSE]
  BY <1>1 DEF Memories
<1>3. memory' = IF memory.closed THEN resumed ELSE q
  BY DEF MemoryResume
<1> HIDE DEF resumed
<1>4. /\ q \in Memories
      /\ q.closed = resumed.closed /\ q.queue = resumed.queue /\ q.paused = resumed.paused
      /\ q.drains = resumed.drains /\ q.taken = resumed.taken /\ q.arrived = resumed.arrived
      /\ q.told = resumed.told
      /\ q.tasks \in {resumed.tasks, Append(resumed.tasks, e)}
      /\ q.flushScheduled[e] \/ resumed.paused[e]
      /\ \A d \in Ends : resumed.flushScheduled[d] => q.flushScheduled[d]
  BY <1>2, ScheduleFacts
<1> HIDE DEF q
<1>5. ~resumed.paused[e] /\ \A d \in Ends : d # e => resumed.paused[d] = memory.paused[d]
  BY <1>1, <1>2 DEF Memories
<1>6. CASE memory.closed
  <2>1. memory' = resumed
    BY <1>3, <1>6
  <2>2. CloseIsLast'
    BY <1>2, <2>1 DEF MemoryInv, CloseIsLast
  <2>3. MemoryParkedIsWoken'
    <3>1. memory.told => \A d \in Ends : ~(memory.drains[d] > 0)
      BY <1>1 DEF MemoryInv, CloseIsLast, Memories
    <3> QED BY <1>2, <1>6, <2>1, <3>1 DEF MemoryParkedIsWoken
  <2> QED BY <1>2, <2>1, <2>2, <2>3, MemoryKeeps
<1>7. CASE ~memory.closed
  <2>1. memory' = q
    BY <1>3, <1>7
  <2>2. ~memory.told
    BY <1>7 DEF MemoryInv, CloseIsLast
  <2>3. CloseIsLast'
    BY <1>2, <1>4, <1>7, <2>1, <2>2, CloseStaysLast
  <2>4. MemoryParkedIsWoken'
    BY <1>2, <1>4, <1>5, <1>7, <2>1 DEF MemoryInv, MemoryParkedIsWoken
  <2> QED BY <1>2, <1>4, <2>1, <2>3, <2>4, MemoryKeeps
<1> QED BY <1>6, <1>7

LEMMA MemoryCloseMoves == ASSUME MemoryInv, MemoryClose PROVE MemoryMoves
<1>1. memory \in Memories /\ ~memory.closed
  BY MemoryTyped DEF MemoryInv, MemoryClose
<1>2. memory' = [memory EXCEPT !.closed = TRUE, !.tasks = Append(@, "close")]
  BY DEF MemoryClose
<1>3. Append(memory.tasks, "close") \in Seq(Ends \cup {"close"})
  BY <1>1 DEF Memories
<1>4. /\ memory' \in Memories
      /\ UNCHANGED <<memory.queue, memory.drains, memory.taken, memory.arrived,
                     memory.told>>
      /\ memory'.closed /\ memory'.tasks = Append(memory.tasks, "close")
  BY <1>1, <1>2, <1>3 DEF Memories
<1>5. ~memory.told /\ \A i \in 1 .. Len(memory.tasks) : memory.tasks[i] # "close"
  BY <1>1 DEF MemoryInv, CloseIsLast
<1>6. AllOrdered'
  BY <1>4 DEF MemoryInv, AllOrdered
<1>7. CloseIsLast'
  <2>1. memory.tasks \in Seq(Ends \cup {"close"})
    BY <1>1 DEF Memories
  <2>2. /\ Len(memory'.tasks) = Len(memory.tasks) + 1
        /\ \A i \in 1 .. Len(memory'.tasks) :
             memory'.tasks[i] = IF i = Len(memory.tasks) + 1 THEN "close" ELSE memory.tasks[i]
    BY <1>4, <2>1
  <2>3. \A i \in 1 .. Len(memory'.tasks) :
          memory'.tasks[i] = "close" <=> i = Len(memory'.tasks)
    BY <1>5, <2>1, <2>2
  <2>4. memory'.tasks # <<>>
    BY <2>1, <2>2
  <2> QED BY <1>4, <1>5, <2>3, <2>4 DEF CloseIsLast
<1>8. MemoryParkedIsWoken'
  BY <1>4, <1>5 DEF MemoryParkedIsWoken
<1>9. \A e \in Ends : EndMoves(e)
  BY <1>1, <1>4, <1>5 DEF EndMoves, EndStays, EndTakes, EndGives, EndShuts, EndHears
<1> QED BY <1>4, <1>6, <1>7, <1>8, <1>9, MemoryTyped
     DEF MemoryMoves, MemoryInv, MemoryTypeOK, Memories

LEMMA MemoryTellMoves == ASSUME MemoryInv, MemoryTell PROVE MemoryMoves
<1> DEFINE none == [e \in Ends |-> 0]
<1>1. memory \in Memories
  BY MemoryTyped DEF MemoryInv
<1>2. memory.tasks # <<>> /\ memory.tasks[1] = "close"
  BY DEF MemoryTell
<1>3. memory' = [memory EXCEPT !.tasks = Tail(@), !.told = TRUE, !.drains = none]
  BY DEF MemoryTell
<1>4. none \in [Ends -> Nat] /\ \A e \in Ends : none[e] = 0
  OBVIOUS
<1>5. memory.tasks \in Seq(Ends \cup {"close"}) /\ Len(memory.tasks) > 0
  BY <1>1, <1>2 DEF Memories
<1>6. Tail(memory.tasks) \in Seq(Ends \cup {"close"})
  BY <1>5
<1> HIDE DEF none
<1>7. /\ memory' \in Memories
      /\ UNCHANGED <<memory.queue, memory.taken, memory.arrived, memory.closed>>
      /\ memory'.told /\ memory'.drains = none /\ memory'.tasks = Tail(memory.tasks)
  BY <1>1, <1>3, <1>4, <1>6 DEF Memories
<1>8. memory.closed /\ ~memory.told
  BY <1>2, <1>5 DEF MemoryInv, CloseIsLast
<1>9. \A i \in 1 .. Len(memory.tasks) : memory.tasks[i] = "close" <=> i = Len(memory.tasks)
  BY <1>8 DEF MemoryInv, CloseIsLast
<1>10. Len(memory.tasks) = 1
  <2>1. 1 \in 1 .. Len(memory.tasks) /\ memory.tasks[1] = "close"
    BY <1>2, <1>5
  <2> QED BY <1>9, <2>1
<1>11. memory'.tasks = <<>>
  <2>1. Len(Tail(memory.tasks)) = 0
    BY <1>5, <1>10
  <2> QED BY <1>6, <1>7, <2>1, EmptySeq
<1>12. AllOrdered'
  BY <1>7 DEF MemoryInv, AllOrdered
<1>13. CloseIsLast'
  BY <1>4, <1>7, <1>8, <1>11 DEF CloseIsLast
<1>14. MemoryParkedIsWoken'
  BY <1>4, <1>7 DEF MemoryParkedIsWoken
<1>15. \A e \in Ends : EndMoves(e)
  BY <1>4, <1>7, <1>8 DEF EndMoves, EndStays, EndTakes, EndGives, EndShuts, EndHears
<1> QED BY <1>7, <1>12, <1>13, <1>14, <1>15, MemoryTyped
     DEF MemoryMoves, MemoryInv, MemoryTypeOK, Memories

LEMMA MemoryStep == ASSUME MemoryInv, MemoryNext PROVE MemoryMoves
<1>1. CASE MemoryTell
  BY <1>1, MemoryTellMoves
<1>2. CASE \E e \in Ends : MemoryFlush(e)
  BY <1>2, MemoryFlushMoves
<1>3. CASE MemoryClose
  BY <1>3, MemoryCloseMoves
<1>4. CASE \E e \in Ends : MemorySend(e)
  BY <1>4, MemorySendMoves
<1>5. CASE \E e \in Ends : MemoryPause(e) \/ MemoryResume(e)
  BY <1>5, MemoryPauseMoves, MemoryResumeMoves
<1> QED BY <1>1, <1>2, <1>3, <1>4, <1>5 DEF MemoryNext, MemoryTask

LEMMA MemoryStutters == ASSUME MemoryInv, UNCHANGED memory PROVE MemoryMoves
<1>1. CloseIsLast' /\ MemoryParkedIsWoken'
  BY DEF MemoryInv, CloseIsLast, MemoryParkedIsWoken
<1>2. memory' \in Memories
  BY MemoryTyped DEF MemoryInv
<1> QED BY <1>1, <1>2, MemoryKeeps

LEMMA MemoryStarts == MemoryInit => MemoryInv /\ ToA!PipeInit /\ ToB!PipeInit
<1> SUFFICES ASSUME MemoryInit PROVE MemoryInv /\ ToA!PipeInit /\ ToB!PipeInit
  OBVIOUS
<1>1. /\ memory.closed = FALSE /\ memory.told = FALSE /\ memory.tasks = <<>>
      /\ memory.drains = [e \in Ends |-> 0] /\ memory.taken = [e \in Ends |-> 0]
      /\ memory.arrived = [e \in Ends |-> <<>>] /\ memory.queue = [e \in Ends |-> <<>>]
  BY DEF MemoryInit
<1>2. <<>> \in Seq(Nat) /\ <<>> \in Seq(Ends \cup {"close"}) /\ Len(<<>>) = 0
  BY EmptySeq
<1>3. memory \in Memories
  BY <1>2 DEF MemoryInit, Memories
<1>4. AllOrdered
  BY <1>1, <1>2 DEF AllOrdered, Ordered
<1>5. CloseIsLast /\ MemoryParkedIsWoken
  BY <1>1, <1>2 DEF CloseIsLast, MemoryParkedIsWoken
<1>6. "a" \in Ends /\ "b" \in Ends
  BY DEF Ends
<1>7. ToA!PipeInit /\ ToB!PipeInit
  BY <1>1, <1>6 DEF ToA!PipeInit, ToB!PipeInit
<1> QED BY <1>3, <1>4, <1>5, <1>7, MemoryTyped DEF MemoryInv

\* What a step is for one end is a step of the pipe to it.
LEMMA EndIsPipe ==
  ASSUME MemoryInv, MemoryMoves
  PROVE  /\ ToA!PipeNext \/ UNCHANGED ToA!pipe
         /\ ToB!PipeNext \/ UNCHANGED ToB!pipe
<1>1. memory \in Memories
  BY MemoryTyped DEF MemoryInv
<1>2. ASSUME NEW e \in Ends
      PROVE  /\ EndMoves(e)
             /\ Len(memory.arrived[e]) \in Len(memory.arrived[e]) .. memory.taken[e] + 1
             /\ memory.arrived[e] = [i \in 1 .. Len(memory.arrived[e]) |-> i]
             /\ memory.closed \in BOOLEAN /\ memory.told \in BOOLEAN
             /\ ~memory.closed => ~memory.told
  <2>1. memory.arrived[e] \in Seq(Nat) /\ memory.queue[e] \in Seq(Nat)
        /\ memory.taken[e] \in Nat
    BY <1>1 DEF Memories
  <2>2. Ordered(memory.arrived[e], memory.queue[e], memory.taken[e])
    BY DEF MemoryInv, AllOrdered
  <2>3. Len(memory.arrived[e]) + Len(memory.queue[e]) = memory.taken[e]
    BY <2>2 DEF Ordered
  <2>4. Len(memory.arrived[e]) \in Len(memory.arrived[e]) .. memory.taken[e] + 1
    <3>1. Len(memory.arrived[e]) \in Nat /\ Len(memory.queue[e]) \in Nat
      BY <2>1
    <3>2. \A m, n \in Nat : m \in m .. m + n + 1
      OBVIOUS
    <3>3. Len(memory.arrived[e]) + Len(memory.queue[e]) + 1 = memory.taken[e] + 1
      BY <2>3
    <3> QED BY <3>1, <3>2, <3>3
  <2>5. memory.arrived[e] = [i \in 1 .. Len(memory.arrived[e]) |-> i]
    <3>1. PICK a \in Seq(Nat) : a = memory.arrived[e]
      BY <2>1
    <3>2. \A i \in 1 .. Len(a) : a[i] = i
      BY <2>2, <3>1 DEF Ordered
    <3>3. a = [i \in 1 .. Len(a) |-> i]
      BY <3>2
    <3> QED BY <3>1, <3>3
  <2>6. memory.closed \in BOOLEAN /\ memory.told \in BOOLEAN
    BY <1>1 DEF Memories
  <2> QED BY <2>4, <2>5, <2>6 DEF MemoryMoves, MemoryInv, CloseIsLast
<1>3. "a" \in Ends /\ "b" \in Ends
  BY DEF Ends
<1>4. ToA!PipeNext \/ UNCHANGED ToA!pipe
  <2>1. CASE EndStays("a")
    BY <2>1 DEF EndStays, ToA!pipe
  <2>2. CASE EndTakes("a")
    <3>1. ToA!Passes
      BY <1>2, <1>3, <2>2 DEF EndTakes, ToA!Passes, ToA!First
    <3> QED BY <2>2, <3>1 DEF EndTakes, ToA!Send, ToA!PipeNext
  <2>3. CASE EndGives("a")
    <3>1. ToA!Passes
      BY <2>3 DEF EndGives, ToA!Passes, ToA!First
    <3> QED BY <2>3, <3>1 DEF EndGives, ToA!Deliver, ToA!PipeNext
  <2>4. CASE EndShuts("a")
    BY <2>4 DEF EndShuts, ToA!Close, ToA!PipeNext
  <2>5. CASE EndHears("a")
    BY <2>5 DEF EndHears, ToA!Tell, ToA!PipeNext
  <2> QED BY <1>2, <1>3, <2>1, <2>2, <2>3, <2>4, <2>5 DEF EndMoves
<1>5. ToB!PipeNext \/ UNCHANGED ToB!pipe
  <2>1. CASE EndStays("b")
    BY <2>1 DEF EndStays, ToB!pipe
  <2>2. CASE EndTakes("b")
    <3>1. ToB!Passes
      BY <1>2, <1>3, <2>2 DEF EndTakes, ToB!Passes, ToB!First
    <3> QED BY <2>2, <3>1 DEF EndTakes, ToB!Send, ToB!PipeNext
  <2>3. CASE EndGives("b")
    <3>1. ToB!Passes
      BY <2>3 DEF EndGives, ToB!Passes, ToB!First
    <3> QED BY <2>3, <3>1 DEF EndGives, ToB!Deliver, ToB!PipeNext
  <2>4. CASE EndShuts("b")
    BY <2>4 DEF EndShuts, ToB!Close, ToB!PipeNext
  <2>5. CASE EndHears("b")
    BY <2>5 DEF EndHears, ToB!Tell, ToB!PipeNext
  <2> QED BY <1>2, <1>3, <2>1, <2>2, <2>3, <2>4, <2>5 DEF EndMoves
<1> QED BY <1>4, <1>5

\* duplex.ts, createMemoryDuplex: each direction is a pipe, and a sender is
\* parked only while something that settles its promise is to come.
THEOREM MemoryIsPipe ==
  MemorySpec => ToA!PipeSafety /\ ToB!PipeSafety /\ []MemoryParkedIsWoken
<1>1. MemoryInv /\ [MemoryNext]_memory
        => /\ MemoryInv'
           /\ ToA!PipeNext \/ UNCHANGED ToA!pipe
           /\ ToB!PipeNext \/ UNCHANGED ToB!pipe
  BY MemoryStep, MemoryStutters, EndIsPipe DEF MemoryMoves
<1>2. MemoryInv => MemoryParkedIsWoken
  BY DEF MemoryInv
<1> QED BY MemoryStarts, <1>1, <1>2, PTL
        DEF MemorySpec, ToA!PipeSafety, ToB!PipeSafety

\* WsDuplex.
Sockets ==
  [socket : SocketStates, bufferedAmount : Nat, wire : Seq(Nat), bound : BOOLEAN,
   closed : BOOLEAN, pending : Seq(Nat), poll : BOOLEAN, waiters : Nat,
   subscribed : BOOLEAN, late : BOOLEAN, told : Nat, taken : Nat]

Links ==
  [owner : {"handler", "link"}, closed : BOOLEAN,
   connected : {"pending", "resolved", "rejected"}, hooked : BOOLEAN,
   call : [Callers -> {"new", "waiting", "linked", "failed", "aborted"}]]

\* A duplex and its socket: what was sent and what waits for the open are the
\* texts taken, in order; a closed duplex holds nothing and nobody.
WsGood(w) ==
  /\ w \in Sockets
  /\ ~w.closed => Ordered(w.wire, w.pending, w.taken) /\ ~w.late /\ w.told = 0
  /\ w.closed => /\ w.bound /\ w.pending = <<>> /\ w.waiters = 0 /\ ~w.poll
                 /\ Len(w.wire) <= w.taken
                 /\ \A i \in 1 .. Len(w.wire) : w.wire[i] = i
  /\ w.bound => w.subscribed
  /\ ~w.bound => w.pending = <<>> /\ w.waiters = 0 /\ ~w.poll
  /\ w.pending # <<>> => w.socket # "open"
  /\ w.waiters > 0 /\ w.socket = "open" => w.poll

\* The link listens while it connects, and only then.
LinkGood(w, l) ==
  /\ l \in Links
  /\ l.hooked => ~w.bound /\ l.owner = "link" /\ ~l.closed /\ w.socket = "connecting"
  /\ l.owner = "handler" => w.bound
  /\ l.owner = "link" /\ w.bound => w.socket # "connecting"
  /\ l.connected = "pending" => l.hooked

WsInv == WsGood(ws) /\ LinkGood(ws, link)

Opened(w) == w.bound => ~w.closed

\* w and v are the same to the pipe.
WsSame(w, v) ==
  /\ v.taken = w.taken /\ v.wire = w.wire /\ v.waiters = w.waiters
  /\ Opened(v) <=> Opened(w)
  /\ v.told > 0 <=> w.told > 0

\* From w to v is a step of the pipe.
WsMoves(w, v) ==
  \/ WsSame(w, v)
  \/ /\ Opened(w) /\ v.taken = w.taken + 1
     /\ \E k \in Len(w.wire) .. w.taken + 1 : v.wire = [i \in 1 .. k |-> i]
     /\ v.waiters \in {w.waiters, w.waiters + 1}
     /\ Opened(v) /\ (v.told > 0 <=> w.told > 0)
  \/ /\ ~(w.told > 0)
     /\ \E k \in Len(w.wire) .. w.taken : v.wire = [i \in 1 .. k |-> i]
     /\ v.waiters \in {w.waiters, 0} /\ v.taken = w.taken
     /\ (Opened(v) <=> Opened(w)) /\ ~(v.told > 0)
  \/ /\ Opened(w) /\ ~Opened(v) /\ v.told > 0 /\ v.waiters = 0
     /\ v.taken = w.taken /\ v.wire = w.wire
  \/ /\ ~Opened(w) /\ ~Opened(v) /\ ~(w.told > 0) /\ v.told > 0 /\ v.waiters = 0
     /\ v.taken = w.taken /\ v.wire = w.wire

LEMMA WsTyped == WsTypeOK <=> ws \in Sockets /\ link \in Links
  BY DEF WsTypeOK, Sockets, Links

\* v differs from w at most in the socket, which is not open.
LEMMA SocketGoes ==
  ASSUME NEW w, WsGood(w), NEW s \in SocketStates \ {"open"}
  PROVE  LET v == [w EXCEPT !.socket = s]
         IN  /\ WsGood(v) /\ WsSame(w, v)
             /\ v.socket = s /\ v.bound = w.bound /\ v.closed = w.closed
<1> DEFINE v == [w EXCEPT !.socket = s]
<1>1. w \in Sockets
  BY DEF WsGood
<1>2. v \in Sockets /\ v.socket = s
  BY <1>1 DEF Sockets, SocketStates
<1>3. /\ v.wire = w.wire /\ v.bound = w.bound /\ v.closed = w.closed
      /\ v.pending = w.pending /\ v.poll = w.poll /\ v.waiters = w.waiters
      /\ v.subscribed = w.subscribed /\ v.late = w.late /\ v.told = w.told
      /\ v.taken = w.taken
  BY <1>1 DEF Sockets
<1> HIDE DEF v
<1>4. WsGood(v)
  BY <1>2, <1>3 DEF WsGood
<1>5. WsSame(w, v)
  BY <1>3 DEF WsSame, Opened
<1> QED BY <1>2, <1>3, <1>4, <1>5 DEF v

LEMMA CloseSocketFacts ==
  ASSUME NEW w, WsGood(w)
  PROVE  /\ WsGood(CloseSocket(w)) /\ WsSame(w, CloseSocket(w))
         /\ CloseSocket(w).socket \in {"closing", "closed"}
         /\ CloseSocket(w).bound = w.bound /\ CloseSocket(w).closed = w.closed
<1> DEFINE s == IF w.socket = "closed" THEN w.socket ELSE "closing"
<1>1. CloseSocket(w) = [w EXCEPT !.socket = s]
  BY DEF CloseSocket, WsGood, Sockets
<1>2. s \in {"closing", "closed"} /\ s \in SocketStates \ {"open"}
  BY DEF SocketStates
<1> HIDE DEF s
<1> QED BY <1>1, <1>2, SocketGoes

\* close() of a bound duplex.
LEMMA CloseWsFacts ==
  ASSUME NEW w, WsGood(w), w.bound
  PROVE  /\ WsGood(CloseWs(w)) /\ WsMoves(w, CloseWs(w))
         /\ CloseWs(w).bound /\ CloseWs(w).closed
         /\ CloseWs(w).socket \in {w.socket, "closing"}
         /\ ~w.closed => CloseWs(w).socket \in {"closing", "closed"}
<1>1. w \in Sockets
  BY DEF WsGood
<1>2. CASE w.closed
  <2>1. CloseWs(w) = w
    BY <1>2 DEF CloseWs
  <2> QED BY <1>2, <2>1 DEF WsMoves, WsSame
<1>3. CASE ~w.closed
  <2> DEFINE s == IF w.socket = "closed" THEN w.socket ELSE "closing"
             v == [w EXCEPT !.closed = TRUE, !.pending = <<>>, !.socket = s,
                            !.poll = FALSE, !.waiters = 0, !.told = w.told + 1]
  <2>1. CloseWs(w) = v
    BY <1>1, <1>3 DEF CloseWs, SettleDrains, CloseSocket, WsGood, Sockets
  <2>2. s \in SocketStates /\ s \in {"closing", "closed"} /\ s \in {w.socket, "closing"}
    BY DEF SocketStates
  <2>3. <<>> \in Seq(Nat) /\ Len(<<>>) = 0 /\ w.told + 1 \in Nat /\ w.told + 1 > 0
    BY <1>1, EmptySeq DEF Sockets
  <2> HIDE DEF s
  <2>4. /\ v.closed = TRUE /\ v.pending = <<>> /\ v.socket = s /\ v.poll = FALSE
        /\ v.waiters = 0 /\ v.told = w.told + 1
    BY <1>1 DEF Sockets
  <2>5. /\ v.wire = w.wire /\ v.bound = w.bound /\ v.subscribed = w.subscribed
        /\ v.taken = w.taken /\ v.late = w.late
    BY <1>1 DEF Sockets
  <2>6. v \in Sockets
    BY <1>1, <2>2, <2>3 DEF Sockets
  <2> HIDE DEF v
  <2>7. /\ Len(w.wire) <= w.taken
        /\ \A i \in 1 .. Len(w.wire) : w.wire[i] = i
    <3>1. Len(w.wire) \in Nat /\ Len(w.pending) \in Nat
      BY <1>1 DEF Sockets
    <3>2. Ordered(w.wire, w.pending, w.taken)
      BY <1>3 DEF WsGood
    <3>3. Len(w.wire) + Len(w.pending) = w.taken
      BY <3>2 DEF Ordered
    <3>4. \A m, n \in Nat : m <= m + n
      OBVIOUS
    <3>5. Len(w.wire) <= w.taken
      BY <3>1, <3>3, <3>4
    <3> QED BY <3>2, <3>5 DEF Ordered
  <2>8. WsGood(v)
    BY <2>2, <2>4, <2>5, <2>6, <2>7 DEF WsGood
  <2>9. WsMoves(w, v)
    BY <1>3, <2>3, <2>4, <2>5 DEF WsMoves, Opened
  <2> QED BY <2>1, <2>2, <2>4, <2>5, <2>8, <2>9
<1> QED BY <1>2, <1>3

\* The constructor on an open socket.
LEMMA BindFacts ==
  ASSUME NEW w, WsGood(w), ~w.bound, w.socket = "open"
  PROVE  /\ WsGood(BindDuplex(w)) /\ WsSame(w, BindDuplex(w))
         /\ BindDuplex(w).socket = "open" /\ BindDuplex(w).bound
<1>1. w \in Sockets /\ ~w.closed /\ ~w.late
  BY DEF WsGood
<1> DEFINE v == [w EXCEPT !.bound = TRUE, !.closed = FALSE, !.subscribed = TRUE,
                          !.late = FALSE]
<1>2. BindDuplex(w) = v
  <2>1. (w.socket \in {"closing", "closed"}) = FALSE
    OBVIOUS
  <2>2. BindDuplex(w) = [w EXCEPT !.bound = TRUE,
                                  !.closed = w.socket \in {"closing", "closed"},
                                  !.subscribed = TRUE,
                                  !.late = w.socket \in {"closing", "closed"}]
    BY Zenon DEF BindDuplex
  <2> QED BY <2>1, <2>2, Zenon
<1>3. v.bound = TRUE /\ v.closed = FALSE /\ v.subscribed = TRUE /\ v.late = FALSE
  BY <1>1 DEF Sockets
<1>4. /\ v.wire = w.wire /\ v.pending = w.pending /\ v.poll = w.poll
      /\ v.waiters = w.waiters /\ v.told = w.told /\ v.taken = w.taken
      /\ v.socket = w.socket
  BY <1>1 DEF Sockets
<1>5. v \in Sockets
  BY <1>1 DEF Sockets
<1> HIDE DEF v
<1>6. WsGood(v)
  BY <1>1, <1>3, <1>4, <1>5 DEF WsGood
<1>7. WsSame(w, v)
  BY <1>1, <1>3, <1>4 DEF WsSame, Opened
<1> QED BY <1>2, <1>3, <1>4, <1>6, <1>7

\* The texts that waited follow those that went.
JoinedInOrder(handed, inbox, count) ==
  LET all == handed \o inbox
  IN  /\ all \in Seq(Nat)
      /\ Ordered(all, <<>>, count)
      /\ \E k \in Len(handed) .. count : all = [i \in 1 .. k |-> i]

LEMMA OrderedJoin ==
  ASSUME NEW handed \in Seq(Nat), NEW inbox \in Seq(Nat), NEW count \in Nat,
         Ordered(handed, inbox, count)
  PROVE  JoinedInOrder(handed, inbox, count)
<1>1. Len(inbox) \in 0 .. Len(inbox)
  OBVIOUS
<1>2. FlushedInOrder(handed, inbox, count, Len(inbox))
  BY <1>1, OrderedFlush
<1>3. SubSeq(inbox, 1, Len(inbox)) = inbox
  OBVIOUS
<1>4. SubSeq(inbox, Len(inbox) + 1, Len(inbox)) = <<>>
  OBVIOUS
<1> QED BY <1>2, <1>3, <1>4, Zenon DEF FlushedInOrder, JoinedInOrder

\* open, over a duplex that was bound while the socket connected.
LEMMA OnOpenFacts ==
  ASSUME NEW w, WsGood(w), w.bound
  PROVE  LET v == OnOpen([w EXCEPT !.socket = "open"])
         IN  WsGood(v) /\ WsMoves(w, v) /\ v.bound /\ v.socket = "open"
<1> DEFINE opened == [w EXCEPT !.socket = "open"]
<1>1. w \in Sockets
  BY DEF WsGood
<1>2. /\ opened.socket = "open" /\ opened.wire = w.wire /\ opened.bound = w.bound
      /\ opened.closed = w.closed /\ opened.pending = w.pending
      /\ opened.poll = w.poll /\ opened.waiters = w.waiters
      /\ opened.subscribed = w.subscribed /\ opened.late = w.late
      /\ opened.told = w.told /\ opened.taken = w.taken
      /\ opened.bufferedAmount = w.bufferedAmount
  BY <1>1 DEF Sockets
<1>3. opened \in Sockets
  BY <1>1 DEF Sockets, SocketStates
<1> HIDE DEF opened
<1>4. CASE w.closed
  <2>1. OnOpen(opened) = opened
    BY <1>2, <1>4 DEF OnOpen
  <2>2. WsGood(opened)
    BY <1>2, <1>3, <1>4 DEF WsGood
  <2>3. WsSame(w, opened)
    BY <1>2 DEF WsSame, Opened
  <2> QED BY <1>2, <2>1, <2>2, <2>3 DEF opened, WsMoves
<1>5. CASE ~w.closed
  <2> DEFINE all == w.wire \o w.pending
             load == w.bufferedAmount + Len(w.pending)
             sent == [opened EXCEPT !.wire = all, !.bufferedAmount = load, !.pending = <<>>]
             v == OnOpen(opened)
  <2>1. /\ w.wire \in Seq(Nat) /\ w.pending \in Seq(Nat) /\ w.taken \in Nat
        /\ w.bufferedAmount \in Nat
    BY <1>1 DEF Sockets
  <2>2. Ordered(w.wire, w.pending, w.taken) /\ ~w.late /\ w.told = 0
    BY <1>5 DEF WsGood
  <2>3. /\ all \in Seq(Nat) /\ Ordered(all, <<>>, w.taken)
        /\ \E k \in Len(w.wire) .. w.taken : all = [i \in 1 .. k |-> i]
    <3>1. JoinedInOrder(w.wire, w.pending, w.taken)
      BY <2>1, <2>2, OrderedJoin
    <3> QED BY <3>1 DEF JoinedInOrder
  <2>4. load \in Nat
    BY <2>1
  <2>5. [GiveToSocket(opened, opened.pending) EXCEPT !.pending = <<>>] = sent
    BY <1>2, <1>3 DEF GiveToSocket, Sockets
  <2>6. v = IF AboveMark(sent) THEN [sent EXCEPT !.poll = TRUE] ELSE SettleDrains(sent)
    BY <1>2, <1>5, <2>5 DEF OnOpen
  <2> HIDE DEF all, load
  <2>7. /\ sent.wire = all /\ sent.pending = <<>>
        /\ sent.socket = "open" /\ sent.bound = w.bound /\ sent.closed = w.closed
        /\ sent.poll = w.poll /\ sent.waiters = w.waiters
        /\ sent.subscribed = w.subscribed /\ sent.late = w.late
        /\ sent.told = w.told /\ sent.taken = w.taken
    BY <1>2, <1>3 DEF Sockets
  <2>8. sent \in Sockets
    BY <1>3, <2>3, <2>4, EmptySeq DEF Sockets
  <2> HIDE DEF sent, v
  <2>9. /\ v \in Sockets /\ v.wire = all /\ v.pending = <<>>
        /\ v.socket = "open" /\ v.bound = w.bound /\ v.closed = w.closed
        /\ v.subscribed = w.subscribed /\ v.late = w.late
        /\ v.told = w.told /\ v.taken = w.taken
        /\ \/ v.waiters = w.waiters /\ v.poll
           \/ v.waiters = 0
    <3>1. CASE v = [sent EXCEPT !.poll = TRUE]
      BY <2>7, <2>8, <3>1 DEF Sockets
    <3>2. CASE v = [sent EXCEPT !.poll = FALSE, !.waiters = 0]
      BY <2>7, <2>8, <3>2 DEF Sockets
    <3> QED BY <2>6, <3>1, <3>2 DEF SettleDrains
  <2>10. WsGood(v)
    <3>1. ~(v.waiters > 0) \/ v.poll
      BY <2>9
    <3> QED BY <1>5, <2>2, <2>3, <2>9, <3>1 DEF WsGood
  <2>11. WsMoves(w, v)
    <3>1. ~(w.told > 0) /\ ~(v.told > 0)
      BY <2>2, <2>9
    <3>2. Opened(v) <=> Opened(w)
      BY <2>9 DEF Opened
    <3>3. \E k \in Len(w.wire) .. w.taken : v.wire = [i \in 1 .. k |-> i]
      BY <2>3, <2>9
    <3> QED BY <2>9, <3>1, <3>2, <3>3 DEF WsMoves
  <2> QED BY <2>9, <2>10, <2>11 DEF v, opened
<1> QED BY <1>4, <1>5

\* send() of an open duplex.
LEMMA SendFacts ==
  ASSUME NEW w, WsGood(w), w.bound, ~w.closed
  PROVE  LET v == SendWs(w, w.taken + 1)
         IN  /\ WsGood(v) /\ WsMoves(w, v) /\ v.bound
             /\ v.socket \in {w.socket, "closing"}
             /\ w.socket # "connecting" => v.socket # "connecting"
<1> DEFINE text == w.taken + 1
           v == SendWs(w, text)
<1>1. w \in Sockets
  BY DEF WsGood
<1>2. /\ w.wire \in Seq(Nat) /\ w.pending \in Seq(Nat) /\ w.taken \in Nat
      /\ w.bufferedAmount \in Nat /\ w.waiters \in Nat /\ text \in Nat
      /\ w.socket \in SocketStates
  BY <1>1 DEF Sockets
<1>3. Ordered(w.wire, w.pending, w.taken) /\ ~w.late /\ w.told = 0
  BY DEF WsGood
<1>4. Ordered(w.wire, Append(w.pending, text), text)
  BY <1>2, <1>3, OrderedAppend
<1>5. Append(w.pending, text) \in Seq(Nat)
  BY <1>2
<1>6. ASSUME NEW q, q \in Sockets, Ordered(q.wire, q.pending, text),
             \E k \in Len(w.wire) .. text : q.wire = [i \in 1 .. k |-> i],
             q.taken = text, q.bound = w.bound, q.closed = w.closed, q.late = w.late,
             q.told = w.told, q.subscribed = w.subscribed, q.socket = w.socket,
             q.waiters \in {w.waiters, w.waiters + 1},
             q.pending # <<>> => q.socket # "open",
             q.waiters > 0 /\ q.socket = "open" => q.poll
      PROVE  WsGood(q) /\ WsMoves(w, q)
  <2>1. WsGood(q)
    BY <1>3, <1>6 DEF WsGood
  <2>2. Opened(w) /\ Opened(q) /\ (q.told > 0 <=> w.told > 0)
    BY <1>6 DEF Opened
  <2>3. WsMoves(w, q)
    BY <1>6, <2>2 DEF WsMoves
  <2> QED BY <2>1, <2>3
<1>7. CASE w.socket = "connecting"
  <2> DEFINE more == Append(w.pending, text)
             queued == [w EXCEPT !.pending = more, !.taken = text]
             parks == [queued EXCEPT !.waiters = @ + 1]
  <2>1. v \in {queued, parks}
    BY <1>7 DEF SendWs
  <2> HIDE DEF text
  <2>2. more \in Seq(Nat) /\ Ordered(w.wire, more, text)
    BY <1>4, <1>5
  <2> HIDE DEF more
  <2>3. /\ queued \in Sockets /\ queued.pending = more /\ queued.taken = text
        /\ queued.wire = w.wire /\ queued.bound = w.bound /\ queued.closed = w.closed
        /\ queued.late = w.late /\ queued.told = w.told
        /\ queued.subscribed = w.subscribed /\ queued.socket = w.socket
        /\ queued.waiters = w.waiters
    BY <1>1, <1>2, <2>2 DEF Sockets
  <2> HIDE DEF queued
  <2>4. /\ parks \in Sockets /\ parks.pending = more /\ parks.taken = text
        /\ parks.wire = w.wire /\ parks.bound = w.bound /\ parks.closed = w.closed
        /\ parks.late = w.late /\ parks.told = w.told
        /\ parks.subscribed = w.subscribed /\ parks.socket = w.socket
        /\ parks.waiters = w.waiters + 1
    <3>1. queued.waiters + 1 \in Nat /\ queued.waiters + 1 = w.waiters + 1
      BY <1>2, <2>3
    <3>2. parks \in Sockets
      BY <2>3, <3>1 DEF Sockets
    <3>3. /\ parks.pending = queued.pending /\ parks.taken = queued.taken
          /\ parks.wire = queued.wire /\ parks.bound = queued.bound
          /\ parks.closed = queued.closed /\ parks.late = queued.late
          /\ parks.told = queued.told /\ parks.subscribed = queued.subscribed
          /\ parks.socket = queued.socket /\ parks.waiters = queued.waiters + 1
      BY <2>3 DEF Sockets
    <3> QED BY <2>3, <3>1, <3>2, <3>3
  <2> HIDE DEF parks
  <2>5. \E k \in Len(w.wire) .. text : w.wire = [i \in 1 .. k |-> i]
    <3>1. Len(w.wire) \in Nat /\ Len(more) \in Nat
      BY <1>2, <2>2
    <3>2. Len(w.wire) + Len(more) = text
      BY <2>2 DEF Ordered
    <3>3. \A m, n \in Nat : m \in m .. m + n
      OBVIOUS
    <3>4. Len(w.wire) \in Len(w.wire) .. text
      BY <3>1, <3>2, <3>3
    <3>5. w.wire = [i \in 1 .. Len(w.wire) |-> i]
      <4>1. PICK a \in Seq(Nat) : a = w.wire
        BY <1>2
      <4>2. \A i \in 1 .. Len(a) : a[i] = i
        BY <1>3, <4>1 DEF Ordered
      <4>3. a = [i \in 1 .. Len(a) |-> i]
        BY <4>2
      <4> QED BY <4>1, <4>3
    <3> QED BY <3>4, <3>5
  <2>6. WsGood(queued) /\ WsMoves(w, queued) /\ WsGood(parks) /\ WsMoves(w, parks)
    BY <1>6, <1>7, <2>2, <2>3, <2>4, <2>5
  <2> HIDE DEF v
  <2>7. WsGood(v) /\ WsMoves(w, v) /\ v.bound /\ v.socket = w.socket
    BY <2>1, <2>3, <2>4, <2>6
  <2> QED BY <2>7 DEF v, text
<1>8. CASE w.socket = "open"
  <2> DEFINE all == w.wire \o <<text>>
             load == w.bufferedAmount + Len(<<text>>)
             sent == [w EXCEPT !.taken = text, !.wire = all, !.bufferedAmount = load]
             parks == [sent EXCEPT !.poll = TRUE, !.waiters = @ + 1]
  <2>1. v \in {sent, parks}
    BY <1>1, <1>8 DEF SendWs, GiveToSocket, Sockets
  <2>2. w.pending = <<>>
    BY <1>8 DEF WsGood
  <2>3. <<text>> \in Seq(Nat) /\ Ordered(w.wire, <<text>>, text)
    BY <1>2, <1>4, <2>2
  <2>4. /\ all \in Seq(Nat) /\ Ordered(all, <<>>, text)
        /\ \E k \in Len(w.wire) .. text : all = [i \in 1 .. k |-> i]
    <3>1. PICK u \in Seq(Nat) : u = <<text>>
      BY <2>3
    <3>2. JoinedInOrder(w.wire, u, text)
      BY <1>2, <2>3, <3>1, OrderedJoin
    <3> QED BY <3>1, <3>2 DEF JoinedInOrder
  <2>5. load \in Nat
    BY <1>2
  <2> HIDE DEF text, all, load
  <2>6. /\ sent \in Sockets /\ sent.wire = all /\ sent.taken = text
        /\ sent.pending = w.pending /\ sent.bound = w.bound /\ sent.closed = w.closed
        /\ sent.late = w.late /\ sent.told = w.told
        /\ sent.subscribed = w.subscribed /\ sent.socket = w.socket
        /\ sent.waiters = w.waiters /\ sent.poll = w.poll
    BY <1>1, <1>2, <2>4, <2>5 DEF Sockets
  <2> HIDE DEF sent
  <2>7. /\ parks.poll = TRUE /\ parks.waiters = w.waiters + 1
        /\ parks.pending = sent.pending /\ parks.taken = sent.taken
        /\ parks.wire = sent.wire /\ parks.bound = sent.bound
        /\ parks.closed = sent.closed /\ parks.late = sent.late
        /\ parks.told = sent.told /\ parks.subscribed = sent.subscribed
        /\ parks.socket = sent.socket
    BY <2>6 DEF Sockets
  <2>8. parks \in Sockets
    <3>1. sent.waiters + 1 \in Nat
      BY <1>2, <2>6
    <3> QED BY <2>6, <3>1 DEF Sockets
  <2> HIDE DEF parks
  <2>9. w.waiters > 0 => w.poll
    BY <1>8 DEF WsGood
  <2>10. WsGood(sent) /\ WsMoves(w, sent)
    BY <1>6, <2>2, <2>4, <2>6, <2>9
  <2>11. WsGood(parks) /\ WsMoves(w, parks)
    BY <1>6, <2>2, <2>4, <2>6, <2>7, <2>8
  <2> HIDE DEF v
  <2>12. WsGood(v) /\ WsMoves(w, v) /\ v.bound /\ v.socket = w.socket
    BY <2>1, <2>6, <2>7, <2>10, <2>11
  <2> QED BY <2>12 DEF v, text
<1>9. CASE w.socket \in {"closing", "closed"}
  <2>1. v = CloseWs(w)
    BY <1>9 DEF SendWs
  <2> HIDE DEF v
  <2> QED BY <1>9, <2>1, CloseWsFacts DEF v, text
<1> QED BY <1>2, <1>7, <1>8, <1>9 DEF SocketStates

LEMMA SameThenMoves ==
  ASSUME NEW w, NEW u, NEW v, WsSame(w, u), WsMoves(u, v) PROVE WsMoves(w, v)
  BY DEF WsSame, WsMoves

LEMMA MovesThenSame ==
  ASSUME NEW w, NEW u, NEW v, WsMoves(w, u), WsSame(u, v) PROVE WsMoves(w, v)
  BY DEF WsSame, WsMoves

\* The link while its socket comes and goes.
LEMMA LinkKeeps ==
  ASSUME NEW w, NEW v, NEW l, LinkGood(w, l), v.bound = w.bound,
         \/ v.socket = w.socket
         \/ v.socket # "connecting" /\ ~l.hooked
  PROVE  LinkGood(v, l)
  BY DEF LinkGood

LEMMA FailConnectFacts ==
  ASSUME NEW l, l \in Links
  PROVE  LET m == FailConnect(Unhook(l))
         IN  /\ m \in Links /\ ~m.hooked /\ m.connected # "pending"
             /\ m.owner = l.owner /\ m.closed = l.closed
<1> DEFINE c == IF l.connected = "pending" THEN "rejected" ELSE l.connected
           m == [l EXCEPT !.hooked = FALSE, !.connected = c]
<1>1. FailConnect(Unhook(l)) = m
  BY DEF FailConnect, Unhook, Links
<1>2. c \in {"pending", "resolved", "rejected"} /\ c # "pending"
  BY DEF Links
<1> HIDE DEF c
<1> QED BY <1>1, <1>2 DEF Links

LEMMA LinkUnhooks ==
  ASSUME NEW w, NEW v, NEW l, LinkGood(w, l), v.bound = w.bound, v.socket # "connecting"
  PROVE  LinkGood(v, IF l.hooked THEN FailConnect(Unhook(l)) ELSE l)
<1>1. CASE l.hooked
  <2> DEFINE m == FailConnect(Unhook(l))
  <2>1. /\ m \in Links /\ ~m.hooked /\ m.connected # "pending"
        /\ m.owner = l.owner /\ m.closed = l.closed
    BY FailConnectFacts DEF LinkGood
  <2> HIDE DEF m
  <2>2. LinkGood(v, m)
    BY <2>1 DEF LinkGood
  <2> QED BY <1>1, <2>2 DEF m
<1>2. CASE ~l.hooked
  BY <1>2, LinkKeeps
<1> QED BY <1>1, <1>2

WsStepGood == WsGood(ws') /\ LinkGood(ws', link') /\ WsMoves(ws, ws')

LEMMA SocketOpensGood == ASSUME WsInv, SocketOpens PROVE WsStepGood
<1> DEFINE opened == [ws EXCEPT !.socket = "open"]
<1>1. WsGood(ws) /\ LinkGood(ws, link) /\ ws.socket = "connecting" /\ ws \in Sockets
  BY DEF WsInv, WsGood, SocketOpens
<1>2. CASE link.owner = "link"
  <2>1. ~ws.bound /\ ~ws.closed
    BY <1>1, <1>2 DEF LinkGood, WsGood
  <2>2. /\ opened.socket = "open" /\ opened.wire = ws.wire /\ opened.bound = ws.bound
        /\ opened.closed = ws.closed /\ opened.pending = ws.pending
        /\ opened.poll = ws.poll /\ opened.waiters = ws.waiters
        /\ opened.subscribed = ws.subscribed /\ opened.late = ws.late
        /\ opened.told = ws.told /\ opened.taken = ws.taken
    BY <1>1 DEF Sockets
  <2>3. opened \in Sockets
    BY <1>1 DEF Sockets, SocketStates
  <2>4. /\ link' = IF link.hooked THEN StartLink(Unhook(link)) ELSE link
        /\ ws' = IF link.hooked THEN BindDuplex(opened) ELSE opened
    BY <1>2 DEF SocketOpens
  <2> HIDE DEF opened
  <2>5. WsGood(opened)
    BY <1>1, <2>1, <2>2, <2>3 DEF WsGood
  <2>6. WsSame(ws, opened)
    BY <2>2 DEF WsSame, Opened
  <2>7. CASE link.hooked
    <3> DEFINE c == IF link.connected = "pending" THEN "resolved" ELSE link.connected
               m == [link EXCEPT !.hooked = FALSE, !.connected = c]
    <3>1. ~link.closed /\ link \in Links
      BY <1>1, <2>7 DEF LinkGood
    <3>2. link' = m
      BY <2>4, <2>7, <3>1 DEF StartLink, Unhook, Links
    <3>3. c \in {"pending", "resolved", "rejected"} /\ c # "pending"
      BY <3>1 DEF Links
    <3> HIDE DEF c
    <3>4. /\ link' \in Links /\ ~link'.hooked /\ link'.connected # "pending"
          /\ link'.owner = link.owner
      BY <3>1, <3>2, <3>3 DEF Links
    <3>5. ws' = BindDuplex(opened)
      BY <2>4, <2>7
    <3>6. WsGood(ws') /\ WsSame(opened, ws') /\ ws'.socket = "open" /\ ws'.bound
      BY <2>1, <2>2, <2>5, <3>5, BindFacts
    <3>7. LinkGood(ws', link')
      BY <1>2, <3>4, <3>6 DEF LinkGood
    <3>8. WsMoves(ws, ws')
      BY <2>6, <3>6, SameThenMoves DEF WsMoves
    <3> QED BY <3>6, <3>7, <3>8 DEF WsStepGood
  <2>8. CASE ~link.hooked
    <3>1. ws' = opened /\ link' = link
      BY <2>4, <2>8
    <3>2. LinkGood(ws', link')
      BY <1>1, <2>2, <2>8, <3>1, LinkKeeps
    <3> QED BY <2>5, <2>6, <3>1, <3>2 DEF WsStepGood, WsMoves
  <2> QED BY <2>7, <2>8
<1>3. CASE link.owner # "link"
  <2>1. link.owner = "handler" /\ ws.bound /\ ~link.hooked
    BY <1>1, <1>3 DEF LinkGood, Links
  <2>2. ws' = OnOpen(opened) /\ link' = link
    BY <1>3 DEF SocketOpens
  <2>3. WsGood(ws') /\ WsMoves(ws, ws') /\ ws'.bound /\ ws'.socket = "open"
    BY <1>1, <2>1, <2>2, OnOpenFacts
  <2>4. LinkGood(ws', link')
    BY <1>1, <2>1, <2>2, <2>3 DEF LinkGood
  <2> QED BY <2>3, <2>4 DEF WsStepGood
<1> QED BY <1>2, <1>3

LEMMA SocketGoesGood ==
  ASSUME WsInv, SocketErrors \/ PeerCloses \/ SocketCloses PROVE WsStepGood
<1>1. WsGood(ws) /\ LinkGood(ws, link)
  BY DEF WsInv
<1>2. /\ WsGood(CloseSocket(ws)) /\ WsSame(ws, CloseSocket(ws))
      /\ CloseSocket(ws).socket \in {"closing", "closed"}
      /\ CloseSocket(ws).bound = ws.bound
  BY <1>1, CloseSocketFacts
<1>3. CASE SocketErrors
  <2>1. ws' = CloseSocket(ws) /\ link' = IF link.hooked THEN FailConnect(Unhook(link)) ELSE link
    BY <1>3 DEF SocketErrors
  <2>2. LinkGood(ws', link')
    BY <1>1, <1>2, <2>1, LinkUnhooks
  <2> QED BY <1>2, <2>1, <2>2 DEF WsStepGood, WsMoves
<1>4. CASE PeerCloses
  <2>1. ws' = CloseSocket(ws) /\ link' = link /\ ~link.hooked
    BY <1>1, <1>4 DEF PeerCloses, LinkGood
  <2>2. LinkGood(ws', link')
    BY <1>1, <1>2, <2>1, LinkKeeps
  <2> QED BY <1>2, <2>1, <2>2 DEF WsStepGood, WsMoves
<1>5. CASE SocketCloses
  <2> DEFINE gone == [ws EXCEPT !.socket = "closed"]
  <2>1. /\ ws' = IF ws.bound THEN CloseWs(gone) ELSE gone
        /\ link' = IF link.hooked THEN FailConnect(Unhook(link)) ELSE link
    BY <1>5 DEF SocketCloses
  <2>2. "closed" \in SocketStates \ {"open"}
    BY DEF SocketStates
  <2>3. /\ WsGood(gone) /\ WsSame(ws, gone)
        /\ gone.socket = "closed" /\ gone.bound = ws.bound
    BY <1>1, <2>2, SocketGoes
  <2> HIDE DEF gone
  <2>4. CASE ws.bound
    <3>1. /\ WsGood(ws') /\ WsMoves(gone, ws') /\ ws'.bound
          /\ ws'.socket \in {gone.socket, "closing"}
      BY <2>1, <2>3, <2>4, CloseWsFacts
    <3>2. WsMoves(ws, ws')
      BY <2>3, <3>1, SameThenMoves
    <3>3. ws'.bound = ws.bound
      BY <1>1, <2>4, <3>1 DEF WsGood, Sockets
    <3>4. LinkGood(ws', link')
      BY <1>1, <2>1, <2>3, <3>1, <3>3, LinkUnhooks
    <3> QED BY <3>1, <3>2, <3>4 DEF WsStepGood
  <2>5. CASE ~ws.bound
    <3>1. ws' = gone
      BY <2>1, <2>5
    <3>2. LinkGood(ws', link')
      BY <1>1, <2>1, <2>3, <3>1, LinkUnhooks
    <3> QED BY <2>3, <3>1, <3>2 DEF WsStepGood, WsMoves
  <2> QED BY <2>4, <2>5
<1> QED BY <1>3, <1>4, <1>5

\* The owner of the link or the handler closes it.
LEMMA OwnerGood ==
  ASSUME WsInv, HandlerCloses \/ LinkCloses \/ WsOwnerCloses \/ WsSend PROVE WsStepGood
<1>1. WsGood(ws) /\ LinkGood(ws, link) /\ link \in Links /\ ws \in Sockets
  BY DEF WsInv, LinkGood, WsGood
<1>2. CASE WsOwnerCloses \/ WsSend
  <2>1. ws.bound /\ ~ws.closed /\ link' = link /\ ~link.hooked
    BY <1>1, <1>2 DEF WsOwnerCloses, WsSend, LinkGood
  <2>2. /\ WsGood(ws') /\ WsMoves(ws, ws') /\ ws'.bound
        /\ ws'.socket \in {ws.socket, "closing"}
    BY <1>1, <1>2, <2>1, CloseWsFacts, SendFacts DEF WsOwnerCloses, WsSend
  <2>3. ws'.bound = ws.bound
    BY <1>1, <2>1, <2>2 DEF WsGood, Sockets
  <2>4. LinkGood(ws', link')
    BY <1>1, <2>1, <2>2, <2>3, LinkKeeps
  <2> QED BY <2>2, <2>4 DEF WsStepGood
<1>3. CASE HandlerCloses
  <2>1. /\ ws.bound /\ ~link.hooked /\ link' = [link EXCEPT !.closed = TRUE]
        /\ ws' = CloseSocket(CloseWs(ws)) /\ link.connected # "pending"
    BY <1>1, <1>3 DEF HandlerCloses, LinkGood
  <2>2. WsGood(CloseWs(ws)) /\ WsMoves(ws, CloseWs(ws)) /\ CloseWs(ws).bound
    BY <1>1, <2>1, CloseWsFacts
  <2>3. /\ WsGood(ws') /\ WsSame(CloseWs(ws), ws')
        /\ ws'.socket \in {"closing", "closed"} /\ ws'.bound
    BY <2>1, <2>2, CloseSocketFacts
  <2>4. WsMoves(ws, ws')
    BY <2>2, <2>3, MovesThenSame
  <2>5. /\ link' \in Links /\ link'.owner = link.owner /\ link'.hooked = link.hooked
        /\ link'.connected = link.connected
    BY <1>1, <2>1 DEF Links
  <2>6. LinkGood(ws', link')
    BY <1>1, <2>1, <2>3, <2>5 DEF LinkGood
  <2> QED BY <2>3, <2>4, <2>6 DEF WsStepGood
<1>4. CASE LinkCloses
  <2> DEFINE shut == IF ws.bound THEN CloseWs(ws) ELSE ws
             l == [link EXCEPT !.closed = TRUE]
  <2>1. ws' = CloseSocket(shut) /\ link' = FailConnect(Unhook(l)) /\ link.owner = "link"
    BY <1>4 DEF LinkCloses
  <2>2. WsGood(shut) /\ WsMoves(ws, shut) /\ shut.bound = ws.bound
    <3>1. CASE ws.bound
      <4>1. WsGood(CloseWs(ws)) /\ WsMoves(ws, CloseWs(ws)) /\ CloseWs(ws).bound
        BY <1>1, <3>1, CloseWsFacts
      <4> QED BY <1>1, <3>1, <4>1 DEF WsGood, Sockets
    <3>2. CASE ~ws.bound
      BY <1>1, <3>2 DEF WsMoves, WsSame
    <3> QED BY <3>1, <3>2
  <2> HIDE DEF shut
  <2>3. /\ WsGood(ws') /\ WsSame(shut, ws')
        /\ ws'.socket \in {"closing", "closed"} /\ ws'.bound = ws.bound
    BY <2>1, <2>2, CloseSocketFacts
  <2>4. WsMoves(ws, ws')
    BY <2>2, <2>3, MovesThenSame
  <2>5. l \in Links /\ l.owner = link.owner
    BY <1>1 DEF Links
  <2> HIDE DEF l
  <2>6. link' \in Links /\ ~link'.hooked /\ link'.connected # "pending" /\ link'.owner = "link"
    BY <2>1, <2>5, FailConnectFacts
  <2>7. LinkGood(ws', link')
    BY <2>3, <2>6 DEF LinkGood
  <2> QED BY <2>3, <2>4, <2>7 DEF WsStepGood
<1> QED BY <1>2, <1>3, <1>4

\* The socket takes bytes, the poll looks, a late listener is told.
LEMMA TimersGood ==
  ASSUME WsInv, NetworkTakes \/ PollFires \/ LateNotify PROVE WsStepGood
<1>1. WsGood(ws) /\ LinkGood(ws, link) /\ ws \in Sockets
  BY DEF WsInv, WsGood
<1>2. ASSUME ws' \in Sockets, WsGood(ws'), WsMoves(ws, ws'), ws'.bound = ws.bound,
             ws'.socket = ws.socket, link' = link
      PROVE  WsStepGood
  BY <1>1, <1>2, LinkKeeps DEF WsStepGood
<1>3. CASE NetworkTakes
  <2>1. /\ ws' = [ws EXCEPT !.bufferedAmount = @ - 1] /\ ws.bufferedAmount > 0
        /\ link' = link
    BY <1>3 DEF NetworkTakes
  <2>2. ws.bufferedAmount - 1 \in Nat
    BY <1>1, <2>1 DEF Sockets
  <2>3. /\ ws' \in Sockets /\ ws'.socket = ws.socket
        /\ ws'.wire = ws.wire /\ ws'.bound = ws.bound
        /\ ws'.closed = ws.closed /\ ws'.pending = ws.pending
        /\ ws'.poll = ws.poll /\ ws'.waiters = ws.waiters
        /\ ws'.subscribed = ws.subscribed /\ ws'.late = ws.late
        /\ ws'.told = ws.told /\ ws'.taken = ws.taken
    BY <1>1, <2>1, <2>2 DEF Sockets
  <2>4. WsGood(ws')
    BY <1>1, <2>3 DEF WsGood
  <2>5. WsMoves(ws, ws')
    BY <2>3 DEF WsMoves, WsSame, Opened
  <2> QED BY <1>2, <2>1, <2>3, <2>4, <2>5
<1>4. CASE PollFires
  <2>1. link' = link /\ ws.poll /\ ~ws.closed
    BY <1>1, <1>4 DEF PollFires, WsGood
  <2>2. CASE ws' = ws
    BY <1>1, <1>2, <2>1, <2>2 DEF WsMoves, WsSame
  <2>3. CASE ws' = [ws EXCEPT !.poll = FALSE, !.waiters = 0]
    <3>1. /\ ws' \in Sockets /\ ws'.socket = ws.socket
          /\ ws'.wire = ws.wire /\ ws'.bound = ws.bound
          /\ ws'.closed = ws.closed /\ ws'.pending = ws.pending
          /\ ws'.poll = FALSE /\ ws'.waiters = 0
          /\ ws'.subscribed = ws.subscribed /\ ws'.late = ws.late
          /\ ws'.told = ws.told /\ ws'.taken = ws.taken
      BY <1>1, <2>3 DEF Sockets
    <3>2. WsGood(ws')
      BY <1>1, <3>1 DEF WsGood
    <3>3. ws.told = 0 /\ Ordered(ws.wire, ws.pending, ws.taken)
      BY <1>1, <2>1 DEF WsGood
    <3>4. \E k \in Len(ws.wire) .. ws.taken : ws.wire = [i \in 1 .. k |-> i]
      <4>1. Len(ws.wire) \in Nat /\ Len(ws.pending) \in Nat
        BY <1>1 DEF Sockets
      <4>2. Len(ws.wire) + Len(ws.pending) = ws.taken
        BY <3>3 DEF Ordered
      <4>3. \A m, n \in Nat : m \in m .. m + n
        OBVIOUS
      <4>4. Len(ws.wire) \in Len(ws.wire) .. ws.taken
        BY <4>1, <4>2, <4>3
      <4>5. PICK a \in Seq(Nat) : a = ws.wire
        BY <1>1 DEF Sockets
      <4>6. \A i \in 1 .. Len(a) : a[i] = i
        BY <3>3, <4>5 DEF Ordered
      <4>7. a = [i \in 1 .. Len(a) |-> i]
        BY <4>6
      <4> QED BY <4>4, <4>5, <4>7
    <3>5. WsMoves(ws, ws')
      <4>1. ~(ws.told > 0) /\ ~(ws'.told > 0) /\ (Opened(ws') <=> Opened(ws))
        BY <3>1, <3>3 DEF Opened
      <4>2. \E k \in Len(ws.wire) .. ws.taken : ws'.wire = [i \in 1 .. k |-> i]
        BY <3>1, <3>4
      <4> QED BY <3>1, <4>1, <4>2 DEF WsMoves
    <3> QED BY <1>2, <2>1, <3>1, <3>2, <3>5
  <2> QED BY <1>4, <2>2, <2>3 DEF PollFires, SettleDrains
<1>5. CASE LateNotify
  <2>1. ws' = [ws EXCEPT !.late = FALSE, !.told = @ + 1] /\ link' = link /\ ws.late
    BY <1>5 DEF LateNotify
  <2>2. ws.closed /\ ws.bound /\ ws.waiters = 0
    BY <1>1, <2>1 DEF WsGood
  <2>3. ws.told + 1 \in Nat /\ ws.told + 1 > 0
    BY <1>1 DEF Sockets
  <2>4. /\ ws' \in Sockets /\ ws'.socket = ws.socket
        /\ ws'.wire = ws.wire /\ ws'.bound = ws.bound
        /\ ws'.closed = ws.closed /\ ws'.pending = ws.pending
        /\ ws'.poll = ws.poll /\ ws'.waiters = ws.waiters
        /\ ws'.subscribed = ws.subscribed /\ ws'.taken = ws.taken
        /\ ws'.told = ws.told + 1
    BY <1>1, <2>1, <2>3 DEF Sockets
  <2>5. WsGood(ws')
    BY <1>1, <2>2, <2>4 DEF WsGood
  <2>6. WsMoves(ws, ws')
    BY <2>2, <2>3, <2>4 DEF WsMoves, WsSame, Opened
  <2> QED BY <1>2, <2>1, <2>4, <2>5, <2>6
<1> QED BY <1>3, <1>4, <1>5

\* callInner: the calls touch neither the socket nor the connect.
LEMMA CallsGood ==
  ASSUME WsInv, NEW c \in Callers, LinkCall(c) \/ CallResumes(c) \/ CallAborts(c)
  PROVE  WsStepGood
<1>1. WsGood(ws) /\ LinkGood(ws, link) /\ link \in Links
  BY DEF WsInv, LinkGood
<1>2. ws' = ws
  BY DEF LinkCall, CallResumes, CallAborts, wsVars
<1>3. \E s \in {"waiting", "linked", "failed", "aborted"} : link' = [link EXCEPT !.call[c] = s]
  BY DEF LinkCall, CallResumes, CallAborts
<1>4. /\ link' \in Links /\ link'.owner = link.owner /\ link'.hooked = link.hooked
      /\ link'.connected = link.connected /\ link'.closed = link.closed
  BY <1>1, <1>3 DEF Links
<1>5. LinkGood(ws', link')
  BY <1>1, <1>2, <1>4 DEF LinkGood
<1> QED BY <1>1, <1>2, <1>5 DEF WsStepGood, WsMoves, WsSame

LEMMA WsStep == ASSUME WsInv, WsNext PROVE WsStepGood
  BY SocketOpensGood, SocketGoesGood, OwnerGood, TimersGood, CallsGood DEF WsNext

LEMMA WsStutters == ASSUME WsInv, UNCHANGED wsVars PROVE WsStepGood
  BY DEF WsInv, wsVars, WsStepGood, WsMoves, WsSame

LEMMA WsStarts == WsInit => WsInv /\ WsPipe!PipeInit
<1> SUFFICES ASSUME NEW s \in SocketStates, NEW owner \in {"handler", "link"},
                    ws = WsBound(s, owner), link = LinkBooted(s, owner)
             PROVE  WsInv /\ WsPipe!PipeInit
  BY DEF WsInit
<1> DEFINE binds == owner = "handler" \/ s = "open"
           gone == s \in {"closing", "closed"}
           calls == [c \in Callers |-> "new"]
<1>1. /\ ws.socket = s /\ ws.bufferedAmount = 0 /\ ws.wire = <<>> /\ ws.pending = <<>>
      /\ ws.poll = FALSE /\ ws.waiters = 0 /\ ws.told = 0 /\ ws.taken = 0
      /\ (ws.bound <=> binds) /\ (ws.subscribed <=> binds)
      /\ (ws.closed <=> binds /\ gone) /\ (ws.late <=> binds /\ gone)
      /\ ws \in Sockets
  <2> DEFINE fresh == [socket |-> s, bufferedAmount |-> 0, wire |-> <<>>,
                       bound |-> FALSE, closed |-> FALSE, pending |-> <<>>,
                       poll |-> FALSE, waiters |-> 0, subscribed |-> FALSE,
                       late |-> FALSE, told |-> 0, taken |-> 0]
  <2>1. fresh \in Sockets
    BY EmptySeq DEF Sockets
  <2>2. CASE binds
    <3>1. ws = BindDuplex(fresh)
      BY <2>2 DEF WsBound
    <3>2. ws = [fresh EXCEPT !.bound = TRUE, !.closed = gone, !.subscribed = TRUE,
                             !.late = gone]
      BY <3>1 DEF BindDuplex
    <3>3. gone \in BOOLEAN
      OBVIOUS
    <3> HIDE DEF gone, binds
    <3>4. /\ ws.bound = TRUE /\ ws.subscribed = TRUE /\ ws.closed = gone /\ ws.late = gone
          /\ ws.socket = s /\ ws.bufferedAmount = 0 /\ ws.wire = <<>> /\ ws.pending = <<>>
          /\ ws.poll = FALSE /\ ws.waiters = 0 /\ ws.told = 0 /\ ws.taken = 0
      BY <3>2
    <3>5. ws \in Sockets
      <4> HIDE DEF fresh
      <4> QED BY <2>1, <3>2, <3>3 DEF Sockets
    <3> QED BY <2>2, <3>3, <3>4, <3>5
  <2>3. CASE ~binds
    <3>1. ws = fresh
      BY <2>3 DEF WsBound
    <3> HIDE DEF binds, gone
    <3>2. /\ ws.bound = FALSE /\ ws.subscribed = FALSE /\ ws.closed = FALSE
          /\ ws.late = FALSE
          /\ ws.socket = s /\ ws.bufferedAmount = 0 /\ ws.wire = <<>> /\ ws.pending = <<>>
          /\ ws.poll = FALSE /\ ws.waiters = 0 /\ ws.told = 0 /\ ws.taken = 0
      BY <3>1
    <3> QED BY <2>1, <2>3, <3>1, <3>2
  <2> QED BY <2>2, <2>3
<1>2. Ordered(<<>>, <<>>, 0) /\ Len(<<>>) = 0
  BY EmptySeq DEF Ordered
<1> HIDE DEF binds, gone
<1>3. WsGood(ws)
  <2>1. Ordered(ws.wire, ws.pending, ws.taken) /\ Len(ws.wire) <= ws.taken
    BY <1>1, <1>2
  <2>2. \A i \in 1 .. Len(ws.wire) : ws.wire[i] = i
    BY <1>1, <1>2
  <2> QED BY <1>1, <2>1, <2>2 DEF WsGood
<1>4. LinkGood(ws, link)
  <2>1. calls \in [Callers -> {"new", "waiting", "linked", "failed", "aborted"}]
    OBVIOUS
  <2>2. /\ link.owner = owner /\ link.closed = FALSE /\ link.call = calls
        /\ link.hooked = (owner = "link" /\ s = "connecting")
        /\ link.connected = CASE owner = "handler" \/ s = "open" -> "resolved"
                              [] owner = "link" /\ s = "connecting" -> "pending"
                              [] owner = "link" /\ s \in {"closing", "closed"} -> "rejected"
    BY DEF LinkBooted
  <2>3. /\ link.connected \in {"pending", "resolved", "rejected"}
        /\ link.connected = "pending" => owner = "link" /\ s = "connecting"
    BY <2>2 DEF SocketStates
  <2>4. link \in Links
    BY <2>1, <2>2, <2>3 DEF LinkBooted, Links
  <2>5. s = "connecting" => (ws.bound <=> owner = "handler")
    BY <1>1 DEF binds
  <2> QED BY <1>1, <2>2, <2>3, <2>4, <2>5 DEF LinkGood, binds
<1>5. WsPipe!PipeInit
  BY <1>1 DEF WsPipe!PipeInit
<1> QED BY <1>3, <1>4, <1>5 DEF WsInv

\* What WsMoves says of two states of the duplex is a step of the pipe.
LEMMA WsIsStep == ASSUME WsMoves(ws, ws') PROVE WsPipe!PipeNext \/ UNCHANGED WsPipe!pipe
<1>1. CASE WsSame(ws, ws')
  <2>1. (ws.bound => ~ws.closed) <=> (ws'.bound => ~ws'.closed)
    BY <1>1 DEF WsSame, Opened
  <2> QED BY <1>1, <2>1 DEF WsSame, WsPipe!pipe
<1>2. CASE /\ Opened(ws) /\ ws'.taken = ws.taken + 1
           /\ \E k \in Len(ws.wire) .. ws.taken + 1 : ws'.wire = [i \in 1 .. k |-> i]
           /\ ws'.waiters \in {ws.waiters, ws.waiters + 1}
           /\ Opened(ws') /\ (ws'.told > 0 <=> ws.told > 0)
  <2>1. WsPipe!Passes
    BY <1>2 DEF WsPipe!Passes, WsPipe!First
  <2> QED BY <1>2, <2>1 DEF Opened, WsPipe!Send, WsPipe!PipeNext
<1>3. CASE /\ ~(ws.told > 0)
           /\ \E k \in Len(ws.wire) .. ws.taken : ws'.wire = [i \in 1 .. k |-> i]
           /\ ws'.waiters \in {ws.waiters, 0} /\ ws'.taken = ws.taken
           /\ (Opened(ws') <=> Opened(ws)) /\ ~(ws'.told > 0)
  <2>1. WsPipe!Passes
    BY <1>3 DEF WsPipe!Passes, WsPipe!First
  <2>2. (ws.bound => ~ws.closed) <=> (ws'.bound => ~ws'.closed)
    BY <1>3 DEF Opened
  <2> QED BY <1>3, <2>1, <2>2 DEF WsPipe!Deliver, WsPipe!PipeNext
<1>4. CASE \/ /\ Opened(ws) /\ ~Opened(ws') /\ ws'.told > 0 /\ ws'.waiters = 0
              /\ ws'.taken = ws.taken /\ ws'.wire = ws.wire
           \/ /\ ~Opened(ws) /\ ~Opened(ws') /\ ~(ws.told > 0) /\ ws'.told > 0
              /\ ws'.waiters = 0 /\ ws'.taken = ws.taken /\ ws'.wire = ws.wire
  BY <1>4 DEF Opened, WsPipe!Close, WsPipe!Tell, WsPipe!PipeNext
<1> QED BY <1>1, <1>2, <1>3, <1>4 DEF WsMoves

\* ws.ts: the duplex over a socket in any state is a pipe; a sender is parked
\* only on an open duplex that the socket or the poll will look at again, and a
\* call waits for the connect only while the socket is still to settle it.
THEOREM WsIsPipe ==
  WsSpec => WsPipe!PipeSafety /\ [](WsParkedIsWoken /\ ConnectSettles)
<1>1. WsInv /\ [WsNext]_wsVars => WsInv' /\ (WsPipe!PipeNext \/ UNCHANGED WsPipe!pipe)
  BY WsStep, WsStutters, WsIsStep DEF WsStepGood, WsInv
<1>2. WsInv => WsParkedIsWoken /\ ConnectSettles
  BY DEF WsInv, WsGood, LinkGood, WsParkedIsWoken, ConnectSettles, Sockets
<1> QED BY WsStarts, <1>1, <1>2, PTL DEF WsSpec, WsPipe!PipeSafety

-----------------------------------------------------------------------------
\* In the composition each adapter takes the steps of its own specification.
LEMMA AdaptersRun == Spec => MemorySpec /\ WsSpec /\ StdioSpec /\ PortSpec
<1>1. Init => MemoryInit /\ WsInit /\ StdioInit /\ PortInit
  <2> SUFFICES ASSUME Init PROVE WsInit
    BY DEF Init
  <2>1. CASE part = "ws"
    BY <2>1 DEF Init
  <2>2. CASE part # "ws"
    <3>1. ws = WsBound("open", "handler") /\ link = LinkBooted("open", "handler")
      BY <2>2 DEF Init
    <3>2. "open" \in SocketStates
      BY DEF SocketStates
    <3> QED BY <3>1, <3>2 DEF WsInit
  <2> QED BY <2>1, <2>2
<1>2. [Next]_vars => /\ [MemoryNext]_memory /\ [WsNext]_wsVars
                     /\ [StdioNext]_stdio /\ [PortNext]_port
  BY DEF Next, vars, duplexVars, wsVars, Queue, Waiter, Session, Duplex, Memory, Ws
<1> QED BY <1>1, <1>2, PTL DEF Spec, MemorySpec, WsSpec, StdioSpec, PortSpec

\* The five directions of the adapters are pipes: texts leave in the order
\* send() took them, none after the owner was told of the close, and no drain
\* promise outlives that.
THEOREM PipesTheorem ==
  Spec => /\ ToA!PipeSafety /\ ToB!PipeSafety /\ WsPipe!PipeSafety
          /\ StdioPipe!PipeSafety /\ PortPipe!PipeSafety
BY AdaptersRun, MemoryIsPipe, WsIsPipe, StdioIsPipe, PortIsPipe, PTL

\* message: a drain promise, and a call that waits for the connect, are pending
\* only while an event that settles them is to come.
THEOREM ParkedTheorem == Spec => []ParkedIsWoken
<1>1. MemoryParkedIsWoken /\ WsParkedIsWoken /\ ConnectSettles /\ StdioInv => ParkedIsWoken
  BY DEF ParkedIsWoken, StdioInv
<1> QED BY <1>1, AdaptersRun, MemoryIsPipe, WsIsPipe, StdioIsPipe, PTL
=============================================================================
