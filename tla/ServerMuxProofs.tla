--------------------------- MODULE ServerMuxProofs ---------------------------
(***************************************************************************)
(* Proofs about ServerMux, for every set of ids, every finite set of call  *)
(* objects, every mark and every behaviour of the duplex and of onError.   *)
(*                                                                         *)
(* The invariant Core ties the three places a call's life is recorded: the *)
(* object (phase, cancelled), the inflight map, and the frames on the wire.*)
(* A call that may still send owns its id (SenderOwnsId), and an entry of  *)
(* the map has sent items only (InflightOwned), so the terminal frame a    *)
(* step adds is the first one.  Every kind of step is shown once, to keep  *)
(* Core and to be a step of CallService or silent (Faithful); the theorems *)
(* at the end are consequences.                                            *)
(***************************************************************************)
EXTENDS ServerMux, PushQueueLemmas

Iterators == {"none", "open", "finished", "returned"}
Drains == {"none", "pending", "drained", "timeout", "cancelled"}
Queues == [entries : Seq(InputEntry), buffered : Int, paused : BOOLEAN,
           pending : BOOLEAN, closed : Closings]

ItemsOnly(s) == \A i \in 1 .. Len(s) : s[i] = "item"

InflightOwned ==
  \A id \in Ids : inflight[id] # NoCall =>
    /\ callId[inflight[id]] = id
    /\ ~cancelled[inflight[id]]
    /\ phase[inflight[id]] \in Active \cup {"rejected"}
    /\ ItemsOnly(frames[inflight[id]])

UnusedIsFresh ==
  \A c \in Calls : phase[c] = "unused" => frames[c] = <<>> /\ ~cancelled[c]

\* A call answers nothing before its procedure settles.
RunningIsSilent == \A c \in Calls : phase[c] = "running" => frames[c] = <<>>

ClosedIsEmpty == ~open => \A id \in Ids : inflight[id] = NoCall

\* The wait of a call that was not cancelled ends by the duplex or the timer.
DrainIsOwn ==
  \A c \in Calls : phase[c] = "draining" /\ ~cancelled[c]
                     => drain[c] \in {"pending", "drained", "timeout"}

Core ==
  /\ TypeOK
  /\ DrainIsOwn
  /\ SenderOwnsId
  /\ InflightOwned
  /\ UnusedIsFresh
  /\ RunningIsSilent
  /\ ClosedIsEmpty
  /\ TerminalIsLast

-----------------------------------------------------------------------------
(* Input queues keep their type *)

LEMMA QueueOps ==
  ASSUME NEW q \in Queues
  PROVE  /\ Pull(q) \in Queues
         /\ Close(q, "ended") \in Queues
         /\ Push(q, [size |-> 1]) \in Queues
<1> DEFINE Q == Queues
<1>1. ASSUME NEW r \in Queues, r.entries # <<>> PROVE Take(r) \in Queues
  <2>1. Head(r.entries) \in InputEntry /\ Tail(r.entries) \in Seq(InputEntry)
    BY <1>1, HeadTailProperties DEF Queues
  <2>2. r.buffered - Head(r.entries).size \in Int
    BY <2>1 DEF Queues, InputEntry
  <2>3. (r.paused /\ ~Low(r.buffered - Head(r.entries).size)) \in BOOLEAN
    OBVIOUS
  <2> QED BY <2>1, <2>2, <2>3 DEF Queues, Take
<1>2. ASSUME NEW r \in Queues PROVE SettleWaiter(r) \in Queues
  <2>1. [r EXCEPT !.pending = FALSE] \in Queues
        /\ [r EXCEPT !.pending = FALSE].entries = r.entries
    BY DEF Queues
  <2>2. r.entries # <<>> => Take([r EXCEPT !.pending = FALSE]) \in Queues
    BY <2>1, <1>1
  <2> QED BY <2>1, <2>2 DEF SettleWaiter
<1>3. Pull(q) \in Queues
  <2>1. [q EXCEPT !.pending = (q.closed = "open")] \in Queues
    BY DEF Queues
  <2> QED BY <1>1, <2>1 DEF Pull
<1>4. Close(q, "ended") \in Queues
  <2> DEFINE r == SettleWaiter([q EXCEPT !.closed = "ended"])
  <2>1. [q EXCEPT !.closed = "ended"] \in Queues
    BY DEF Queues, Closings
  <2>2. r \in Queues
    BY <2>1, <1>2
  <2> HIDE DEF r
  <2>3. [r EXCEPT !.paused = FALSE] \in Queues
    BY <2>2 DEF Queues
  <2> QED BY <2>3 DEF Close, r
<1>5. Push(q, [size |-> 1]) \in Queues
  <2> DEFINE e == [size |-> 1]
             r == SettleWaiter([q EXCEPT !.entries = Append(q.entries, e),
                                         !.buffered = q.buffered + e.size])
  <2>1. e \in InputEntry /\ e.size = 1
    BY DEF InputEntry
  <2>2. Append(q.entries, e) \in Seq(InputEntry)
    BY <2>1, AppendProperties DEF Queues
  <2>3. q.buffered + e.size \in Int
    BY <2>1 DEF Queues
  <2> HIDE DEF e
  <2>4. [q EXCEPT !.entries = Append(q.entries, e),
                  !.buffered = q.buffered + e.size] \in Queues
    BY <2>2, <2>3 DEF Queues
  <2>5. r \in Queues
    BY <2>4, <1>2
  <2> HIDE DEF r
  <2>6. [r EXCEPT !.paused = r.paused \/ r.buffered > HighWaterMark] \in Queues
    BY <2>5 DEF Queues
  <2> QED BY <2>6 DEF Push, r, e
<1> QED BY <1>3, <1>4, <1>5

LEMMA RequeueType ==
  ASSUME TypeOK, NEW queues \in [Calls -> Queues], Requeue(queues)
  PROVE  queue' \in [Calls -> Queues] /\ pausedQueues' \in Int /\ reading' \in BOOLEAN
<1> DEFINE P == {c \in Calls : queues[c].paused /\ ~queue[c].paused}
           R == {c \in Calls : queue[c].paused /\ ~queues[c].paused}
<1>1. Cardinality(P) \in Nat /\ Cardinality(R) \in Nat
  BY CallsAssumption, FS_Subset, FS_CardinalityType
<1>2. queue' = queues /\ pausedQueues' = pausedQueues + Cardinality(P) - Cardinality(R)
  BY DEF Requeue
<1>3. reading' \in BOOLEAN
  BY CanPauseAssumption DEF Requeue, TypeOK
<1> HIDE DEF P, R
<1>4. pausedQueues' \in Int
  BY <1>1, <1>2 DEF TypeOK
<1> QED BY <1>2, <1>3, <1>4

LEMMA CancelCallsType ==
  ASSUME TypeOK, NEW stopped, NEW iterators \in [Calls -> Iterators],
         NEW drains \in [Calls -> Drains],
         CancelCalls(stopped, iterators, drains)
  PROVE  /\ cancelled' = [c \in Calls |-> cancelled[c] \/ c \in stopped]
         /\ cancelled' \in [Calls -> BOOLEAN]
         /\ iterator' \in [Calls -> Iterators]
         /\ drain' \in [Calls -> Drains]
         /\ \A c \in Calls : c \notin stopped => drain'[c] = drains[c]
         /\ queue' \in [Calls -> Queues]
         /\ pausedQueues' \in Int
         /\ reading' \in BOOLEAN
<1> DEFINE queues == [c \in Calls |-> IF c \in stopped
                                      THEN Close(queue[c], "ended") ELSE queue[c]]
<1>1. queues \in [Calls -> Queues]
  BY QueueOps DEF TypeOK, Queues
<1>2. Requeue(queues)
  BY DEF CancelCalls
<1> HIDE DEF queues
<1>3. queue' \in [Calls -> Queues] /\ pausedQueues' \in Int /\ reading' \in BOOLEAN
  BY <1>1, <1>2, RequeueType
<1>4. cancelled' = [c \in Calls |-> cancelled[c] \/ c \in stopped]
  BY DEF CancelCalls
<1>5. cancelled' \in [Calls -> BOOLEAN]
  BY <1>4
<1>6. iterator' \in [Calls -> Iterators] /\ drain' \in [Calls -> Drains]
  BY DEF CancelCalls, Iterators, Drains
<1>7. \A c \in Calls : c \notin stopped => drain'[c] = drains[c]
  BY DEF CancelCalls
<1> QED BY <1>3, <1>4, <1>5, <1>6, <1>7

-----------------------------------------------------------------------------
(* A turn of a call *)

Outcome == [out : {<<>>} \cup {<<k>> : k \in Kinds}, closes : BOOLEAN,
            settles : BOOLEAN, ok : BOOLEAN, drained : BOOLEAN, throws : BOOLEAN]

\* The phases a turn can lead to.
AfterTurn == (Active \ {"running"}) \cup {"ended", "rejected"}

\* What every turn of the code does with the outcome of its send.
Legit(c, next, sent, stopped) ==
  /\ sent \in Outcome
  /\ next \in AfterTurn
  /\ stopped \subseteq {c}
  /\ sent.out # <<>> => ~cancelled[c] /\ ~sent.closes
  /\ \A k \in Kinds : sent.out = <<k>> => (k \in Terminal <=> sent.settles)
  /\ sent.out = <<"result">> => phase[c] = "running"
  /\ sent.settles => sent.out # <<>> /\ next = "ended"
  /\ next = "ended" /\ ~cancelled[c] => sent.settles \/ sent.closes
  /\ stopped # {} => next = "ended" /\ ~cancelled[c]

\* A call that may still send runs on an open connection.
LEMMA SenderIsOpen ==
  ASSUME Core, NEW c \in Calls, phase[c] \in Active, ~cancelled[c]
  PROVE  open /\ inflight[callId[c]] = c /\ c \in Inflight /\ ItemsOnly(frames[c])
<1>1. inflight[callId[c]] = c /\ callId[c] \in Ids
  BY DEF Core, SenderOwnsId, TypeOK
<1>2. c # NoCall
  BY CallsAssumption
<1>3. open
  BY <1>1, <1>2 DEF Core, ClosedIsEmpty
<1>4. ItemsOnly(frames[c])
  BY <1>1, <1>2 DEF Core, InflightOwned
<1> QED BY <1>1, <1>2, <1>3, <1>4 DEF Inflight

LEMMA AppendFrame ==
  ASSUME NEW s \in Seq(Kinds), NEW k \in Kinds, ItemsOnly(s)
  PROVE  /\ s \o <<k>> \in Seq(Kinds) /\ s \o <<k>> # <<>>
         /\ Len(s \o <<k>>) = Len(s) + 1 /\ (s \o <<k>>)[Len(s) + 1] = k
         /\ \A i \in 1 .. Len(s \o <<k>>) :
               (s \o <<k>>)[i] \in Terminal => i = Len(s \o <<k>>)
         /\ k \notin Terminal => ItemsOnly(s \o <<k>>)
<1>1. s \o <<k>> = Append(s, k)
  BY AppendIsConcat
<1>2. /\ Append(s, k) \in Seq(Kinds) /\ Append(s, k) # <<>>
      /\ Len(Append(s, k)) = Len(s) + 1 /\ Len(s) \in Nat
      /\ \A i \in 1 .. Len(s) : Append(s, k)[i] = s[i]
      /\ Append(s, k)[Len(s) + 1] = k
  BY AppendProperties, LenProperties
<1>3. \A i \in 1 .. Len(s) : s[i] = "item"
  BY DEF ItemsOnly
<1>4. k \notin Terminal => k = "item"
  BY DEF Kinds
<1> QED BY <1>1, <1>2, <1>3, <1>4 DEF ItemsOnly, Terminal

\* The variables after a turn of c, and the ids and calls the turn touches.
LEMMA TurnEffect ==
  ASSUME Core, NEW c \in Calls, NEW next, NEW sent, NEW stopped,
         NEW iter \in Iterators, NEW wait \in Drains,
         Legit(c, next, sent, stopped), phase[c] \in Active,
         Turn(c, next, sent, stopped, iter, wait)
  PROVE  /\ TypeOK'
         /\ callId' = callId
         /\ phase' = [phase EXCEPT ![c] = next]
         /\ frames' = [frames EXCEPT ![c] = @ \o sent.out]
         /\ \A d \in Calls : ~cancelled'[d] =>
               drain'[d] = IF d = c THEN wait ELSE drain[d]
         /\ sent.closes =>
              /\ ~open' /\ \A id \in Ids : inflight'[id] = NoCall
              /\ \A d \in Calls : cancelled'[d] = (cancelled[d] \/ d \in stopped
                                                   \/ d \in Inflight)
         /\ ~sent.closes =>
              /\ open' = open
              /\ \A d \in Calls : cancelled'[d] = (cancelled[d] \/ d \in stopped)
              /\ inflight' = IF sent.settles
                             THEN [inflight EXCEPT ![callId[c]] = NoCall]
                             ELSE inflight
<1> DEFINE iterators == [iterator EXCEPT ![c] = iter]
           drains == [drain EXCEPT ![c] = wait]
<1>1. TypeOK
  BY DEF Core
<1>2. iterators \in [Calls -> Iterators] /\ drains \in [Calls -> Drains]
  BY <1>1 DEF TypeOK, Iterators, Drains
<1>3. callId' = callId /\ phase' = [phase EXCEPT ![c] = next]
      /\ frames' = [frames EXCEPT ![c] = @ \o sent.out]
  BY DEF Turn
<1>4. phase' \in [Calls -> Phases]
  BY <1>1, <1>3 DEF TypeOK, Legit, AfterTurn, Phases, Active
<1>5. frames' \in [Calls -> Seq(Kinds)]
  <2>1. sent.out \in Seq(Kinds)
    <3>1. sent.out = <<>> \/ \E k \in Kinds : sent.out = <<k>>
      BY DEF Legit, Outcome
    <3>2. \A k \in Kinds : <<k>> \in Seq(Kinds)
      OBVIOUS
    <3>3. <<>> \in Seq(Kinds)
      OBVIOUS
    <3> QED BY <3>1, <3>2, <3>3
  <2>2. frames[c] \o sent.out \in Seq(Kinds)
    BY <1>1, <2>1, ConcatProperties DEF TypeOK
  <2> QED BY <1>1, <1>3, <2>2 DEF TypeOK
<1>8. \A d \in Calls : drains[d] = IF d = c THEN wait ELSE drain[d]
  BY <1>1 DEF TypeOK
<1>6. CASE sent.closes
  <2> DEFINE all == stopped \cup Inflight
  <2>1. /\ open' = FALSE /\ inflight' = [id \in Ids |-> NoCall]
        /\ CancelCalls(all, iterators, drains)
    BY <1>6 DEF Turn
  <2> HIDE DEF iterators, drains, all
  <2>2. /\ cancelled' = [d \in Calls |-> cancelled[d] \/ d \in all]
        /\ cancelled' \in [Calls -> BOOLEAN]
        /\ iterator' \in [Calls -> Iterators] /\ drain' \in [Calls -> Drains]
        /\ \A d \in Calls : d \notin all => drain'[d] = drains[d]
        /\ queue' \in [Calls -> Queues] /\ pausedQueues' \in Int
        /\ reading' \in BOOLEAN
    BY <1>1, <1>2, <2>1, CancelCallsType
  <2>3. TypeOK'
    BY <1>1, <1>3, <1>4, <1>5, <2>1, <2>2 DEF TypeOK, Iterators, Drains, Queues
  <2>4. \A d \in Calls : ~cancelled'[d] => drain'[d] = drains[d]
    BY <2>2
  <2> QED BY <1>3, <1>6, <1>8, <2>1, <2>2, <2>3, <2>4 DEF all
<1>7. CASE ~sent.closes
  <2>1. /\ open' = open
        /\ inflight' = IF sent.settles THEN [inflight EXCEPT ![callId[c]] = NoCall]
                       ELSE inflight
        /\ CancelCalls(stopped, iterators, drains)
    BY <1>7 DEF Turn
  <2> HIDE DEF iterators, drains
  <2>2. /\ cancelled' = [d \in Calls |-> cancelled[d] \/ d \in stopped]
        /\ cancelled' \in [Calls -> BOOLEAN]
        /\ iterator' \in [Calls -> Iterators] /\ drain' \in [Calls -> Drains]
        /\ \A d \in Calls : d \notin stopped => drain'[d] = drains[d]
        /\ queue' \in [Calls -> Queues] /\ pausedQueues' \in Int
        /\ reading' \in BOOLEAN
    BY <1>1, <1>2, <2>1, CancelCallsType
  <2>3. inflight' \in [Ids -> Calls \cup {NoCall}]
    BY <1>1, <2>1 DEF TypeOK
  <2>4. TypeOK'
    BY <1>1, <1>3, <1>4, <1>5, <2>1, <2>2, <2>3
       DEF TypeOK, Iterators, Drains, Queues
  <2>5. \A d \in Calls : ~cancelled'[d] => drain'[d] = drains[d]
    BY <2>2
  <2> QED BY <1>3, <1>7, <1>8, <2>1, <2>2, <2>4, <2>5
<1> QED BY <1>6, <1>7 DEF Legit, Outcome

\* What every step keeps beside the invariant: no call that was cancelled sends,
\* a call that ends has answered, and the step is one of the service, or silent.
Quiet == \A d \in Calls : cancelled[d] => frames'[d] = frames[d]
Answers ==
  \A d \in Calls : phase[d] \in Active /\ ~cancelled[d] /\ phase'[d] = "ended"
                     => Answered(d)' \/ ~open'
Serves == [Service!Next]_(Service!vars)
Faithful == Quiet /\ Answers /\ Serves

\* A legitimate turn is a step of the service: its frame is the owner's next
\* item or its answer, and a close inside the send disconnects.
LEMMA TurnServes ==
  ASSUME Core, NEW c \in Calls, NEW next, NEW sent, NEW stopped,
         NEW iter \in Iterators, NEW wait \in Drains,
         Legit(c, next, sent, stopped), phase[c] \in Active,
         Turn(c, next, sent, stopped, iter, wait)
  PROVE  Serves
<1>1. TypeOK /\ InflightOwned /\ RunningIsSilent
  BY DEF Core
<1>2. /\ TypeOK'
      /\ callId' = callId
      /\ phase' = [phase EXCEPT ![c] = next]
      /\ frames' = [frames EXCEPT ![c] = @ \o sent.out]
      /\ \A d \in Calls : ~cancelled'[d] =>
            drain'[d] = IF d = c THEN wait ELSE drain[d]
      /\ sent.closes =>
           /\ ~open' /\ \A id \in Ids : inflight'[id] = NoCall
           /\ \A d \in Calls : cancelled'[d] = (cancelled[d] \/ d \in stopped
                                                \/ d \in Inflight)
      /\ ~sent.closes =>
           /\ open' = open
           /\ \A d \in Calls : cancelled'[d] = (cancelled[d] \/ d \in stopped)
           /\ inflight' = IF sent.settles
                          THEN [inflight EXCEPT ![callId[c]] = NoCall]
                          ELSE inflight
  BY TurnEffect
<1> DEFINE id == callId[c]
           used == {d \in Calls : phase[d] # "unused"}
<1>3. used' = used
  BY <1>1, <1>2 DEF TypeOK, Legit, AfterTurn, Active
<1>4. frames[c] \in Seq(Kinds) /\ frames \in [Calls -> Seq(Kinds)]
  BY <1>1 DEF TypeOK
<1>5. CASE sent.out = <<>>
  <2>1. frames' = frames
    BY <1>2, <1>4, <1>5
  <2>2. ~sent.settles
    BY <1>5 DEF Legit
  <2>3. CASE sent.closes
    <3>1. open' = FALSE /\ inflight' = [i \in Ids |-> NoCall]
      BY <1>2, <2>3 DEF TypeOK
    <3>2. Service!Disconnect
      BY <1>3, <2>1, <3>1 DEF Service!Disconnect
    <3> QED BY <3>2 DEF Serves, Service!Next
  <2>4. CASE ~sent.closes
    BY <1>2, <1>3, <2>1, <2>2, <2>4 DEF Serves, Service!vars
  <2> QED BY <2>3, <2>4
<1>6. ASSUME NEW k \in Kinds, sent.out = <<k>> PROVE Serves
  <2>1. sent.out # <<>>
    BY <1>6
  <2>2. ~cancelled[c] /\ ~sent.closes /\ (k \in Terminal <=> sent.settles)
    BY <1>6, <2>1 DEF Legit
  <2>3. inflight[id] = c /\ id \in Ids /\ c # NoCall
    BY <1>1, <2>2, SenderIsOpen, CallsAssumption DEF TypeOK
  <2>4. frames' = [frames EXCEPT ![inflight[id]] = Append(@, k)]
    <3>1. frames[c] \o <<k>> = Append(frames[c], k)
      BY <1>4, AppendIsConcat
    <3> QED BY <1>2, <1>6, <2>3, <3>1
  <2>5. Service!Says(id, k)
    BY <1>2, <1>3, <2>2, <2>3, <2>4 DEF Service!Says
  <2>6. CASE k \in Terminal
    <3>1. inflight' = [inflight EXCEPT ![id] = NoCall]
      BY <1>2, <2>2, <2>6
    <3>2. k = "result" => frames[inflight[id]] = <<>>
      BY <1>1, <1>6, <2>3 DEF Legit, RunningIsSilent
    <3>3. Service!Answer(id, k)
      BY <2>5, <3>1, <3>2 DEF Service!Answer
    <3> QED BY <2>3, <2>6, <3>3 DEF Serves, Service!Next, Terminal
  <2>7. CASE k \notin Terminal
    <3>1. k = "item" /\ inflight' = inflight
      BY <1>2, <2>2, <2>7 DEF Kinds
    <3>2. Service!Item(id)
      BY <2>5, <3>1 DEF Service!Item
    <3> QED BY <2>3, <3>2 DEF Serves, Service!Next
  <2> QED BY <2>6, <2>7
<1> QED BY <1>5, <1>6 DEF Legit, Outcome

\* A legitimate turn keeps the invariant, and a cancelled call is silent.
LEMMA TurnCore ==
  ASSUME Core, NEW c \in Calls, NEW next, NEW sent, NEW stopped,
         NEW iter \in Iterators, NEW wait \in Drains,
         Legit(c, next, sent, stopped), phase[c] \in Active,
         next = "draining" => wait = "pending",
         Turn(c, next, sent, stopped, iter, wait)
  PROVE  Core' /\ Faithful
<1>1. TypeOK /\ DrainIsOwn /\ SenderOwnsId /\ InflightOwned /\ UnusedIsFresh /\ ClosedIsEmpty
      /\ RunningIsSilent /\ TerminalIsLast
  BY DEF Core
<1>2. /\ TypeOK'
      /\ callId' = callId
      /\ phase' = [phase EXCEPT ![c] = next]
      /\ frames' = [frames EXCEPT ![c] = @ \o sent.out]
      /\ \A d \in Calls : ~cancelled'[d] =>
            drain'[d] = IF d = c THEN wait ELSE drain[d]
      /\ sent.closes =>
           /\ ~open' /\ \A id \in Ids : inflight'[id] = NoCall
           /\ \A d \in Calls : cancelled'[d] = (cancelled[d] \/ d \in stopped
                                                \/ d \in Inflight)
      /\ ~sent.closes =>
           /\ open' = open
           /\ \A d \in Calls : cancelled'[d] = (cancelled[d] \/ d \in stopped)
           /\ inflight' = IF sent.settles
                          THEN [inflight EXCEPT ![callId[c]] = NoCall]
                          ELSE inflight
  BY TurnEffect
<1>3. /\ sent \in Outcome /\ next \in Active \cup {"ended", "rejected"}
      /\ next # "running"
      /\ stopped \subseteq {c}
      /\ sent.out # <<>> => ~cancelled[c] /\ ~sent.closes
      /\ \A k \in Kinds : sent.out = <<k>> => (k \in Terminal <=> sent.settles)
      /\ sent.settles => sent.out # <<>> /\ next = "ended"
      /\ next = "ended" /\ ~cancelled[c] => sent.settles \/ sent.closes
      /\ stopped # {} => next = "ended" /\ ~cancelled[c]
  BY DEF Legit, AfterTurn, Active
<1>4. /\ frames[c] \in Seq(Kinds) /\ frames'[c] = frames[c] \o sent.out
      /\ \A d \in Calls : d # c => frames'[d] = frames[d] /\ phase'[d] = phase[d]
      /\ phase'[c] = next
  BY <1>1, <1>2 DEF TypeOK
<1>5. sent.out = <<>> \/ \E k \in Kinds : sent.out = <<k>>
  BY <1>3 DEF Outcome
<1>6. sent.out = <<>> => frames'[c] = frames[c]
  BY <1>4, ConcatEmptySeq
<1>7. ~cancelled[c] => /\ open /\ inflight[callId[c]] = c /\ c \in Inflight
                       /\ ItemsOnly(frames[c])
  BY SenderIsOpen
<1>8. \A d \in Calls : cancelled[d] => cancelled'[d]
  BY <1>2
<1>9. SenderOwnsId'
  <2> SUFFICES ASSUME NEW d \in Calls, phase'[d] \in Active, ~cancelled'[d]
               PROVE  inflight'[callId'[d]] = d
    BY DEF SenderOwnsId
  <2>1. phase[d] \in Active /\ ~cancelled[d]
    BY <1>4, <1>8
  <2>2. inflight[callId[d]] = d /\ callId[d] \in Ids
    BY <1>1, <2>1 DEF SenderOwnsId, TypeOK
  <2>3. d \in Inflight
    BY <2>2, CallsAssumption DEF Inflight
  <2>4. ~sent.closes
    BY <1>2, <2>3
  <2>5. CASE sent.settles
    <3>1. d # c
      BY <1>3, <1>4, <2>5 DEF Active
    <3>2. callId[d] # callId[c]
      BY <1>3, <1>7, <2>2, <2>5, <3>1
    <3> QED BY <1>1, <1>2, <2>2, <2>4, <2>5, <3>2 DEF TypeOK
  <2>6. CASE ~sent.settles
    BY <1>2, <2>2, <2>4, <2>6
  <2> QED BY <2>5, <2>6
<1>10. InflightOwned'
  <2> SUFFICES ASSUME NEW id \in Ids, inflight'[id] # NoCall
               PROVE  /\ callId'[inflight'[id]] = id
                      /\ ~cancelled'[inflight'[id]]
                      /\ phase'[inflight'[id]] \in Active \cup {"rejected"}
                      /\ ItemsOnly(frames'[inflight'[id]])
    BY DEF InflightOwned
  <2>1. ~sent.closes
    BY <1>2
  <2>2. inflight'[id] = inflight[id] /\ (sent.settles => id # callId[c])
    BY <1>1, <1>2, <2>1, SMTT(30) DEF TypeOK
  <2> DEFINE d == inflight[id]
  <2>3. d \in Calls /\ callId[d] = id /\ ~cancelled[d]
        /\ phase[d] \in Active \cup {"rejected"} /\ ItemsOnly(frames[d])
    BY <1>1, <2>2 DEF TypeOK, InflightOwned
  <2> HIDE DEF d
  <2>4. CASE d # c
    <3>1. ~cancelled'[d]
      BY <1>2, <1>3, <2>1, <2>3, <2>4
    <3> QED BY <1>2, <1>4, <2>2, <2>3, <2>4, <3>1 DEF d
  <2>5. CASE d = c
    <3>1. ~sent.settles
      BY <2>2, <2>3, <2>5
    <3>2. next \in Active \cup {"rejected"} /\ stopped = {}
      BY <1>3, <2>1, <2>3, <2>5, <3>1
    <3>3. ~cancelled'[c]
      BY <1>2, <2>1, <2>3, <2>5, <3>2
    <3>4. ItemsOnly(frames'[c])
      <4>1. CASE sent.out = <<>>
        BY <1>6, <2>3, <2>5, <4>1
      <4>2. ASSUME NEW k \in Kinds, sent.out = <<k>> PROVE ItemsOnly(frames'[c])
        <5>1. k \notin Terminal
          BY <1>3, <3>1, <4>2
        <5> QED BY <1>4, <2>3, <2>5, <4>2, <5>1, AppendFrame
      <4> QED BY <1>5, <4>1, <4>2
    <3> QED BY <1>2, <1>4, <2>2, <2>3, <2>5, <3>2, <3>3, <3>4 DEF d
  <2> QED BY <2>4, <2>5
<1>11. UnusedIsFresh'
  <2> SUFFICES ASSUME NEW d \in Calls, phase'[d] = "unused"
               PROVE  frames'[d] = <<>> /\ ~cancelled'[d]
    BY DEF UnusedIsFresh
  <2>1. d # c /\ phase[d] = "unused"
    BY <1>3, <1>4 DEF Active
  <2>2. frames[d] = <<>> /\ ~cancelled[d]
    BY <1>1, <2>1 DEF UnusedIsFresh
  <2>3. d \notin Inflight
    <3> SUFFICES ASSUME NEW id \in Ids, inflight[id] = d, d # NoCall PROVE FALSE
      BY DEF Inflight
    <3> QED BY <1>1, <2>1 DEF InflightOwned, Active
  <2>4. d \notin stopped
    BY <1>3, <2>1
  <2> QED BY <1>2, <1>3, <1>4, <2>1, <2>2, <2>3, <2>4 DEF Outcome
<1>12. ClosedIsEmpty'
  <2>1. CASE sent.closes
    BY <1>2, <2>1 DEF ClosedIsEmpty
  <2>2. CASE ~sent.closes
    BY <1>1, <1>2, <2>2 DEF ClosedIsEmpty, TypeOK
  <2> QED BY <2>1, <2>2
<1>13. /\ \A i \in 1 .. Len(frames'[c]) :
             frames'[c][i] \in Terminal => i = Len(frames'[c])
       /\ sent.settles => /\ frames'[c] # <<>>
                          /\ frames'[c][Len(frames'[c])] \in Terminal
  <2>1. CASE sent.out = <<>>
    BY <1>1, <1>3, <1>6, <2>1 DEF TerminalIsLast
  <2>2. ASSUME NEW k \in Kinds, sent.out = <<k>>
        PROVE  /\ \A i \in 1 .. Len(frames'[c]) :
                     frames'[c][i] \in Terminal => i = Len(frames'[c])
               /\ sent.settles => /\ frames'[c] # <<>>
                                  /\ frames'[c][Len(frames'[c])] \in Terminal
    <3>1. ItemsOnly(frames[c])
      BY <1>3, <1>7, <2>2
    <3> QED BY <1>3, <1>4, <2>2, <3>1, AppendFrame
  <2> QED BY <1>5, <2>1, <2>2
<1>14. TerminalIsLast'
  BY <1>1, <1>4, <1>13 DEF TerminalIsLast
<1>15. Answers
  <2> SUFFICES ASSUME NEW d \in Calls, phase[d] \in Active, ~cancelled[d],
                      phase'[d] = "ended", open'
               PROVE  frames'[d] # <<>> /\ frames'[d][Len(frames'[d])] \in Terminal
    BY DEF Answers, Answered
  <2>1. d = c
    BY <1>4 DEF Active
  <2>2. next = "ended" /\ ~cancelled[c]
    BY <1>4, <2>1
  <2>3. ~sent.closes
    BY <1>2
  <2> QED BY <1>3, <1>13, <2>1, <2>2, <2>3
<1>16. \A d \in Calls : cancelled[d] => frames'[d] = frames[d]
  BY <1>3, <1>4, <1>6
<1>17. DrainIsOwn'
  BY <1>1, <1>2, <1>4, <1>8 DEF DrainIsOwn
<1>18. RunningIsSilent'
  BY <1>1, <1>3, <1>4 DEF RunningIsSilent
<1>19. Serves
  BY TurnServes
<1> QED BY <1>2, <1>17, <1>9, <1>10, <1>11, <1>12, <1>14, <1>15, <1>16, <1>18, <1>19
        DEF Core, Faithful, Quiet

-----------------------------------------------------------------------------
(* What the send of a turn can come to *)

LEMMA ResultErrOutcome ==
  ASSUME NEW sent \in ResultErr
  PROVE  /\ sent \in Outcome /\ ~sent.ok /\ ~sent.drained /\ ~sent.throws
         /\ \/ sent.out = <<"error">> /\ sent.settles /\ ~sent.closes
            \/ sent.out = <<>> /\ ~sent.settles /\ sent.closes
<1>1. Nothing \in Outcome
  BY DEF Nothing, Outcome
<1>2. \/ sent = [Nothing EXCEPT !.out = <<"error">>, !.settles = TRUE]
      \/ sent = Closed(FALSE)
  BY DEF ResultErr
<1>3. CASE sent = [Nothing EXCEPT !.out = <<"error">>, !.settles = TRUE]
  <2>1. sent = [out |-> <<"error">>, closes |-> FALSE, settles |-> TRUE,
                ok |-> FALSE, drained |-> FALSE, throws |-> FALSE]
    BY <1>3 DEF Nothing
  <2>2. <<"error">> \in {<<k>> : k \in Kinds}
    BY DEF Kinds, Terminal
  <2> QED BY <2>1, <2>2 DEF Outcome
<1>4. CASE sent = Closed(FALSE)
  BY <1>4 DEF Closed, Nothing, Outcome
<1> QED BY <1>2, <1>3, <1>4

LEMMA OutboundOutcome ==
  ASSUME NEW c \in Calls, NEW kind \in Kinds, NEW sent \in Outbound(c, kind),
         cancelled[c] \in BOOLEAN
  PROVE  /\ sent \in Outcome
         /\ sent.out # <<>> => ~cancelled[c] /\ ~sent.closes
         /\ \A k \in Kinds : sent.out = <<k>> => (k \in Terminal <=> sent.settles)
         /\ \A k \in Kinds : sent.out = <<k>> => k \in {kind, "error"}
         /\ sent.settles => /\ sent.out # <<>> /\ ~sent.throws
                            /\ kind \in Terminal \/ ~sent.ok
         /\ ~cancelled[c] /\ open /\ ~sent.throws =>
              sent.settles \/ sent.closes \/ (kind = "item" /\ sent.ok)
<1>1. CASE sent = Nothing /\ (cancelled[c] \/ ~open)
  BY <1>1 DEF Nothing, Outcome
<1>2. ASSUME ~cancelled[c], NEW how, sent = Handed(kind, how)
      PROVE  /\ sent \in Outcome /\ sent.out = <<kind>> /\ ~sent.closes
             /\ sent.settles = (kind \in Terminal) /\ ~sent.throws /\ sent.ok
  <2>1. sent = [out |-> <<kind>>, closes |-> FALSE, settles |-> (kind \in Terminal),
                ok |-> TRUE, drained |-> (how = "drain"), throws |-> FALSE]
    BY <1>2 DEF Handed, Nothing
  <2> QED BY <2>1 DEF Outcome
<1>3. ASSUME NEW ok \in BOOLEAN, sent = Closed(ok)
      PROVE  /\ sent \in Outcome /\ sent.out = <<>> /\ sent.closes
             /\ ~sent.settles /\ ~sent.throws
  BY <1>3 DEF Closed, Nothing, Outcome
<1>4. CASE sent = [Nothing EXCEPT !.throws = TRUE]
  BY <1>4 DEF Nothing, Outcome
<1>5. CASE sent \in ResultErr /\ ~cancelled[c]
  <2>1. /\ sent \in Outcome /\ ~sent.ok /\ ~sent.throws
        /\ \/ sent.out = <<"error">> /\ sent.settles /\ ~sent.closes
           \/ sent.out = <<>> /\ ~sent.settles /\ sent.closes
    BY <1>5, ResultErrOutcome
  <2>2. \A k \in Kinds : <<"error">> = <<k>> => k \in Terminal
    BY DEF Terminal
  <2>3. sent.out # <<>> => ~cancelled[c] /\ ~sent.closes
    BY <1>5, <2>1
  <2>4. \A k \in Kinds : sent.out = <<k>> => (k \in Terminal <=> sent.settles)
    <3> SUFFICES ASSUME NEW k \in Kinds, sent.out = <<k>>
                 PROVE  k \in Terminal /\ sent.settles
      OBVIOUS
    <3>1. sent.out # <<>>
      OBVIOUS
    <3> QED BY <2>1, <2>2, <3>1
  <2>5. sent.settles => /\ sent.out # <<>> /\ ~sent.throws
                        /\ kind \in Terminal \/ ~sent.ok
    <3>1. <<"error">> # <<>>
      OBVIOUS
    <3> QED BY <2>1, <3>1
  <2>6. \A k \in Kinds : sent.out = <<k>> => k = "error"
    BY <2>1
  <2> QED BY <2>1, <2>3, <2>4, <2>5, <2>6
<1>6. \/ sent = Nothing /\ (cancelled[c] \/ ~open)
      \/ /\ ~cancelled[c]
         /\ \/ \E how \in Sends : sent = Handed(kind, how)
            \/ sent = Closed(TRUE) \/ sent = Closed(FALSE)
            \/ sent \in ResultErr \/ sent = [Nothing EXCEPT !.throws = TRUE]
  <2>1. CASE cancelled[c] \/ ~open
    BY <2>1 DEF Outbound
  <2>2. CASE ~(cancelled[c] \/ ~open)
    <3>1. \/ \E how \in Sends : sent = Handed(kind, how)
          \/ sent = Closed(TRUE) \/ sent = Closed(FALSE)
          \/ \E how \in Sends : sent \in Substitute(how)
      BY <2>2 DEF Outbound
    <3>2. \A how : sent \in Substitute(how) =>
            sent \in ResultErr \/ sent = [Nothing EXCEPT !.throws = TRUE]
      BY DEF Substitute
    <3> QED BY <2>2, <3>1, <3>2
  <2> QED BY <2>1, <2>2
<1>7. CASE ~cancelled[c] /\ \E how \in Sends : sent = Handed(kind, how)
  <2>1. /\ sent \in Outcome /\ sent.out = <<kind>> /\ ~sent.closes
        /\ sent.settles = (kind \in Terminal) /\ ~sent.throws /\ sent.ok
    BY <1>2, <1>7
  <2>2. \A k \in Kinds : <<kind>> = <<k>> => k = kind
    OBVIOUS
  <2>3. kind \notin Terminal => kind = "item"
    BY DEF Kinds
  <2>4. <<kind>> # <<>>
    OBVIOUS
  <2>5. sent.out # <<>> => ~cancelled[c] /\ ~sent.closes
    BY <1>7, <2>1
  <2>6. \A k \in Kinds : sent.out = <<k>> => (k \in Terminal <=> sent.settles)
    BY <2>1, <2>2
  <2>7. sent.settles => /\ sent.out # <<>> /\ ~sent.throws
                        /\ kind \in Terminal \/ ~sent.ok
    BY <2>1, <2>4
  <2>8. sent.settles \/ (kind = "item" /\ sent.ok)
    BY <2>1, <2>3
  <2> QED BY <2>1, <2>5, <2>6, <2>7, <2>8
<1>8. CASE ~cancelled[c] /\ (sent = Closed(TRUE) \/ sent = Closed(FALSE))
  <2>1. /\ sent \in Outcome /\ sent.out = <<>> /\ sent.closes
        /\ ~sent.settles /\ ~sent.throws
    BY <1>3, <1>8
  <2>2. \A k \in Kinds : <<>> # <<k>>
    OBVIOUS
  <2> QED BY <2>1, <2>2
<1> QED BY <1>1, <1>4, <1>5, <1>6, <1>7, <1>8

\* A turn of the code that sends nothing and does not end an open call.
LEMMA NothingLegit ==
  ASSUME NEW c \in Calls, NEW next \in AfterTurn,
         next = "ended" => cancelled[c]
  PROVE  Legit(c, next, Nothing, {})
BY DEF Legit, Nothing, Outcome

\* A turn that ends when its terminal frame is sent, or goes on to report the
\* failure of the report.
LEMMA TerminalLegit ==
  ASSUME Core, NEW c \in Calls, phase[c] \in Active,
         NEW kind \in Terminal, NEW sent \in Outbound(c, kind),
         kind = "result" => phase[c] = "running",
         NEW other \in {"reporting", "rejected"}
  PROVE  Legit(c, IF ~sent.throws THEN "ended" ELSE other, sent, {})
<1>1. kind \in Kinds /\ kind # "item" /\ cancelled[c] \in BOOLEAN
  BY DEF Kinds, Terminal, Core, TypeOK
<1>2. /\ sent \in Outcome
      /\ sent.out # <<>> => ~cancelled[c] /\ ~sent.closes
      /\ \A k \in Kinds : sent.out = <<k>> => (k \in Terminal <=> sent.settles)
      /\ sent.out = <<"result">> => phase[c] = "running"
      /\ sent.settles => sent.out # <<>> /\ ~sent.throws
      /\ ~cancelled[c] /\ open /\ ~sent.throws => sent.settles \/ sent.closes
  BY <1>1, OutboundOutcome DEF Kinds, Terminal
<1>3. ~cancelled[c] => open
  BY SenderIsOpen
<1>4. (IF ~sent.throws THEN "ended" ELSE other) \in AfterTurn
      /\ ((IF ~sent.throws THEN "ended" ELSE other) = "ended" <=> ~sent.throws)
  BY DEF Active, AfterTurn
<1> QED BY <1>2, <1>3, <1>4 DEF Legit

LEMMA ReturnedType ==
  ASSUME TypeOK, NEW c \in Calls
  PROVE  Returned(c) \in Iterators /\ iterator[c] \in Iterators /\ drain[c] \in Drains
BY DEF TypeOK, Returned, Iterators, Drains

-----------------------------------------------------------------------------
(* Steps that cancel calls and steps that only move input *)

\* Cancelling the calls in stopped and dropping their entries of the map.
LEMMA StopCore ==
  ASSUME Core, NEW stopped, CancelCalls(stopped, iterator, drain),
         stopped \subseteq Inflight, UNCHANGED <<callId, phase, frames>>,
         open' \in BOOLEAN, open' => open, ~open /\ ~open' => stopped = {},
         open /\ ~open' => stopped = Inflight,
         inflight' = [id \in Ids |-> IF inflight[id] \in stopped THEN NoCall
                                     ELSE inflight[id]]
  PROVE  Core'
<1>1. TypeOK /\ DrainIsOwn /\ SenderOwnsId /\ InflightOwned /\ UnusedIsFresh /\ ClosedIsEmpty
      /\ RunningIsSilent /\ TerminalIsLast
  BY DEF Core
<1>2. iterator \in [Calls -> Iterators] /\ drain \in [Calls -> Drains]
  BY <1>1 DEF TypeOK, Iterators, Drains
<1>3. /\ cancelled' = [c \in Calls |-> cancelled[c] \/ c \in stopped]
      /\ cancelled' \in [Calls -> BOOLEAN]
      /\ iterator' \in [Calls -> Iterators] /\ drain' \in [Calls -> Drains]
      /\ \A c \in Calls : c \notin stopped => drain'[c] = drain[c]
      /\ queue' \in [Calls -> Queues] /\ pausedQueues' \in Int
      /\ reading' \in BOOLEAN
  BY <1>1, <1>2, CancelCallsType, SMTT(30)
<1>4. TypeOK'
  BY <1>1, <1>3 DEF TypeOK, Iterators, Drains, Queues
<1>5. SenderOwnsId'
  <2> SUFFICES ASSUME NEW d \in Calls, phase[d] \in Active, ~cancelled'[d]
               PROVE  inflight'[callId[d]] = d
    BY DEF SenderOwnsId
  <2>1. ~cancelled[d] /\ d \notin stopped
    BY <1>3
  <2> QED BY <1>1, <2>1 DEF SenderOwnsId, TypeOK
<1>6. InflightOwned'
  <2> SUFFICES ASSUME NEW id \in Ids, inflight'[id] # NoCall
               PROVE  /\ callId[inflight'[id]] = id
                      /\ ~cancelled'[inflight'[id]]
                      /\ phase[inflight'[id]] \in Active \cup {"rejected"}
                      /\ ItemsOnly(frames[inflight'[id]])
    BY DEF InflightOwned, ItemsOnly
  <2>1. inflight'[id] = inflight[id] /\ inflight[id] \notin stopped
    OBVIOUS
  <2>2. inflight[id] \in Calls /\ ~cancelled[inflight[id]]
    BY <1>1, <2>1 DEF TypeOK, InflightOwned
  <2>3. ~cancelled'[inflight[id]]
    BY <1>3, <2>1, <2>2
  <2> QED BY <1>1, <2>1, <2>3 DEF InflightOwned
<1>7. UnusedIsFresh'
  <2> SUFFICES ASSUME NEW d \in Calls, phase[d] = "unused"
               PROVE  frames[d] = <<>> /\ ~cancelled'[d]
    BY DEF UnusedIsFresh
  <2>1. d \notin stopped
    <3> SUFFICES ASSUME NEW id \in Ids, inflight[id] = d, d # NoCall PROVE FALSE
      BY DEF Inflight
    <3> QED BY <1>1 DEF InflightOwned, Active
  <2> QED BY <1>1, <1>3, <2>1 DEF UnusedIsFresh
<1>8. ClosedIsEmpty'
  <2> SUFFICES ASSUME ~open', NEW id \in Ids PROVE inflight'[id] = NoCall
    BY DEF ClosedIsEmpty
  <2>1. CASE open
    BY <2>1 DEF Inflight
  <2>2. CASE ~open
    BY <1>1, <2>2 DEF ClosedIsEmpty
  <2> QED BY <1>1, <2>1, <2>2 DEF TypeOK
<1>9. TerminalIsLast' /\ RunningIsSilent'
  BY <1>1 DEF TerminalIsLast, RunningIsSilent
<1>11. DrainIsOwn'
  BY <1>1, <1>3 DEF DrainIsOwn
<1> QED BY <1>4, <1>5, <1>6, <1>7, <1>8, <1>9, <1>11 DEF Core

\* Closing aborts every call in flight.
LEMMA AbortAllCore ==
  ASSUME Core, open, AbortAll(iterator, drain), UNCHANGED <<callId, phase, frames>>
  PROVE  Core' /\ Faithful
<1>1. /\ CancelCalls(Inflight, iterator, drain) /\ open' = FALSE
      /\ inflight' = [id \in Ids |-> NoCall]
  BY DEF AbortAll
<1>2. \A id \in Ids : inflight[id] \in Inflight \/ inflight[id] = NoCall
  BY DEF Inflight
<1>3. inflight' = [id \in Ids |-> IF inflight[id] \in Inflight THEN NoCall
                                  ELSE inflight[id]]
  BY <1>1, <1>2
<1>4. Core'
  BY <1>1, <1>3, StopCore
<1>5. Service!Disconnect
  BY <1>1 DEF Service!Disconnect
<1> QED BY <1>4, <1>5 DEF Faithful, Quiet, Answers, Active, Serves, Service!Next

\* Steps that change only input queues and drain waits.
LEMMA InputCore ==
  ASSUME Core, UNCHANGED <<open, inflight, callId, phase, cancelled, frames>>,
         queue' \in [Calls -> Queues], pausedQueues' \in Int, reading' \in BOOLEAN,
         iterator' = iterator, drain' \in [Calls -> Drains],
         \A c \in Calls : drain'[c] = drain[c] \/ drain'[c] \in {"drained", "timeout"}
  PROVE  Core' /\ Faithful
<1>1. TypeOK'
  BY DEF Core, TypeOK, Queues, Drains
<1>2. SenderOwnsId' /\ UnusedIsFresh' /\ ClosedIsEmpty' /\ TerminalIsLast'
      /\ RunningIsSilent'
  BY DEF Core, SenderOwnsId, UnusedIsFresh, ClosedIsEmpty, TerminalIsLast,
         RunningIsSilent
<1>3. InflightOwned'
  BY DEF Core, InflightOwned, ItemsOnly
<1>4. DrainIsOwn'
  BY DEF Core, DrainIsOwn
<1>5. Faithful
  BY DEF Faithful, Quiet, Answers, Active, Serves, Service!vars
<1> QED BY <1>1, <1>2, <1>3, <1>4, <1>5 DEF Core

-----------------------------------------------------------------------------
(* Every step of the connection *)

LEMMA NewQueueType == NewQueue \in Queues /\ NoQueue \in Queues
<1>1. <<>> \in Seq(InputEntry) /\ "open" \in Closings /\ "ended" \in Closings
  BY DEF Closings
<1>2. NewQueue \in Queues
  BY <1>1 DEF NewQueue, Queues
<1>3. [NewQueue EXCEPT !.closed = "ended"] \in Queues
  BY <1>1, <1>2 DEF Queues
<1> QED BY <1>2, <1>3 DEF NoQueue

LEMMA InitCore == Init => Core
<1> SUFFICES ASSUME Init PROVE Core
  OBVIOUS
<1>1. NoQueue \in Queues
  BY NewQueueType
<1>2. TypeOK
  BY <1>1, CallsAssumption DEF Init, TypeOK, Queues, Phases
<1>3. \A c \in Calls : phase[c] = "unused" /\ frames[c] = <<>> /\ ~cancelled[c]
  BY DEF Init
<1>4. \A id \in Ids : inflight[id] = NoCall
  BY DEF Init
<1>5. SenderOwnsId /\ UnusedIsFresh /\ RunningIsSilent
  BY <1>3 DEF SenderOwnsId, UnusedIsFresh, RunningIsSilent, Active
<1>8. DrainIsOwn
  BY <1>3 DEF DrainIsOwn
<1>6. InflightOwned /\ ClosedIsEmpty
  BY <1>4 DEF InflightOwned, ClosedIsEmpty
<1>7. TerminalIsLast
  BY <1>3 DEF TerminalIsLast
<1> QED BY <1>2, <1>5, <1>6, <1>7, <1>8 DEF Core

LEMMA RecvCallCore ==
  ASSUME Core, NEW id \in Ids, NEW c \in Calls, NEW streaming \in BOOLEAN,
         RecvCall(id, c, streaming)
  PROVE  Core' /\ Faithful
<1>1. TypeOK /\ DrainIsOwn /\ SenderOwnsId /\ InflightOwned /\ UnusedIsFresh /\ ClosedIsEmpty
      /\ RunningIsSilent /\ TerminalIsLast
  BY DEF Core
<1>2. /\ open /\ inflight[id] = NoCall /\ phase[c] = "unused"
      /\ callId' = [callId EXCEPT ![c] = id]
      /\ inflight' = [inflight EXCEPT ![id] = c]
      /\ phase' = [phase EXCEPT ![c] = "running"]
      /\ queue' = [queue EXCEPT ![c] = IF streaming THEN NewQueue ELSE NoQueue]
      /\ UNCHANGED <<open, cancelled, iterator, drain, frames, pausedQueues, reading>>
  BY DEF RecvCall
<1>3. NoQueue \in Queues /\ NewQueue \in Queues
  BY NewQueueType
<1>4. queue' \in [Calls -> Queues]
  BY <1>1, <1>2, <1>3 DEF TypeOK, Queues
<1>5. TypeOK'
  BY <1>1, <1>2, <1>4 DEF TypeOK, Queues, Phases, Active
<1>6. frames[c] = <<>> /\ ~cancelled[c] /\ c # NoCall
  BY <1>1, <1>2, CallsAssumption DEF UnusedIsFresh
<1>7. SenderOwnsId'
  <2> SUFFICES ASSUME NEW d \in Calls, phase'[d] \in Active, ~cancelled[d]
               PROVE  inflight'[callId'[d]] = d
    BY <1>2 DEF SenderOwnsId
  <2>1. CASE d = c
    BY <1>1, <1>2, <2>1 DEF TypeOK
  <2>2. CASE d # c
    <3>1. phase[d] \in Active /\ callId'[d] = callId[d]
      BY <1>1, <1>2, <2>2 DEF TypeOK
    <3>2. inflight[callId[d]] = d /\ d # NoCall
      BY <1>1, <3>1, CallsAssumption DEF SenderOwnsId
    <3> QED BY <1>1, <1>2, <3>1, <3>2 DEF TypeOK
  <2> QED BY <2>1, <2>2
<1>8. InflightOwned'
  <2> SUFFICES ASSUME NEW i \in Ids, inflight'[i] # NoCall
               PROVE  /\ callId'[inflight'[i]] = i
                      /\ ~cancelled[inflight'[i]]
                      /\ phase'[inflight'[i]] \in Active \cup {"rejected"}
                      /\ ItemsOnly(frames[inflight'[i]])
    BY <1>2 DEF InflightOwned, ItemsOnly
  <2>1. CASE i = id
    <3>1. inflight'[i] = c /\ callId'[c] = i /\ phase'[c] = "running"
      BY <1>1, <1>2, <2>1 DEF TypeOK
    <3> QED BY <1>6, <3>1 DEF ItemsOnly, Active
  <2>2. CASE i # id
    <3>1. inflight'[i] = inflight[i] /\ inflight[i] \in Calls
      BY <1>1, <1>2, <2>2 DEF TypeOK
    <3>2. /\ callId[inflight[i]] = i /\ ~cancelled[inflight[i]]
          /\ phase[inflight[i]] \in Active \cup {"rejected"}
          /\ ItemsOnly(frames[inflight[i]])
      BY <1>1, <3>1, CallsAssumption DEF InflightOwned
    <3>3. inflight[i] # c
      BY <1>2, <3>2 DEF Active
    <3> QED BY <1>1, <1>2, <3>1, <3>2, <3>3 DEF TypeOK
  <2> QED BY <2>1, <2>2
<1>9. UnusedIsFresh' /\ RunningIsSilent'
  BY <1>1, <1>2, <1>6 DEF UnusedIsFresh, RunningIsSilent, TypeOK
<1>10. ClosedIsEmpty' /\ TerminalIsLast'
  BY <1>1, <1>2 DEF ClosedIsEmpty, TerminalIsLast
<1>11. DrainIsOwn'
  BY <1>1, <1>2 DEF DrainIsOwn, TypeOK
<1>12. Faithful
  <2> DEFINE used == {d \in Calls : phase[d] # "unused"}
  <2>1. used' = used \cup {c} /\ c \notin used
    BY <1>1, <1>2 DEF TypeOK
  <2>2. Service!Begin(id, c)
    BY <1>2, <2>1 DEF Service!Begin
  <2>3. Answers
    BY <1>1, <1>2 DEF Answers, Active, TypeOK
  <2> QED BY <1>2, <2>2, <2>3 DEF Faithful, Quiet, Serves, Service!Next
<1> QED BY <1>5, <1>7, <1>8, <1>9, <1>10, <1>11, <1>12 DEF Core

LEMMA FailsCore ==
  ASSUME Core, NEW c \in Calls, phase[c] \in Active, NEW kind,
         NEW report \in {"reporting", "reporting stream"},
         NEW iter \in Iterators, Fails(c, kind, report, iter)
  PROVE  Core' /\ Faithful
<1>1. drain[c] \in Drains
  BY ReturnedType DEF Core
<1>2. CASE kind = "pf" \/ Hook = "none" \/ (cancelled[c] /\ kind = "abort")
  <2>1. PICK sent \in Outbound(c, "error") :
          Turn(c, IF ~sent.throws THEN "ended"
                  ELSE IF report = "reporting stream" THEN "reporting"
                  ELSE "rejected",
               sent, {}, iter, drain[c])
    BY <1>2 DEF Fails
  <2> DEFINE other == IF report = "reporting stream" THEN "reporting" ELSE "rejected"
  <2>2. Legit(c, IF ~sent.throws THEN "ended" ELSE other, sent, {})
    <3>1. other \in {"reporting", "rejected"} /\ "error" \in Terminal
      BY DEF Terminal
    <3> HIDE DEF other
    <3> QED BY <3>1, TerminalLegit
  <2> QED BY <1>1, <2>1, <2>2, TurnCore
<1>3. CASE ~(kind = "pf" \/ Hook = "none" \/ (cancelled[c] /\ kind = "abort"))
  <2>1. Turn(c, report, Nothing, {}, iter, drain[c])
    BY <1>3 DEF Fails
  <2>2. Legit(c, report, Nothing, {})
    BY NothingLegit DEF Active, AfterTurn
  <2> QED BY <1>1, <2>1, <2>2, TurnCore
<1> QED BY <1>2, <1>3

LEMMA HandlerCore ==
  ASSUME Core, NEW c \in Calls, HandlerSettles(c)
  PROVE  Core' /\ Faithful
<1>1. phase[c] = "running" /\ phase[c] \in Active
  BY DEF HandlerSettles, HandlerReturnsValue, HandlerReturnsStream, HandlerThrows, Active
<1>2. Returned(c) \in Iterators /\ iterator[c] \in Iterators /\ drain[c] \in Drains
  BY ReturnedType DEF Core
<1>3. CASE HandlerReturnsValue(c)
  <2>1. PICK sent \in Outbound(c, "result") :
          Turn(c, IF sent.throws THEN "reporting" ELSE "ended",
               sent, {}, iterator[c], drain[c])
    BY <1>3 DEF HandlerReturnsValue
  <2>2. Legit(c, IF ~sent.throws THEN "ended" ELSE "reporting", sent, {})
    BY <1>1, TerminalLegit DEF Terminal
  <2>3. (IF ~sent.throws THEN "ended" ELSE "reporting")
          = (IF sent.throws THEN "reporting" ELSE "ended")
    OBVIOUS
  <2> QED BY <1>1, <1>2, <2>1, <2>2, <2>3, TurnCore
<1>4. CASE HandlerReturnsStream(c)
  <2>1. CASE cancelled[c]
    <3>1. Turn(c, "ended", Nothing, {}, iterator[c], drain[c])
      BY <1>4, <2>1 DEF HandlerReturnsStream
    <3>2. Legit(c, "ended", Nothing, {})
      BY <2>1, NothingLegit DEF AfterTurn
    <3> QED BY <1>1, <1>2, <3>1, <3>2, TurnCore
  <2>2. CASE ~cancelled[c]
    <3>1. Turn(c, "pulling", Nothing, {}, "open", drain[c])
      BY <1>4, <2>2 DEF HandlerReturnsStream
    <3>2. Legit(c, "pulling", Nothing, {}) /\ "open" \in Iterators
      BY NothingLegit DEF Active, AfterTurn, Iterators
    <3> QED BY <1>1, <1>2, <3>1, <3>2, TurnCore
  <2> QED BY <2>1, <2>2
<1>5. ASSUME NEW kind \in Errors, HandlerThrows(c, kind) PROVE Core' /\ Faithful
  BY <1>1, <1>2, <1>5, FailsCore DEF HandlerThrows
<1> QED BY <1>3, <1>4, <1>5 DEF HandlerSettles

\* An item sent, substituted or refused.
LEMMA ItemLegit ==
  ASSUME Core, NEW c \in Calls, phase[c] \in Active, ~cancelled[c],
         NEW sent \in Outbound(c, "item")
  PROVE  Legit(c, IF sent.throws THEN "reporting stream"
                  ELSE IF ~sent.ok THEN "ended"
                  ELSE IF sent.drained THEN "draining" ELSE "pulling", sent, {})
<1>1. "item" \in Kinds /\ "item" \notin Terminal /\ cancelled[c] \in BOOLEAN
  BY DEF Kinds, Terminal, Core, TypeOK
<1>2. /\ sent \in Outcome
      /\ sent.out # <<>> => ~cancelled[c] /\ ~sent.closes
      /\ \A k \in Kinds : sent.out = <<k>> => (k \in Terminal <=> sent.settles)
      /\ sent.out # <<"result">>
      /\ sent.settles => sent.out # <<>> /\ ~sent.throws /\ ~sent.ok
      /\ ~cancelled[c] /\ open /\ ~sent.throws => sent.settles \/ sent.closes \/ sent.ok
  BY <1>1, OutboundOutcome DEF Kinds, Terminal
<1>3. open
  BY SenderIsOpen
<1> DEFINE next == IF sent.throws THEN "reporting stream"
                   ELSE IF ~sent.ok THEN "ended"
                   ELSE IF sent.drained THEN "draining" ELSE "pulling"
<1>4. next \in AfterTurn /\ (next = "ended" <=> ~sent.throws /\ ~sent.ok)
  BY DEF Active, AfterTurn
<1> HIDE DEF next
<1>5. Legit(c, next, sent, {})
  BY <1>2, <1>3, <1>4 DEF Legit
<1> QED BY <1>5 DEF next

LEMMA IteratorCore ==
  ASSUME Core, NEW c \in Calls, IteratorSettles(c)
  PROVE  Core' /\ Faithful
<1>1. phase[c] = "pulling" /\ phase[c] \in Active
  BY DEF IteratorSettles, IteratorYields, IteratorYieldsBadItem, IteratorEnds,
         IteratorThrows, Active
<1>2. Returned(c) \in Iterators /\ iterator[c] \in Iterators /\ drain[c] \in Drains
      /\ (IF iterator[c] = "open" THEN "finished" ELSE iterator[c]) \in Iterators
  BY ReturnedType DEF Core, Iterators
<1>3. ASSUME cancelled[c], Turn(c, "ended", Nothing, {}, iterator[c], drain[c])
      PROVE  Core' /\ Faithful
  <2>1. Legit(c, "ended", Nothing, {})
    BY <1>3, NothingLegit DEF AfterTurn
  <2> QED BY <1>1, <1>2, <1>3, <2>1, TurnCore
<1>4. CASE IteratorYields(c)
  <2>1. CASE cancelled[c]
    BY <1>3, <1>4, <2>1 DEF IteratorYields
  <2>2. CASE ~cancelled[c]
    <3>1. PICK sent \in Outbound(c, "item") :
            Turn(c, IF sent.throws THEN "reporting stream"
                    ELSE IF ~sent.ok THEN "ended"
                    ELSE IF sent.drained THEN "draining" ELSE "pulling",
                 sent, {}, IF sent.ok THEN iterator[c] ELSE Returned(c),
                 IF sent.drained THEN "pending" ELSE "none")
      BY <1>4, <2>2 DEF IteratorYields
    <3>2. Legit(c, IF sent.throws THEN "reporting stream"
                   ELSE IF ~sent.ok THEN "ended"
                   ELSE IF sent.drained THEN "draining" ELSE "pulling", sent, {})
      BY <1>1, <2>2, ItemLegit
    <3>3. /\ (IF sent.ok THEN iterator[c] ELSE Returned(c)) \in Iterators
          /\ (IF sent.drained THEN "pending" ELSE "none") \in Drains
          /\ (IF sent.throws THEN "reporting stream"
              ELSE IF ~sent.ok THEN "ended"
              ELSE IF sent.drained THEN "draining" ELSE "pulling") = "draining"
             => (IF sent.drained THEN "pending" ELSE "none") = "pending"
      BY <1>2 DEF Drains
    <3> QED BY <1>1, <3>1, <3>2, <3>3, TurnCore
  <2> QED BY <2>1, <2>2
<1>5. CASE IteratorYieldsBadItem(c)
  <2>1. CASE cancelled[c]
    BY <1>3, <1>5, <2>1 DEF IteratorYieldsBadItem
  <2>2. CASE ~cancelled[c]
    BY <1>1, <1>2, <1>5, <2>2, FailsCore DEF IteratorYieldsBadItem
  <2> QED BY <2>1, <2>2
<1>6. CASE IteratorEnds(c)
  <2>1. PICK sent \in Outbound(c, "done") :
          Turn(c, "ended", sent, {},
               IF iterator[c] = "open" THEN "finished" ELSE iterator[c], drain[c])
    BY <1>6 DEF IteratorEnds
  <2>2. ~sent.throws
    <3>1. CASE cancelled[c] \/ ~open
      <4>1. sent = Nothing
        BY <3>1 DEF Outbound
      <4> QED BY <4>1 DEF Nothing
    <3>2. CASE ~(cancelled[c] \/ ~open)
      <4>1. \/ \E how : sent = Handed("done", how)
            \/ sent = Closed(TRUE) \/ sent = Closed(FALSE)
            \/ sent \in Substitute("oversize")
        BY <3>2 DEF Outbound
      <4>2. CASE sent \in Substitute("oversize")
        <5>1. sent \in ResultErr
          BY <4>2 DEF Substitute
        <5> QED BY <5>1, ResultErrOutcome
      <4>3. CASE \E how : sent = Handed("done", how)
        BY <4>3 DEF Handed, Nothing
      <4>4. CASE sent = Closed(TRUE) \/ sent = Closed(FALSE)
        BY <4>4 DEF Closed, Nothing
      <4> QED BY <4>1, <4>2, <4>3, <4>4
    <3> QED BY <3>1, <3>2
  <2>3. Legit(c, IF ~sent.throws THEN "ended" ELSE "reporting", sent, {})
    BY <1>1, TerminalLegit DEF Terminal
  <2>4. Legit(c, "ended", sent, {})
    BY <2>2, <2>3
  <2> QED BY <1>1, <1>2, <2>1, <2>4, TurnCore
<1>7. ASSUME NEW kind \in Errors, IteratorThrows(c, kind) PROVE Core' /\ Faithful
  BY <1>1, <1>2, <1>7, FailsCore DEF IteratorThrows
<1> QED BY <1>4, <1>5, <1>6, <1>7 DEF IteratorSettles

LEMMA AfterDrainCore ==
  ASSUME Core, NEW c \in Calls, AfterDrain(c)
  PROVE  Core' /\ Faithful
<1>1. phase[c] \in Active
  BY DEF AfterDrain, Active
<1>2. Returned(c) \in Iterators /\ iterator[c] \in Iterators /\ "none" \in Drains
  BY ReturnedType DEF Core, Drains
<1>3. CASE drain[c] = "timeout" /\ ~cancelled[c]
  <2>1. open
    BY <1>1, <1>3, SenderIsOpen
  <2>2. PICK sent \in ResultErr : Turn(c, "ended", sent, {c}, Returned(c), "none")
    BY <1>3, <2>1 DEF AfterDrain
  <2>3. /\ sent \in Outcome
        /\ \/ sent.out = <<"error">> /\ sent.settles /\ ~sent.closes
           \/ sent.out = <<>> /\ ~sent.settles /\ sent.closes
    BY ResultErrOutcome
  <2>4. /\ \A k \in Kinds : <<>> # <<k>> /\ (<<"error">> = <<k>> => k \in Terminal)
        /\ <<"error">> # <<>>
    BY DEF Terminal
  <2>5. \A k \in Kinds : sent.out = <<k>> => (k \in Terminal <=> sent.settles)
    BY <2>3, <2>4
  <2>6. Legit(c, "ended", sent, {c})
    BY <1>3, <2>3, <2>4, <2>5 DEF Legit, AfterTurn
  <2> QED BY <1>1, <1>2, <2>2, <2>6, TurnCore
<1>4. CASE ~(drain[c] = "timeout" /\ ~cancelled[c])
  <2> DEFINE next == IF drain[c] = "drained" /\ ~cancelled[c] THEN "pulling" ELSE "ended"
  <2>1. Turn(c, next, Nothing, {}, iterator[c], "none")
    BY <1>4 DEF AfterDrain
  <2>2. next \in AfterTurn /\ (next = "ended" => cancelled[c]) /\ next # "draining"
    BY <1>4 DEF AfterDrain, AfterTurn, Active, Core, DrainIsOwn
  <2> HIDE DEF next
  <2>3. Legit(c, next, Nothing, {})
    BY <2>2, NothingLegit
  <2> QED BY <1>1, <1>2, <2>1, <2>2, <2>3, TurnCore
<1> QED BY <1>3, <1>4

LEMMA OnErrorCore ==
  ASSUME Core, NEW c \in Calls, OnErrorSettles(c)
  PROVE  Core' /\ Faithful
<1>1. phase[c] \in {"reporting", "reporting stream"} /\ phase[c] \in Active
  BY DEF OnErrorSettles, OnErrorResolves, OnErrorRejects, Active
<1>2. iterator[c] \in Iterators /\ drain[c] \in Drains
  BY ReturnedType DEF Core
<1> DEFINE other == IF phase[c] = "reporting stream" THEN "reporting" ELSE "rejected"
<1>3. other \in {"reporting", "rejected"}
  OBVIOUS
<1>4. CASE OnErrorResolves(c)
  <2>1. PICK sent \in Outbound(c, "error") :
          Turn(c, IF ~sent.throws THEN "ended" ELSE other, sent, {},
               iterator[c], drain[c])
    BY <1>4 DEF OnErrorResolves
  <2> HIDE DEF other
  <2>2. Legit(c, IF ~sent.throws THEN "ended" ELSE other, sent, {})
    BY <1>1, <1>3, TerminalLegit DEF Terminal
  <2> QED BY <1>1, <1>2, <1>3, <2>1, <2>2, TurnCore
<1>5. CASE OnErrorRejects(c)
  <2>1. Turn(c, other, Nothing, {}, iterator[c], drain[c])
    BY <1>5 DEF OnErrorRejects
  <2> HIDE DEF other
  <2>2. Legit(c, other, Nothing, {})
    BY <1>3, NothingLegit DEF Active, AfterTurn
  <2> QED BY <1>1, <1>2, <1>3, <2>1, <2>2, TurnCore
<1> QED BY <1>4, <1>5 DEF OnErrorSettles

LEMMA StepCore == Core /\ [Next]_vars => Core' /\ (Faithful \/ UNCHANGED vars)
<1> SUFFICES ASSUME Core, [Next]_vars PROVE Core' /\ (Faithful \/ UNCHANGED vars)
  OBVIOUS
<1>1. TypeOK
  BY DEF Core
<1>2. queue \in [Calls -> Queues] /\ drain \in [Calls -> Drains]
  BY <1>1 DEF TypeOK, Queues, Drains
<1>3. ASSUME NEW id \in Ids, NEW c \in Calls, NEW streaming \in BOOLEAN,
             RecvCall(id, c, streaming)
      PROVE  Core' /\ Faithful
  BY <1>3, RecvCallCore
<1>4. ASSUME NEW id \in Ids, RecvInItem(id) PROVE Core' /\ Faithful
  <2> DEFINE c == inflight[id]
             queues == [queue EXCEPT ![c] = Push(queue[c], [size |-> 1])]
  <2>1. c \in Calls
    BY <1>1, <1>4 DEF RecvInItem, TypeOK
  <2>2. Requeue(queues)
    BY <1>4 DEF RecvInItem
  <2>3. queues \in [Calls -> Queues]
    BY <1>2, <2>1, QueueOps
  <2> HIDE DEF c, queues
  <2>4. queue' \in [Calls -> Queues] /\ pausedQueues' \in Int /\ reading' \in BOOLEAN
    BY <1>1, <2>2, <2>3, RequeueType
  <2>5. UNCHANGED <<open, inflight, callId, phase, cancelled, iterator, drain, frames>>
    BY <1>4 DEF RecvInItem
  <2> QED BY <1>2, <2>4, <2>5, InputCore
<1>5. ASSUME NEW id \in Ids, RecvInDone(id) PROVE Core' /\ Faithful
  <2> DEFINE c == inflight[id]
             queues == [queue EXCEPT ![c] = Close(queue[c], "ended")]
  <2>1. c \in Calls
    BY <1>1, <1>5 DEF RecvInDone, TypeOK
  <2>2. Requeue(queues)
    BY <1>5 DEF RecvInDone
  <2>3. queues \in [Calls -> Queues]
    BY <1>2, <2>1, QueueOps
  <2> HIDE DEF c, queues
  <2>4. queue' \in [Calls -> Queues] /\ pausedQueues' \in Int /\ reading' \in BOOLEAN
    BY <1>1, <2>2, <2>3, RequeueType
  <2>5. UNCHANGED <<open, inflight, callId, phase, cancelled, iterator, drain, frames>>
    BY <1>5 DEF RecvInDone
  <2> QED BY <1>2, <2>4, <2>5, InputCore
<1>6. ASSUME NEW id \in Ids, RecvCancel(id) PROVE Core' /\ Faithful
  <2> DEFINE stopped == {inflight[id]}
  <2>1. stopped \subseteq Inflight
    BY <1>6 DEF RecvCancel, Inflight
  <2>2. inflight' = [i \in Ids |-> IF inflight[i] \in stopped THEN NoCall
                                   ELSE inflight[i]]
    <3>1. \A i \in Ids : inflight[i] = inflight[id] => i = id
      BY <1>6 DEF RecvCancel, Core, InflightOwned
    <3> QED BY <1>1, <1>6, <3>1 DEF RecvCancel, TypeOK
  <2>3. /\ CancelCalls(stopped, iterator, drain) /\ open /\ open' = open
        /\ UNCHANGED <<callId, phase, frames>>
    BY <1>6 DEF RecvCancel
  <2>4. open' \in BOOLEAN
    BY <1>1, <2>3 DEF TypeOK
  <2> HIDE DEF stopped
  <2>5. Core'
    BY <2>1, <2>2, <2>3, <2>4, StopCore
  <2>6. Service!Cancel(id)
    BY <1>6 DEF RecvCancel, Service!Cancel
  <2> QED BY <2>3, <2>5, <2>6 DEF Faithful, Quiet, Answers, Active, Serves, Service!Next
<1>7. ASSUME NEW id \in Ids, RecvStray(id) PROVE Core' /\ Faithful
  BY <1>7, AbortAllCore DEF RecvStray
<1>8. CASE SessionCloses
  BY <1>8, AbortAllCore DEF SessionCloses
<1>9. ASSUME NEW c \in Calls, PullInput(c) PROVE Core' /\ Faithful
  <2> DEFINE queues == [queue EXCEPT ![c] = Pull(queue[c])]
  <2>1. Requeue(queues)
    BY <1>9 DEF PullInput
  <2>2. queues \in [Calls -> Queues]
    BY <1>2, QueueOps
  <2> HIDE DEF queues
  <2>3. queue' \in [Calls -> Queues] /\ pausedQueues' \in Int /\ reading' \in BOOLEAN
    BY <1>1, <2>1, <2>2, RequeueType
  <2>4. UNCHANGED <<open, inflight, callId, phase, cancelled, iterator, drain, frames>>
    BY <1>9 DEF PullInput
  <2> QED BY <1>2, <2>3, <2>4, InputCore
<1>10. ASSUME NEW c \in Calls, NEW result \in {"drained", "timeout"},
              DrainSettles(c, result)
       PROVE  Core' /\ Faithful
  <2>1. drain' = [drain EXCEPT ![c] = result] /\ result \in Drains
    BY <1>10 DEF DrainSettles, Drains
  <2>2. /\ drain' \in [Calls -> Drains]
        /\ \A d \in Calls : drain'[d] = drain[d] \/ drain'[d] \in {"drained", "timeout"}
    BY <1>2, <2>1
  <2>3. UNCHANGED <<open, inflight, callId, phase, cancelled, iterator, queue, frames,
                    pausedQueues, reading>>
    BY <1>10 DEF DrainSettles
  <2>4. pausedQueues \in Int /\ reading \in BOOLEAN
    BY <1>1 DEF TypeOK
  <2> QED BY <1>2, <2>2, <2>3, <2>4, InputCore
<1>11. ASSUME NEW c \in Calls,
              HandlerSettles(c) \/ IteratorSettles(c) \/ AfterDrain(c) \/ OnErrorSettles(c)
       PROVE  Core' /\ Faithful
  BY <1>11, HandlerCore, IteratorCore, AfterDrainCore, OnErrorCore
<1>12. CASE UNCHANGED vars
  BY <1>12 DEF vars, Core, TypeOK, DrainIsOwn, SenderOwnsId, InflightOwned, ItemsOnly,
               UnusedIsFresh, RunningIsSilent, ClosedIsEmpty, TerminalIsLast
<1> QED BY <1>3, <1>4, <1>5, <1>6, <1>7, <1>8, <1>9, <1>10, <1>11, <1>12 DEF Next

\* Core is an invariant of the connection.
THEOREM CoreInvariant == Spec => []Core
BY InitCore, StepCore, PTL DEF Spec

\* The state keeps its type, with a map, queues and history of any size.
THEOREM TypeTheorem == Spec => []TypeOK
<1>1. Core => TypeOK
  BY DEF Core
<1> QED BY CoreInvariant, <1>1, PTL

\* A call sends at most one terminal frame and nothing after it, however its
\* handler, its drain timer, the report of its error, a cancel and the close
\* of the connection interleave.
THEOREM TerminalTheorem == Spec => []TerminalIsLast
<1>1. Core => TerminalIsLast
  BY DEF Core
<1> QED BY CoreInvariant, <1>1, PTL

\* The ServerCall that may still send under an id is the one the inflight map
\* holds for the id: reuse of an id never mixes two calls.
THEOREM OwnerTheorem == Spec => []SenderOwnsId
<1>1. Core => SenderOwnsId
  BY DEF Core
<1> QED BY CoreInvariant, <1>1, PTL

\* The turn in which run() ends a call nobody cancelled leaves its terminal frame
\* on the wire, or the connection closed: also the turn of a drain timeout, which
\* cancels the call before it answers.
THEOREM AnswerTheorem == Spec => AnsweredUnlessCancelled
<1>1. Core /\ [Next]_vars =>
        [\A c \in Calls :
           phase[c] \in Active /\ ~cancelled[c] /\ phase'[c] = "ended"
             => Answered(c)' \/ ~open']_vars
  BY StepCore DEF Faithful, Answers
<1> QED BY CoreInvariant, <1>1, PTL DEF Spec, AnsweredUnlessCancelled

\* A cancelled call, or one of a closed connection, sends nothing more.
THEOREM SilenceTheorem == Spec => SilentAfterCancel
<1>1. Core /\ [Next]_vars => [\A c \in Calls : cancelled[c] => frames'[c] = frames[c]]_vars
  BY StepCore DEF Faithful, Quiet
<1> QED BY CoreInvariant, <1>1, PTL DEF Spec, SilentAfterCancel

\* The connection implements the service: whatever its drains, pauses, hooks and
\* late completions, all the peer can see of a call is its begin, its items and
\* its one answer, or its cancel.
THEOREM ServiceTheorem == Spec => ImplementsService
<1>1. Init => Service!Init
  BY DEF Init, Service!Init
<1>2. Core /\ [Next]_vars => [Service!Next]_(Service!vars)
  <2> SUFFICES ASSUME Core, [Next]_vars PROVE Serves
    BY DEF Serves
  <2>1. CASE UNCHANGED vars
    BY <2>1 DEF vars, Serves, Service!vars
  <2> QED BY <2>1, StepCore DEF Faithful
<1> QED BY CoreInvariant, <1>1, <1>2, PTL DEF Spec, ImplementsService, Service!Spec

-----------------------------------------------------------------------------
(***************************************************************************)
(* Pauses and iterators.  What a call holds (a pause of the connection, an *)
(* iterator) it holds only while it may go on: PauseInv and                *)
(* ProducerReleased are inductive together with Core.                      *)
(***************************************************************************)

PausedCalls == {c \in Calls : queue[c].paused}

\* A pause belongs to a call in use that was not cancelled, and the counter of
\* the connection counts exactly these pauses.
PauseInv ==
  /\ \A c \in Calls : PauseJustified(queue[c])
  /\ \A c \in Calls : queue[c].paused => phase[c] # "unused" /\ ~cancelled[c]
  /\ pausedQueues = Cardinality(PausedCalls)
  /\ reading \/ pausedQueues > 0

Held == Core /\ PauseInv /\ ProducerReleased

LEMMA QueueTypes == Queues = UnitQueues
BY DEF Queues, UnitQueues, InputEntry, UnitEntry

\* The counter follows the queues of a step, and reads resume with the last.
LEMMA RequeuePause ==
  ASSUME TypeOK, PauseInv, NEW queues \in [Calls -> Queues], Requeue(queues),
         \A c \in Calls : PauseJustified(queues[c]),
         \A c \in Calls : queues[c].paused => phase'[c] # "unused" /\ ~cancelled'[c]
  PROVE  PauseInv'
<1> DEFINE A == PausedCalls
           B == {c \in Calls : queues[c].paused}
           paused == {c \in Calls : queues[c].paused /\ ~queue[c].paused}
           resumed == {c \in Calls : queue[c].paused /\ ~queues[c].paused}
           count == pausedQueues + Cardinality(paused) - Cardinality(resumed)
<1>1. /\ queue' = queues /\ pausedQueues' = count
      /\ reading' = IF pausedQueues = 0 /\ count > 0 THEN ~CanPause
                    ELSE IF pausedQueues > 0 /\ count = 0 THEN TRUE
                    ELSE reading
  BY DEF Requeue
<1>2. paused = B \ A /\ resumed = A \ B
  BY DEF PausedCalls
<1>3. PausedCalls' = B
  BY <1>1 DEF PausedCalls
<1> HIDE DEF paused, resumed
<1>4. A \subseteq Calls /\ B \subseteq Calls
  BY DEF PausedCalls
<1> HIDE DEF A, B
<1>5. /\ Cardinality(B) = Cardinality(A) + Cardinality(B \ A) - Cardinality(A \ B)
      /\ Cardinality(A) \in Nat /\ Cardinality(B) \in Nat
  <2>1. IsFiniteSet(Calls)
    BY CallsAssumption
  <2>2. Cardinality(B) = Cardinality(A) + Cardinality(B \ A) - Cardinality(A \ B)
    BY <1>4, <2>1, CountPaused, SMT
  <2>3. Cardinality(A) \in Nat /\ Cardinality(B) \in Nat
    BY <1>4, <2>1, CountPaused
  <2> QED BY <2>2, <2>3
<1>6. pausedQueues = Cardinality(A)
  BY DEF PauseInv, A
<1>7. count = Cardinality(B)
  BY <1>2, <1>5, <1>6
<1> HIDE DEF count
<1>8. reading' \/ pausedQueues' > 0
  BY <1>1, <1>5, <1>6, <1>7 DEF PauseInv
<1> QED BY <1>1, <1>3, <1>7, <1>8 DEF PauseInv

LEMMA CancelPause ==
  ASSUME TypeOK, PauseInv, NEW stopped, NEW iterators, NEW drains,
         CancelCalls(stopped, iterators, drains),
         \A c \in Calls : phase[c] # "unused" => phase'[c] # "unused"
  PROVE  PauseInv'
<1> DEFINE queues == [c \in Calls |-> IF c \in stopped THEN Close(queue[c], "ended")
                                      ELSE queue[c]]
<1>1. Requeue(queues) /\ cancelled' = [c \in Calls |-> cancelled[c] \/ c \in stopped]
  BY DEF CancelCalls
<1>2. \A c \in Calls : queue[c] \in UnitQueues /\ PauseJustified(queue[c])
  BY QueueTypes DEF TypeOK, Queues, PauseInv
<1>3. \A c \in Calls : /\ queues[c] \in UnitQueues /\ PauseJustified(queues[c])
                       /\ queues[c].paused => queue[c].paused /\ c \notin stopped
  BY <1>2, CloseUnit
<1>4. queues \in [Calls -> Queues]
  BY <1>3, QueueTypes
<1> HIDE DEF queues
<1> QED BY <1>1, <1>3, <1>4, RequeuePause DEF PauseInv

\* A turn keeps an open iterator only for a call that goes on pulling it.
LEMMA TurnHeld ==
  ASSUME TypeOK, PauseInv, ProducerReleased, NEW c \in Calls, NEW next, NEW sent,
         NEW stopped, NEW iter, NEW wait, Turn(c, next, sent, stopped, iter, wait),
         next # "unused",
         iter = "open" => next \in {"pulling", "draining"} /\ ~cancelled[c]
  PROVE  PauseInv' /\ ProducerReleased'
<1> DEFINE iterators == [iterator EXCEPT ![c] = iter]
           drains == [drain EXCEPT ![c] = wait]
<1>1. PICK all : CancelCalls(all, iterators, drains)
  BY DEF Turn
<1>2. phase' = [phase EXCEPT ![c] = next]
  BY DEF Turn
<1>3. PauseInv'
  BY <1>1, <1>2, CancelPause DEF TypeOK
<1>4. ProducerReleased'
  <2> SUFFICES ASSUME NEW d \in Calls, iterator'[d] = "open"
               PROVE  phase'[d] \in {"pulling", "draining"} /\ ~cancelled'[d]
    BY DEF ProducerReleased
  <2>1. d \notin all /\ iterators[d] = "open"
    BY <1>1 DEF CancelCalls
  <2>2. cancelled'[d] = cancelled[d]
    BY <1>1, <2>1 DEF CancelCalls, TypeOK
  <2>3. CASE d = c
    BY <1>2, <2>1, <2>2, <2>3 DEF TypeOK
  <2>4. CASE d # c
    BY <1>2, <2>1, <2>2, <2>4 DEF TypeOK, ProducerReleased
  <2> QED BY <2>3, <2>4
<1> QED BY <1>3, <1>4

\* A step that cancels calls outside a turn.
LEMMA StopHeld ==
  ASSUME TypeOK, PauseInv, ProducerReleased, NEW stopped,
         CancelCalls(stopped, iterator, drain), UNCHANGED phase
  PROVE  PauseInv' /\ ProducerReleased'
<1>1. PauseInv'
  BY CancelPause
<1>2. ProducerReleased'
  BY DEF CancelCalls, ProducerReleased, TypeOK
<1> QED BY <1>1, <1>2

\* A step that moves the input of one call.
LEMMA InputHeld ==
  ASSUME TypeOK, PauseInv, ProducerReleased, NEW c \in Calls, NEW q \in UnitQueues,
         PauseJustified(q), Requeue([queue EXCEPT ![c] = q]),
         q.paused => phase[c] # "unused" /\ ~cancelled[c],
         UNCHANGED <<phase, cancelled, iterator>>
  PROVE  PauseInv' /\ ProducerReleased'
<1> DEFINE queues == [queue EXCEPT ![c] = q]
<1>1. queues \in [Calls -> Queues]
  BY QueueTypes DEF TypeOK, Queues
<1>2. \A d \in Calls : queues[d] = IF d = c THEN q ELSE queue[d]
  BY DEF TypeOK
<1> HIDE DEF queues
<1>3. Requeue(queues)
  BY DEF queues
<1>4. /\ \A d \in Calls : PauseJustified(queues[d])
      /\ \A d \in Calls : queues[d].paused => phase'[d] # "unused" /\ ~cancelled'[d]
  BY <1>2 DEF PauseInv
<1>5. PauseInv'
  BY <1>1, <1>3, <1>4, RequeuePause
<1>6. ProducerReleased'
  BY DEF ProducerReleased
<1> QED BY <1>5, <1>6

\* An outcome that is ok, or an error, was not interrupted by onError.
LEMMA OkThrowsNot ==
  ASSUME NEW c, NEW kind, NEW sent \in Outbound(c, kind), sent.ok
  PROVE  ~sent.throws
<1>1. CASE \E how : sent = Handed(kind, how)
  BY <1>1 DEF Handed, Nothing
<1>2. CASE \E ok \in BOOLEAN : sent = Closed(ok)
  BY <1>2 DEF Closed, Nothing
<1>3. CASE sent \in ResultErr
  BY <1>3, ResultErrOutcome
<1>4. CASE sent = [Nothing EXCEPT !.throws = TRUE] \/ sent = Nothing
  BY <1>4 DEF Nothing
<1>5. \A how : sent \in Substitute(how) =>
        sent \in ResultErr \/ sent = [Nothing EXCEPT !.throws = TRUE]
  BY DEF Substitute
<1>6. \/ \E how : sent = Handed(kind, how)
      \/ \E ok \in BOOLEAN : sent = Closed(ok)
      \/ sent = Nothing
      \/ \E how : sent \in Substitute(how)
  BY DEF Outbound
<1> QED BY <1>1, <1>2, <1>3, <1>4, <1>5, <1>6

\* Whatever error a call fails with, its iterator was let go before.
LEMMA FailsHeld ==
  ASSUME Held, NEW c \in Calls, NEW kind,
         NEW report \in {"reporting", "reporting stream"}, NEW iter,
         iter # "open", Fails(c, kind, report, iter)
  PROVE  PauseInv' /\ ProducerReleased'
<1> DEFINE after(sent) == IF ~sent.throws THEN "ended"
                          ELSE IF report = "reporting stream" THEN "reporting"
                          ELSE "rejected"
<1>1. \/ \E sent : Turn(c, after(sent), sent, {}, iter, drain[c])
      \/ Turn(c, report, Nothing, {}, iter, drain[c])
  BY DEF Fails
<1>2. report # "unused" /\ \A sent : after(sent) # "unused"
  OBVIOUS
<1> HIDE DEF after
<1> QED BY <1>1, <1>2, TurnHeld DEF Held, Core

LEMMA HandlerHeld ==
  ASSUME Held, NEW c \in Calls, HandlerSettles(c)
  PROVE  PauseInv' /\ ProducerReleased'
<1>1. phase[c] = "running" /\ iterator[c] # "open"
  BY DEF HandlerSettles, HandlerReturnsValue, HandlerReturnsStream, HandlerThrows,
         Held, ProducerReleased
<1>2. CASE HandlerReturnsValue(c)
  <2>1. PICK next, sent : Turn(c, next, sent, {}, iterator[c], drain[c])
                          /\ next # "unused"
    BY <1>2 DEF HandlerReturnsValue
  <2> QED BY <1>1, <2>1, TurnHeld DEF Held, Core
<1>3. CASE HandlerReturnsStream(c)
  <2>1. CASE cancelled[c]
    <3>1. Turn(c, "ended", Nothing, {}, iterator[c], drain[c])
      BY <1>3, <2>1 DEF HandlerReturnsStream
    <3> QED BY <1>1, <3>1, TurnHeld DEF Held, Core
  <2>2. CASE ~cancelled[c]
    <3>1. Turn(c, "pulling", Nothing, {}, "open", drain[c])
      BY <1>3, <2>2 DEF HandlerReturnsStream
    <3> QED BY <2>2, <3>1, TurnHeld DEF Held, Core
  <2> QED BY <2>1, <2>2
<1>4. ASSUME NEW kind \in Errors, HandlerThrows(c, kind)
      PROVE  PauseInv' /\ ProducerReleased'
  BY <1>1, <1>4, FailsHeld DEF HandlerThrows
<1> QED BY <1>2, <1>3, <1>4 DEF HandlerSettles

LEMMA IteratorHeld ==
  ASSUME Held, NEW c \in Calls, IteratorSettles(c)
  PROVE  PauseInv' /\ ProducerReleased'
<1>0. TypeOK /\ PauseInv /\ ProducerReleased
  BY DEF Held, Core
<1>1. cancelled[c] => iterator[c] # "open"
  BY <1>0 DEF ProducerReleased
<1>2. Returned(c) # "open"
  BY DEF Returned
<1>3. CASE IteratorYields(c) \/ IteratorYieldsBadItem(c)
  <2>1. CASE cancelled[c]
    <3>1. Turn(c, "ended", Nothing, {}, iterator[c], drain[c])
      BY <1>3, <2>1 DEF IteratorYields, IteratorYieldsBadItem
    <3> QED BY <1>0, <1>1, <2>1, <3>1, TurnHeld
  <2>2. CASE ~cancelled[c] /\ IteratorYieldsBadItem(c)
    BY <1>2, <2>2, FailsHeld DEF IteratorYieldsBadItem
  <2>3. CASE ~cancelled[c] /\ IteratorYields(c)
    <3> DEFINE next(sent) == IF sent.throws THEN "reporting stream"
                             ELSE IF ~sent.ok THEN "ended"
                             ELSE IF sent.drained THEN "draining" ELSE "pulling"
               iter(sent) == IF sent.ok THEN iterator[c] ELSE Returned(c)
    <3>0. PICK sent \in Outbound(c, "item") :
            \E wait : Turn(c, next(sent), sent, {}, iter(sent), wait)
      BY <2>3 DEF IteratorYields
    <3>1. PICK wait : Turn(c, next(sent), sent, {}, iter(sent), wait)
      BY <3>0
    <3>2. iter(sent) = "open" => sent.ok /\ ~sent.throws
      BY <1>2, OkThrowsNot
    <3>3. next(sent) # "unused"
          /\ (sent.ok /\ ~sent.throws => next(sent) \in {"pulling", "draining"})
      OBVIOUS
    <3> HIDE DEF next, iter
    <3> QED BY <1>0, <2>3, <3>1, <3>2, <3>3, TurnHeld
  <2> QED BY <1>3, <2>1, <2>2, <2>3
<1>4. CASE IteratorEnds(c)
  <2> DEFINE iter == IF iterator[c] = "open" THEN "finished" ELSE iterator[c]
  <2>1. PICK sent : Turn(c, "ended", sent, {}, iter, drain[c])
    BY <1>4 DEF IteratorEnds
  <2>2. iter # "open"
    OBVIOUS
  <2> HIDE DEF iter
  <2> QED BY <1>0, <2>1, <2>2, TurnHeld
<1>5. ASSUME NEW kind \in Errors, IteratorThrows(c, kind)
      PROVE  PauseInv' /\ ProducerReleased'
  <2> DEFINE iter == IF iterator[c] = "open" THEN "finished" ELSE iterator[c]
  <2>1. Fails(c, kind, "reporting stream", iter)
    BY <1>5 DEF IteratorThrows
  <2>2. iter # "open"
    OBVIOUS
  <2> HIDE DEF iter
  <2> QED BY <2>1, <2>2, FailsHeld
<1> QED BY <1>3, <1>4, <1>5 DEF IteratorSettles

\* The wait of a call ends in one more pull, or with the iterator returned.
LEMMA AfterDrainHeld ==
  ASSUME Held, NEW c \in Calls, AfterDrain(c)
  PROVE  PauseInv' /\ ProducerReleased'
<1>0. TypeOK /\ PauseInv /\ ProducerReleased
  BY DEF Held, Core
<1>1. CASE drain[c] = "timeout" /\ ~cancelled[c]
  <2>1. PICK sent : Turn(c, "ended", sent, {c}, Returned(c), "none")
    BY <1>1 DEF AfterDrain
  <2>2. Returned(c) # "open"
    BY DEF Returned
  <2> QED BY <1>0, <2>1, <2>2, TurnHeld
<1>2. CASE ~(drain[c] = "timeout" /\ ~cancelled[c])
  <2> DEFINE next == IF drain[c] = "drained" /\ ~cancelled[c] THEN "pulling" ELSE "ended"
  <2>1. Turn(c, next, Nothing, {}, iterator[c], "none")
    BY <1>2 DEF AfterDrain
  <2>2. ~cancelled[c] => next = "pulling"
    BY <1>2 DEF AfterDrain, Held, Core, DrainIsOwn
  <2>3. next # "unused" /\ (iterator[c] = "open" => ~cancelled[c])
    BY <1>0 DEF ProducerReleased
  <2> HIDE DEF next
  <2> QED BY <1>0, <2>1, <2>2, <2>3, TurnHeld
<1> QED BY <1>1, <1>2

LEMMA OnErrorHeld ==
  ASSUME Held, NEW c \in Calls, OnErrorSettles(c)
  PROVE  PauseInv' /\ ProducerReleased'
<1> DEFINE other == IF phase[c] = "reporting stream" THEN "reporting" ELSE "rejected"
           after(sent) == IF ~sent.throws THEN "ended" ELSE other
<1>1. \/ \E sent : Turn(c, after(sent), sent, {}, iterator[c], drain[c])
      \/ Turn(c, other, Nothing, {}, iterator[c], drain[c])
  BY DEF OnErrorSettles, OnErrorResolves, OnErrorRejects
<1>3. other # "unused" /\ \A sent : after(sent) # "unused"
  OBVIOUS
<1> HIDE DEF other, after
<1>2. iterator[c] # "open"
  BY DEF OnErrorSettles, OnErrorResolves, OnErrorRejects, Held, ProducerReleased
<1> QED BY <1>1, <1>2, <1>3, TurnHeld DEF Held, Core

LEMMA InitHeld == Init => PauseInv /\ ProducerReleased
<1> SUFFICES ASSUME Init PROVE PauseInv /\ ProducerReleased
  OBVIOUS
<1>1. \A c \in Calls : queue[c] = NoQueue /\ iterator[c] = "none"
  BY DEF Init
<1>2. Len(<<>>) = 0 /\ PauseJustified(NoQueue) /\ ~NoQueue.paused
  BY EmptySeq DEF NoQueue, NewQueue, PauseJustified
<1>3. PausedCalls = {}
  BY <1>1, <1>2 DEF PausedCalls
<1>4. pausedQueues = Cardinality(PausedCalls) /\ reading
  BY <1>3, FS_EmptySet DEF Init
<1> QED BY <1>1, <1>2, <1>4 DEF PauseInv, ProducerReleased

\* A new call starts with a queue that reads on, in the place of one that did.
LEMMA RecvCallHeld ==
  ASSUME Held, NEW id \in Ids, NEW c \in Calls, NEW streaming \in BOOLEAN,
         RecvCall(id, c, streaming)
  PROVE  PauseInv' /\ ProducerReleased'
<1> DEFINE new == IF streaming THEN NewQueue ELSE NoQueue
<1>1. /\ queue' = [queue EXCEPT ![c] = new] /\ phase' = [phase EXCEPT ![c] = "running"]
      /\ UNCHANGED <<cancelled, iterator, pausedQueues, reading>>
      /\ phase[c] = "unused"
  BY DEF RecvCall
<1>2. Len(<<>>) = 0 /\ PauseJustified(new) /\ ~new.paused
  BY EmptySeq DEF NoQueue, NewQueue, PauseJustified
<1> HIDE DEF new
<1>3. TypeOK /\ PauseInv /\ ProducerReleased
  BY DEF Held, Core
<1>4. ~queue[c].paused /\ iterator[c] # "open"
  BY <1>1, <1>3 DEF PauseInv, ProducerReleased
<1>5. PausedCalls' = PausedCalls
  BY <1>1, <1>2, <1>3, <1>4 DEF PausedCalls, TypeOK
<1>6. /\ \A d \in Calls : PauseJustified(queue'[d])
      /\ \A d \in Calls : queue'[d].paused => phase'[d] # "unused" /\ ~cancelled'[d]
  BY <1>1, <1>2, <1>3 DEF PauseInv, TypeOK
<1>7. ProducerReleased'
  BY <1>1, <1>3, <1>4 DEF ProducerReleased, TypeOK
<1> QED BY <1>1, <1>3, <1>5, <1>6, <1>7 DEF PauseInv

LEMMA StepHeld == Held /\ [Next]_vars => PauseInv' /\ ProducerReleased'
<1> SUFFICES ASSUME Held, [Next]_vars PROVE PauseInv' /\ ProducerReleased'
  OBVIOUS
<1>0. TypeOK /\ PauseInv /\ ProducerReleased /\ InflightOwned
      /\ \A c \in Calls : queue[c] \in UnitQueues /\ PauseJustified(queue[c])
  BY QueueTypes DEF Held, Core, TypeOK, Queues, PauseInv
<1>1. ASSUME NEW id \in Ids, inflight[id] # NoCall
      PROVE  /\ inflight[id] \in Calls /\ phase[inflight[id]] # "unused"
             /\ ~cancelled[inflight[id]]
  <2>1. inflight[id] \in Calls
    BY <1>0, <1>1 DEF TypeOK
  <2>2. phase[inflight[id]] \in Active \cup {"rejected"} /\ ~cancelled[inflight[id]]
    BY <1>0, <1>1 DEF InflightOwned
  <2> QED BY <2>1, <2>2 DEF Active
<1>2. ASSUME NEW id \in Ids, NEW c \in Calls, NEW streaming \in BOOLEAN,
             RecvCall(id, c, streaming)
      PROVE  PauseInv' /\ ProducerReleased'
  BY <1>2, RecvCallHeld
<1>3. ASSUME NEW id \in Ids, RecvInItem(id) PROVE PauseInv' /\ ProducerReleased'
  <2> DEFINE c == inflight[id]
             q == Push(queue[c], [size |-> 1])
  <2>1. /\ c \in Calls /\ phase[c] # "unused" /\ ~cancelled[c]
        /\ Requeue([queue EXCEPT ![c] = q])
        /\ UNCHANGED <<phase, cancelled, iterator>>
    BY <1>1, <1>3 DEF RecvInItem
  <2>2. q \in UnitQueues /\ PauseJustified(q)
    BY <1>0, <2>1, PushUnit
  <2> HIDE DEF q, c
  <2> QED BY <1>0, <2>1, <2>2, InputHeld
<1>4. ASSUME NEW id \in Ids, RecvInDone(id) PROVE PauseInv' /\ ProducerReleased'
  <2> DEFINE c == inflight[id]
             q == Close(queue[c], "ended")
  <2>1. /\ c \in Calls
        /\ Requeue([queue EXCEPT ![c] = q])
        /\ UNCHANGED <<phase, cancelled, iterator>>
    BY <1>1, <1>4 DEF RecvInDone
  <2>2. q \in UnitQueues /\ PauseJustified(q) /\ ~q.paused
    BY <1>0, <2>1, CloseUnit
  <2> HIDE DEF q, c
  <2> QED BY <1>0, <2>1, <2>2, InputHeld
<1>5. ASSUME NEW c \in Calls, PullInput(c) PROVE PauseInv' /\ ProducerReleased'
  <2> DEFINE q == Pull(queue[c])
  <2>1. /\ Requeue([queue EXCEPT ![c] = q])
        /\ UNCHANGED <<phase, cancelled, iterator>>
    BY <1>5 DEF PullInput
  <2>2. q \in UnitQueues /\ PauseJustified(q) /\ (q.paused => queue[c].paused)
    BY <1>0, PullUnit
  <2>3. queue[c].paused => phase[c] # "unused" /\ ~cancelled[c]
    BY <1>0 DEF PauseInv
  <2> HIDE DEF q
  <2> QED BY <1>0, <2>1, <2>2, <2>3, InputHeld
<1>6. ASSUME NEW id \in Ids, RecvCancel(id) PROVE PauseInv' /\ ProducerReleased'
  BY <1>0, <1>6, StopHeld DEF RecvCancel
<1>7. ASSUME NEW id \in Ids, RecvStray(id) PROVE PauseInv' /\ ProducerReleased'
  BY <1>0, <1>7, StopHeld DEF RecvStray, AbortAll
<1>8. CASE SessionCloses
  BY <1>0, <1>8, StopHeld DEF SessionCloses, AbortAll
<1>9. ASSUME NEW c \in Calls, NEW result \in {"drained", "timeout"},
             DrainSettles(c, result)
      PROVE  PauseInv' /\ ProducerReleased'
  <2>1. UNCHANGED <<phase, cancelled, iterator, queue, pausedQueues, reading>>
    BY <1>9 DEF DrainSettles
  <2> QED BY <1>0, <2>1 DEF PauseInv, PausedCalls, ProducerReleased
<1>10. ASSUME NEW c \in Calls,
              HandlerSettles(c) \/ IteratorSettles(c) \/ AfterDrain(c) \/ OnErrorSettles(c)
       PROVE  PauseInv' /\ ProducerReleased'
  BY <1>10, HandlerHeld, IteratorHeld, AfterDrainHeld, OnErrorHeld
<1>11. CASE UNCHANGED vars
  BY <1>0, <1>11 DEF vars, PauseInv, PausedCalls, ProducerReleased
<1> QED BY <1>2, <1>3, <1>4, <1>5, <1>6, <1>7, <1>8, <1>9, <1>10, <1>11 DEF Next

THEOREM HeldInvariant == Spec => []Held
<1>1. Init => Held
  BY InitCore, InitHeld DEF Held
<1>2. Held /\ [Next]_vars => Held'
  <2> SUFFICES ASSUME Held, [Next]_vars PROVE Held'
    OBVIOUS
  <2>1. Core'
    BY StepCore DEF Held
  <2>2. PauseInv' /\ ProducerReleased'
    BY StepHeld
  <2> QED BY <2>1, <2>2 DEF Held
<1> QED BY <1>1, <1>2, PTL DEF Spec

\* closeIterator and cancel(): an iterator that is still open belongs to a call
\* that goes on pulling it, whichever of an error frame, a failing hook, the
\* drain timer, a cancel or the close ends a call.
THEOREM ProducerTheorem == Spec => []ProducerReleased
<1>1. Held => ProducerReleased
  BY DEF Held
<1> QED BY HeldInvariant, <1>1, PTL

\* pausedQueues: reads are off only for a call that was not cancelled and whose
\* queue still holds a value, for any number of calls and every mark.
THEOREM PauseTheorem == Spec => []PausedByOpenQueue
<1>1. Held => PausedByOpenQueue
  <2> SUFFICES ASSUME Held, ~reading
               PROVE  \E c \in Calls : /\ queue[c].paused /\ queue[c].entries # <<>>
                                       /\ ~cancelled[c]
    BY DEF PausedByOpenQueue
  <2>1. Cardinality(PausedCalls) # 0 /\ PausedCalls \subseteq Calls
    BY DEF Held, PauseInv, PausedCalls
  <2>2. PausedCalls # {}
    BY <2>1, FS_EmptySet
  <2>3. PICK c \in Calls : queue[c].paused
    BY <2>2 DEF PausedCalls
  <2>4. queue[c] \in UnitQueues /\ PauseJustified(queue[c]) /\ ~cancelled[c]
    BY <2>3, QueueTypes DEF Held, Core, TypeOK, Queues, PauseInv
  <2> QED BY <2>3, <2>4, PausedHolds
<1> QED BY HeldInvariant, <1>1, PTL
=============================================================================
