---------------------------- MODULE MemoryDuplex ----------------------------
(***************************************************************************)
(* createMemoryDuplex (message/src/duplex.ts): two ends, each with an      *)
(* inbox flushed one microtask after a send.  A turn of either end is one  *)
(* step; the microtasks run in the order they were queued, and a turn of   *)
(* the ends may come between two of them.  A text has length 1.            *)
(***************************************************************************)
EXTENDS Naturals, Sequences

CONSTANTS MemoryMark,    \* options.highWaterMark
          MaxTexts       \* bound of the model: texts sent to one end

VARIABLE memory

ASSUME MemoryMarkAssumption == MemoryMark \in Nat

Ends == {"a", "b"}

MemoryTypeOK ==
  memory \in
    [closed : BOOLEAN,
     tasks : Seq(Ends \cup {"close"}),       \* the microtask queue
     queue : [Ends -> Seq(Nat)],             \* the inbox of an end
     paused : [Ends -> BOOLEAN],
     flushScheduled : [Ends -> BOOLEAN],
     drains : [Ends -> Nat],                 \* promises not yet resolved
     taken : [Ends -> Nat],                  \* history: texts sent to an end
     arrived : [Ends -> Seq(Nat)],           \* history: texts its handler got
     told : BOOLEAN]                         \* emitClose ran

MemoryInit ==
  memory = [closed |-> FALSE, tasks |-> <<>>, queue |-> [e \in Ends |-> <<>>],
            paused |-> [e \in Ends |-> FALSE],
            flushScheduled |-> [e \in Ends |-> FALSE],
            drains |-> [e \in Ends |-> 0], taken |-> [e \in Ends |-> 0],
            arrived |-> [e \in Ends |-> <<>>], told |-> FALSE]

ScheduleFlush(m, e) ==
  IF m.flushScheduled[e] \/ m.paused[e] THEN m
  ELSE [m EXCEPT !.flushScheduled[e] = TRUE, !.tasks = Append(@, e)]

\* sendTo the inbox of e; a closed duplex drops the text.
MemorySend(e) ==
  /\ ~memory.closed
  /\ memory.taken[e] < MaxTexts
  /\ LET text == memory.taken[e] + 1
         sent == ScheduleFlush([memory EXCEPT !.taken[e] = text,
                                              !.queue[e] = Append(@, text)], e)
     IN  memory' = IF Len(sent.queue[e]) > MemoryMark
                   THEN [sent EXCEPT !.drains[e] = @ + 1] ELSE sent

\* flush: n texts are delivered; the handler paused the end if some are left.
Flushed(m, e, n) ==
  LET rest == SubSeq(m.queue[e], n + 1, Len(m.queue[e]))
  IN  [m EXCEPT !.flushScheduled[e] = FALSE, !.tasks = Tail(@),
                !.arrived[e] = @ \o SubSeq(m.queue[e], 1, n),
                !.queue[e] = rest,
                !.paused[e] = @ \/ rest # <<>>,
                !.drains[e] = IF Len(rest) <= MemoryMark THEN 0 ELSE @]

MemoryFlush(e) ==
  /\ memory.tasks # <<>> /\ Head(memory.tasks) = e
  /\ \E n \in 0 .. Len(memory.queue[e]) :
       /\ memory.paused[e] => n = 0
       /\ ~memory.paused[e] /\ memory.queue[e] # <<>> => n > 0
       /\ memory' = Flushed(memory, e, n)

MemoryPause(e) ==
  /\ ~memory.paused[e]
  /\ memory' = [memory EXCEPT !.paused[e] = TRUE]

\* Mutant of MemoryResume: a closed duplex is flushed too.
MemoryResumeWhenClosed(e) ==
  /\ memory.paused[e]
  /\ memory' = ScheduleFlush([memory EXCEPT !.paused[e] = FALSE], e)

MemoryResume(e) ==
  /\ memory.paused[e]
  /\ LET resumed == [memory EXCEPT !.paused[e] = FALSE]
     IN  memory' = IF memory.closed THEN resumed ELSE ScheduleFlush(resumed, e)

MemoryClose ==
  /\ ~memory.closed
  /\ memory' = [memory EXCEPT !.closed = TRUE, !.tasks = Append(@, "close")]

\* The microtask of close: settle the drains of both inboxes, tell both ends.
MemoryTell ==
  /\ memory.tasks # <<>> /\ Head(memory.tasks) = "close"
  /\ memory' = [memory EXCEPT !.tasks = Tail(@), !.told = TRUE,
                              !.drains = [e \in Ends |-> 0]]

MemoryTask == MemoryTell \/ \E e \in Ends : MemoryFlush(e)

MemoryNext ==
  \/ MemoryTask \/ MemoryClose
  \/ \E e \in Ends : MemorySend(e) \/ MemoryPause(e) \/ MemoryResume(e)

MemorySpec == MemoryInit /\ [][MemoryNext]_memory

ToA == INSTANCE DuplexPipe WITH
  taken <- memory.taken["a"], arrived <- memory.arrived["a"],
  parked <- memory.drains["a"], open <- ~memory.closed, told <- memory.told
ToB == INSTANCE DuplexPipe WITH
  taken <- memory.taken["b"], arrived <- memory.arrived["b"],
  parked <- memory.drains["b"], open <- ~memory.closed, told <- memory.told

-----------------------------------------------------------------------------
\* A sender waits only for a microtask that is queued, or for a resume of an
\* end that holds more than the mark.
MemoryParkedIsWoken ==
  \A e \in Ends : memory.drains[e] > 0 =>
    \/ memory.paused[e] /\ Len(memory.queue[e]) > MemoryMark
    \/ memory.flushScheduled[e]
    \/ memory.closed /\ ~memory.told
=============================================================================
