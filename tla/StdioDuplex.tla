---------------------------- MODULE StdioDuplex -----------------------------
(***************************************************************************)
(* createStdioDuplex (message/src/stdio.ts): NDJSON over a Readable and a  *)
(* Writable, as StdioLink and StdioHandler use it.  The streams are        *)
(* external.  The peer wrote PeerText; the Readable delivers it in chunks  *)
(* cut anywhere, and can end, fail and close.                              *)
(***************************************************************************)
EXTENDS Lines

CONSTANTS PeerText,       \* tokens the peer writes: letters, white space, "nl"
          MaxFrameBytes,  \* options.maxFrameBytes
          MaxStdioTexts   \* bound of the model: texts sent

ASSUME StdioAssumption == PeerText \in Seq(STRING)

VARIABLE stdio

StdioTypeOK ==
  stdio \in
    [read : 0 .. Len(PeerText),    \* history: tokens of the peer consumed
     flowing : BOOLEAN,            \* the Readable is not paused
     ended : BOOLEAN,              \* 'end' was emitted
     pending : Seq({PeerText[i] : i \in DOMAIN PeerText}),
     delivered : Seq(Seq({PeerText[i] : i \in DOMAIN PeerText})),  \* history
     closed : BOOLEAN,
     tasks : Nat,                  \* microtasks that will close
     drainWaiters : Nat,
     taken : Nat,                  \* history: texts written
     told : BOOLEAN]

StdioInit ==
  stdio = [read |-> 0, flowing |-> TRUE, ended |-> FALSE, pending |-> <<>>,
           delivered |-> <<>>, closed |-> FALSE, tasks |-> 0,
           drainWaiters |-> 0, taken |-> 0, told |-> FALSE]

\* close(): the listeners of both streams go, so nothing is read any more.
CloseStdio(s) ==
  IF s.closed THEN s
  ELSE [s EXCEPT !.closed = TRUE, !.pending = <<>>, !.drainWaiters = 0,
                 !.told = TRUE]

ExceedsMax(text) == Len(text) > MaxFrameBytes

\* Mutant of OnData: each chunk is split on its own.
OnDataForgets(s, chunk, n) ==
  LET split == NextLines(chunk)
      got == [s EXCEPT !.delivered = @ \o SubSeq(split.lines, 1, n)]
  IN  IF n < Len(split.lines) THEN CloseStdio(got)
      ELSE IF ExceedsMax(split.rest) THEN CloseStdio(got)
      ELSE [got EXCEPT !.pending = split.rest]

\* onData: the lines of the buffer are delivered, all of them even when a
\* handler pauses the input; a handler that closes after n of them stops it.
OnData(s, chunk, n) ==
  LET split == NextLines(s.pending \o chunk)
      got == [s EXCEPT !.delivered = @ \o SubSeq(split.lines, 1, n)]
  IN  IF n < Len(split.lines) THEN CloseStdio(got)
      ELSE IF ExceedsMax(split.rest) THEN CloseStdio(got)
      ELSE [got EXCEPT !.pending = split.rest]

DataArrives ==
  /\ ~stdio.closed /\ stdio.flowing
  /\ \E m \in stdio.read + 1 .. Len(PeerText), n \in 0 .. Len(PeerText) :
       LET chunk == SubSeq(PeerText, stdio.read + 1, m)
       IN  /\ n <= Len(NextLines(stdio.pending \o chunk).lines)
           /\ stdio' = OnData([stdio EXCEPT !.read = m], chunk, n)

\* onEnd: the line the peer did not terminate, and a close after this turn.
OnEnd ==
  /\ ~stdio.closed /\ ~stdio.ended
  /\ stdio.read = Len(PeerText)
  /\ LET line == Trim(stdio.pending)
         ended == [stdio EXCEPT !.ended = TRUE, !.pending = <<>>]
     IN  stdio' = IF ExceedsMax(stdio.pending) THEN CloseStdio(ended)
                  ELSE [ended EXCEPT !.tasks = @ + 1,
                          !.delivered = IF line = <<>> THEN @ ELSE Append(@, line)]

\* onInputClose, after the end or without it.
OnInputClose ==
  /\ ~stdio.closed
  /\ stdio.tasks < 2
  /\ stdio' = [stdio EXCEPT !.tasks = @ + 1]

\* The microtask of onEnd and of onInputClose.
CloseTask ==
  /\ stdio.tasks > 0
  /\ stdio' = CloseStdio([stdio EXCEPT !.tasks = @ - 1])

\* onInputError and onOutputError; close() of the owner.
StreamFails == ~stdio.closed /\ stdio' = CloseStdio(stdio)

\* StdioLink.close and the close of what StdioHandler.bind returned.
StdioOwnerCloses == ~stdio.closed /\ stdio' = CloseStdio(stdio)

\* send: write() takes the text, takes it and reports its mark, or throws.
StdioSend ==
  /\ ~stdio.closed
  /\ stdio.taken < MaxStdioTexts
  /\ LET written == [stdio EXCEPT !.taken = @ + 1]
     IN  stdio' \in {written, [written EXCEPT !.drainWaiters = @ + 1],
                     CloseStdio(stdio)}

OnDrain ==
  /\ ~stdio.closed /\ stdio.drainWaiters > 0
  /\ stdio' = [stdio EXCEPT !.drainWaiters = 0]

StdioPause ==
  ~stdio.closed /\ stdio.flowing /\ stdio' = [stdio EXCEPT !.flowing = FALSE]

StdioResume ==
  ~stdio.closed /\ ~stdio.flowing /\ stdio' = [stdio EXCEPT !.flowing = TRUE]

StdioNext ==
  \/ DataArrives \/ OnEnd \/ OnInputClose \/ CloseTask \/ StreamFails
  \/ StdioOwnerCloses \/ StdioSend \/ OnDrain \/ StdioPause \/ StdioResume

StdioSpec == StdioInit /\ [][StdioNext]_stdio

StdioPipe == INSTANCE DuplexPipe WITH
  taken <- stdio.taken, arrived <- [i \in 1 .. stdio.taken |-> i],
  parked <- stdio.drainWaiters, open <- ~stdio.closed, told <- stdio.told

-----------------------------------------------------------------------------
\* However the peer's bytes are cut into chunks, the texts delivered are its
\* lines in order, the end of the stream ending one too: all of those read,
\* unless a handler or an error closed.
LinesReassembled ==
  LET read == SubSeq(PeerText, 1, stdio.read)
              \o (IF stdio.ended THEN <<"nl">> ELSE <<>>)
  IN  /\ AreFirstLines(stdio.delivered, read)
      /\ ~stdio.closed => AreLinesOf(stdio.delivered, read)
=============================================================================
