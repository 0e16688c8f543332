----------------------------- MODULE ItemStream -----------------------------
(***************************************************************************)
(* A stream of items over one HTTP body: encodeJsonl and readJsonlLines    *)
(* (stream/src/jsonl.ts) or encodeSse and readSseEvents (sse/src/sse.ts),  *)
(* under StreamCodec, SseCodec and the item schema of stream/src/schema.ts.*)
(* The sender pulls items from the user's iterator and writes text; the    *)
(* network hands it on in chunks that end anywhere, or breaks; the reader  *)
(* puts lines, events and items together for the user's loop.              *)
(*                                                                         *)
(* A text is a sequence of tokens.  An item is the line                    *)
(* <<"{", item, "}">>, a failure the line <<"!", code>>.                   *)
(***************************************************************************)
EXTENDS Lines

CONSTANTS Items,      \* the items of a stream that runs to its end
          Newlines,   \* how lines end: the code's "nl", or "cr" and "nl"
          MaxTicks,   \* bounds of the model: keep-alive comments, and
          MaxWire     \* tokens under way above which nothing is pulled

\* JSON text has no line end in it and is not trimmed.
ASSUME StreamAssumption ==
  /\ Items \in Seq(STRING \ {"nl", "cr", " "})
  /\ Newlines \subseteq {<<"nl">>, <<"cr", "nl">>}
  /\ MaxTicks \in Nat /\ MaxWire \in Nat

VARIABLES framing,    \* of the body: "jsonl" or "sse"
          direction,  \* "input" of a call, jsonl only, or "output"
          newline,
          producer,   \* the user's iterator
          sent,       \* items it gave
          over,       \* the sender's stream is closed or cancelled
          timer,      \* its keep-alive timer runs
          ticks,
          wire,       \* text written and not read
          pipe,       \* "open", "cut" as if it had ended, or "broken"
          reader,     \* what the reader has put together
          consumer,   \* the user's loop
          got         \* items it got

streamVars == <<framing, direction, newline, producer, sent, over, timer, ticks,
                wire, pipe, reader, consumer, got>>
sender == <<producer, sent, over, timer, ticks>>
receiver == <<reader, consumer, got>>
setting == <<framing, direction, newline>>

ItemLine(item) == <<"{", item, "}">>
FailureLine(code) == <<"!", code>>

\* encodeEvent, COMMENT, CLOSE_EVENT, and a line of encodeJsonl.
Event(type, line) == <<"event:", type>> \o newline \o <<"data:">> \o line
                     \o newline \o newline
Comment == <<":">> \o newline \o newline
CloseEvent == <<"event:", "close">> \o newline \o newline
Written(type, line) == IF framing = "sse" THEN Event(type, line) ELSE line \o newline

StreamTypeOK ==
  /\ framing \in {"jsonl", "sse"} /\ direction \in {"input", "output"}
  /\ producer \in {"idle", "running", "done", "threw", "returning", "returned",
                   "left", "unwritten"}
  /\ over \in BOOLEAN /\ timer \in BOOLEAN /\ ticks \in 0 .. MaxTicks
  /\ pipe \in {"open", "cut", "broken"}
  /\ consumer \in {"reading", "holding", "stopped", "end", "INTERNAL", "VALIDATION",
                   "BAD_REQUEST", "truncated", "raw", "unread"}

\* The codecs: SseCodec writes an output as sse and reads both, everything else
\* is StreamCodec's.
Codecs == {"StreamCodec", "SseCodec"}
FramingOf(codec, dir) == IF codec = "SseCodec" /\ dir = "output" THEN "sse" ELSE "jsonl"
Opens(codec, type, dir) == type = "jsonl" \/ (codec = "SseCodec" /\ dir = "output")

\* A body that its reader's codec opens; another is BAD_REQUEST at once.
StreamInit ==
  /\ direction \in {"input", "output"} /\ newline \in Newlines
  /\ \E writes \in Codecs, reads \in Codecs :
       /\ framing = FramingOf(writes, direction)
       /\ consumer = IF Opens(reads, framing, direction) THEN "reading" ELSE "unread"
  /\ producer = "idle" /\ sent = <<>> /\ over = FALSE /\ ticks = 0
  /\ timer = (framing = "sse")
  /\ wire = (IF framing = "sse" THEN Comment ELSE <<>>)
  /\ pipe = "open" /\ got = <<>>
  /\ reader = [buffer |-> <<>>, ready |-> <<>>, data |-> <<>>, event |-> "message"]

-----------------------------------------------------------------------------
(* The sender *)

Pull ==
  /\ producer = "idle" /\ ~over /\ Len(wire) <= MaxWire
  /\ producer' = "running"
  /\ UNCHANGED <<sent, over, timer, ticks, wire>>

\* Text goes out, unless the stream was cancelled: enqueue() then throws.
Write(text) == wire' = IF over \/ pipe # "open" THEN wire ELSE wire \o text
Over == over' = TRUE /\ timer' = FALSE

\* How a stream fails: its iterator throws; the item schema refuses an item,
\* whose loop then returns the iterator; an item is a stream or a file, or
\* writeLine throws on what JSON cannot hold, and nobody returns the iterator.
Thrown == <<"threw", "INTERNAL">>
InvalidItem == <<"returned", "VALIDATION">>
NoItem == <<"left", "BAD_REQUEST">>
Unwritable == <<"unwritten", "INTERNAL">>

\* What the iterator's next() comes to; a failure becomes the last line.
Produce ==
  /\ producer = "running"
  /\ \/ /\ Len(sent) < Len(Items)
        /\ sent' = Append(sent, Items[Len(sent) + 1]) /\ producer' = "idle"
        /\ Write(Written("message", ItemLine(Items[Len(sent) + 1])))
        /\ UNCHANGED <<over, timer>>
     \/ /\ Len(sent) = Len(Items)
        /\ Write(IF framing = "sse" THEN CloseEvent ELSE <<>>)
        /\ producer' = "done" /\ Over /\ UNCHANGED sent
     \/ \E end \in {Thrown, InvalidItem, NoItem, Unwritable} :
          /\ producer' = end[1] /\ Over /\ UNCHANGED sent
          /\ Write(Written("error", FailureLine(end[2])))
  /\ UNCHANGED ticks

\* An iterator that is asked to return ends as soon as it can.
Returns ==
  /\ producer = "returning"
  /\ producer' = "returned" /\ UNCHANGED <<sent, over, timer, ticks, wire>>

Tick ==
  /\ timer /\ ticks < MaxTicks
  /\ ticks' = ticks + 1 /\ Write(Comment)
  /\ UNCHANGED <<producer, sent, over, timer>>

\* Mutant of Cancel: the iterator is left where it is.
CancelOnly ==
  /\ pipe = "broken" /\ ~over
  /\ Over /\ UNCHANGED <<producer, sent, ticks, wire>>

\* cancel(): the reader cancelled the body, or the connection is gone.
Cancel ==
  /\ pipe = "broken" /\ ~over
  /\ Over
  /\ producer' = IF producer \in {"idle", "running"} THEN "returning" ELSE producer
  /\ UNCHANGED <<sent, ticks, wire>>

-----------------------------------------------------------------------------
(* The network *)

\* It drops what is under way after some token: the reader sees a clean end
\* (a proxy that closes the body) or a failure.
Cut ==
  /\ pipe = "open" /\ consumer \in {"reading", "holding"}
  /\ \E k \in 0 .. Len(wire) : wire' = SubSeq(wire, 1, k)
  /\ pipe' \in {"cut", "broken"}
  /\ UNCHANGED <<sender, receiver>>

\* A body that was cut is cancelled at the sender, too, sooner or later.
CutNoticed ==
  /\ pipe = "cut" /\ wire = <<>> /\ consumer \notin {"reading", "holding"}
  /\ pipe' = "broken" /\ UNCHANGED <<sender, receiver, wire>>

-----------------------------------------------------------------------------
(* The reader *)

\* splitLines: a "cr" at the end may be half of a line end.
NextChar(acc, t) ==
  CASE t = "nl" -> [lines |-> Append(acc.lines, acc.rest), rest |-> <<>>, cr |-> FALSE]
    [] t # "nl" /\ acc.cr -> [lines |-> Append(acc.lines, acc.rest),
                              rest |-> IF t = "cr" THEN <<>> ELSE <<t>>, cr |-> t = "cr"]
    [] t = "cr" /\ ~acc.cr -> [acc EXCEPT !.cr = TRUE]
    [] OTHER -> [acc EXCEPT !.rest = Append(@, t)]
SplitLines(buffer) ==
  LET after[i \in 0 .. Len(buffer)] ==
        IF i = 0 THEN [lines |-> <<>>, rest |-> <<>>, cr |-> FALSE]
        ELSE NextChar(after[i - 1], buffer[i])
      end == after[Len(buffer)]
  IN  [lines |-> end.lines, rest |-> IF end.cr THEN Append(end.rest, "cr") ELSE end.rest]

\* dispatch, then processLine.
Dispatch(r) ==
  [r EXCEPT !.data = <<>>, !.event = "message",
            !.ready = IF r.event # "close" /\ r.data = <<>> THEN @
                      ELSE Append(@, <<r.event, r.data>>)]
ProcessLine(r, line) ==
  CASE line = <<>> -> Dispatch(r)
    [] line # <<>> /\ line[1] = "event:" -> [r EXCEPT !.event = line[2]]
    [] line # <<>> /\ line[1] = "data:" -> [r EXCEPT !.data = @ \o Tail(line)]
    [] OTHER -> r
ProcessLines(r, lines) ==
  LET after[i \in 0 .. Len(lines)] ==
        IF i = 0 THEN r ELSE ProcessLine(after[i - 1], lines[i])
  IN  after[Len(lines)]

\* A chunk: the lines or events it completes.
WithChunk(r, chunk) ==
  LET text == r.buffer \o chunk
  IN  IF framing = "jsonl"
      THEN LET next == NextLines(text)
           IN  [r EXCEPT !.buffer = next.rest,
                         !.ready = [i \in DOMAIN next.lines |-> <<"message", next.lines[i]>>]]
      ELSE LET next == SplitLines(text)
           IN  ProcessLines([r EXCEPT !.buffer = next.rest], next.lines)

ReadChunk ==
  /\ consumer = "reading" /\ reader.ready = <<>>
  /\ \E k \in 1 .. Len(wire) :
       /\ reader' = WithChunk(reader, SubSeq(wire, 1, k))
       /\ wire' = SubSeq(wire, k + 1, Len(wire))
  /\ UNCHANGED <<consumer, got, pipe>>

\* decodeResponse, or decodeRequest, of one line: an item, or the code of the
\* error that it throws.
DecodedItem(line) ==
  CASE Len(line) = 3 /\ line[1] = "{" /\ line[3] = "}" -> [item |-> line[2]]
    [] Len(line) = 2 /\ line[1] = "!" /\ direction = "output" -> [code |-> line[2]]
    [] OTHER -> [code |-> "BAD_REQUEST"]

\* Leaving the loop: sse cancels the body, jsonl lets go of it.
Leave(how) ==
  /\ consumer' = how
  /\ pipe' = IF framing = "sse" /\ pipe = "open" /\ ~over THEN "broken" ELSE pipe

\* readOutputEvents, readOutputLines, readInputLines.
TakeEvent ==
  /\ consumer = "reading" /\ reader.ready # <<>>
  /\ reader' = [reader EXCEPT !.ready = Tail(@)]
  /\ LET type == reader.ready[1][1]
         decoded == DecodedItem(reader.ready[1][2])
     IN  IF type = "close" THEN Leave("end") /\ UNCHANGED got
         ELSE IF "code" \in DOMAIN decoded THEN Leave(decoded.code) /\ UNCHANGED got
         ELSE IF type = "error" THEN Leave("INTERNAL") /\ UNCHANGED got
         ELSE /\ got' = Append(got, decoded.item) /\ consumer' = "holding"
              /\ UNCHANGED pipe
  /\ UNCHANGED wire

\* Mutant of EndOfBody: an end is an end.
EndOfAnyBody ==
  /\ consumer = "reading" /\ reader.ready = <<>> /\ wire = <<>>
  /\ over \/ pipe # "open"
  /\ consumer' = IF pipe = "broken" THEN "raw" ELSE "end"
  /\ UNCHANGED <<reader, got, pipe, wire>>

\* read() says done, or rejects: sse has seen no close event, jsonl takes what
\* is left for a last line.
EndOfBody ==
  /\ consumer = "reading" /\ reader.ready = <<>> /\ wire = <<>>
  /\ over \/ pipe # "open"
  /\ IF pipe = "broken" THEN consumer' = "raw" /\ UNCHANGED <<reader, got>>
     ELSE IF framing = "sse" THEN consumer' = "truncated" /\ UNCHANGED <<reader, got>>
     ELSE IF Trim(reader.buffer) = <<>> THEN consumer' = "end" /\ UNCHANGED <<reader, got>>
     ELSE /\ reader' = [reader EXCEPT !.buffer = <<>>,
                                      !.ready = <<<<"message", Trim(reader.buffer)>>>>]
          /\ UNCHANGED <<consumer, got>>
  /\ UNCHANGED <<pipe, wire>>

\* The user's loop goes on, or breaks.
GoOn ==
  /\ consumer = "holding"
  /\ \/ consumer' = "reading" /\ UNCHANGED pipe
     \/ Leave("stopped")
  /\ UNCHANGED <<reader, got, wire>>

StreamNext ==
  /\ \/ (Pull \/ Produce \/ Returns \/ Tick \/ Cancel) /\ UNCHANGED <<receiver, pipe>>
     \/ Cut \/ CutNoticed
     \/ (ReadChunk \/ TakeEvent \/ EndOfBody \/ GoOn) /\ UNCHANGED sender
  /\ UNCHANGED setting

StreamSpec == StreamInit /\ [][StreamNext]_streamVars

-----------------------------------------------------------------------------
\* However the text is cut into chunks, the loop gets the items that were sent,
\* in order and each once; it ends normally only behind the last of them, unless
\* a jsonl body was cut; and it fails with a code only if the sender
\* wrote it (an input's failure arrives as BAD_REQUEST).
OutputIsFaithful ==
  /\ IsPrefix(got, sent)
  /\ consumer = "end" => \/ got = Items /\ producer = "done"
                         \/ framing = "jsonl" /\ pipe \in {"cut", "broken"}
  /\ consumer = "INTERNAL" => producer \in {"threw", "unwritten"}
  /\ consumer = "VALIDATION" => producer = "returned"
  /\ consumer = "BAD_REQUEST" =>
       \/ producer = "left" \/ direction = "input" \/ pipe \in {"cut", "broken"}
  /\ consumer = "truncated" => pipe \in {"cut", "broken"}

\* A stream that is over holds no timer, whichever way it got there, and its
\* iterator has ended or was told to.  The exception are iterators suspended at a
\* yield whose item could not be sent, a stream, a file, or what JSON cannot hold:
\* these are "left" and "unwritten", and stay so.
NothingHeldOpen ==
  over => ~timer /\ producer \notin {"idle", "running"}
=============================================================================
