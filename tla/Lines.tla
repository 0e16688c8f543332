------------------------------- MODULE Lines --------------------------------
(***************************************************************************)
(* Newline-delimited texts.  A text is a sequence of tokens; "nl" ends a   *)
(* line and trim() removes " " and "cr".  NextLines is the loop of         *)
(* stdio.ts and jsonl.ts over what is buffered; LineEnds and LineAt say    *)
(* what the lines of a text are, by the places of its newlines.            *)
(***************************************************************************)
EXTENDS Naturals, Sequences, FiniteSetsExt, SequencesExt

\* trim() of a line.
Trim(line) ==
  LET ink == {i \in DOMAIN line : line[i] \notin {" ", "cr"}}
  IN  IF ink = {} THEN <<>> ELSE SubSeq(line, Min(ink), Max(ink))

\* One token more: the complete lines so far and the line that is not.
NextToken(acc, t) ==
  IF t # "nl" THEN [acc EXCEPT !.rest = Append(@, t)]
  ELSE [lines |-> IF Trim(acc.rest) = <<>> THEN acc.lines
                  ELSE Append(acc.lines, Trim(acc.rest)),
        rest |-> <<>>]

NextLines(buffer) ==
  LET after[i \in 0 .. Len(buffer)] ==
        IF i = 0 THEN [lines |-> <<>>, rest |-> <<>>]
        ELSE NextToken(after[i - 1], buffer[i])
  IN  after[Len(buffer)]

-----------------------------------------------------------------------------
\* The first place after the last newline before place i.
LineStart(text, i) == 1 + Max({0} \cup {j \in 1 .. i - 1 : text[j] = "nl"})

\* The line that a newline at place i ends.
LineAt(text, i) == Trim(SubSeq(text, LineStart(text, i), i - 1))

\* The newlines that end a line with something on it.
LineEnds(text) ==
  {i \in DOMAIN text : text[i] = "nl" /\ LineAt(text, i) # <<>>}

\* How many lines a text has up to place i.
LinesUpTo(text, i) == Cardinality({j \in LineEnds(text) : j <= i})

\* lines are the lines of a text in order, from the first to some line.
AreFirstLines(lines, text) ==
  /\ Len(lines) <= LinesUpTo(text, Len(text))
  /\ \A i \in LineEnds(text) :
       LinesUpTo(text, i) <= Len(lines) => lines[LinesUpTo(text, i)] = LineAt(text, i)

AreLinesOf(lines, text) ==
  AreFirstLines(lines, text) /\ Len(lines) = LinesUpTo(text, Len(text))
=============================================================================
