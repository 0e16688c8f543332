-------------------------- MODULE ProcedureProofs --------------------------
(***************************************************************************)
(* Proofs about Procedure, for every chain that runtime.ts can build and   *)
(* any number of invocations.  A step starts one frame (Grows), settles    *)
(* one or lets one through the check (Keeps), so the parts of the          *)
(* invariant are shown for these three.  Then proofs about the two ends of *)
(* its use: the Implementer, where what a builder pushes onto is its own   *)
(* and what is shared does not change, and ToolCall, the MCP server's call *)
(* of a tool, for any tools, tokens and number of calls.                   *)
(***************************************************************************)
EXTENDS Procedure, Implementer, ToolCall, SequenceTheorems, FiniteSetTheorems, TLAPS

FrameType == [at : Nat, parent : Nat, run : Nat, input : Input,
              context : SUBSET Nat, signal : Nat, nexts : 0 .. 2,
              checking : BOOLEAN, result : Results]
RunType == [input : Input, context : SUBSET Nat, signal : Nat]

Around(f) == Kind(f) \in Interceptors

\* The tree of invocations.
ShapeOf(f) ==
  /\ frames[f].at \in DOMAIN chain
  /\ frames[f].parent \in 0 .. f - 1
  /\ frames[f].checking => Kind(f) = "input" /\ frames[f].result = None
  /\ frames[f].run \in 0 .. Len(runs)
  /\ Around(f) <=> frames[f].run = 0
  /\ Around(f) /\ frames[f].parent # 0 => Around(frames[f].parent)
  /\ ~Around(f) => \/ IsExecution(f)
                   \/ /\ frames[f].parent # 0
                      /\ frames[frames[f].parent].run = frames[f].run
Shape == \A f \in DOMAIN frames : ShapeOf(f)

\* A run is the execution below one invocation of next() and no other.
Executions ==
  /\ \A f \in DOMAIN frames :
       IF Around(f) THEN ExecutionOf(f) = {}
       ELSE \E e \in DOMAIN frames : /\ ExecutionOf(f) = {e}
                                     /\ frames[e].run = frames[f].run
  /\ \A e, d \in DOMAIN frames :
       IsExecution(e) /\ IsExecution(d) /\ frames[e].run = frames[d].run => e = d

\* Who may have contributed to what f sees.
Mates(f) == {g \in DOMAIN frames : frames[f].run # 0 /\ frames[g].run = frames[f].run}
Sources(f) == {Caller} \cup Ancestors(f) \cup Mates(f)

SeesOf(f, run) ==
  /\ run.input.by \in Sources(f)
  /\ run.context \subseteq Sources(f)
  /\ run.signal \in {Caller} \cup Ancestors(f)
  /\ run.input.parsed \in {0, frames[f].run}

Isolated ==
  \A f \in DOMAIN frames :
    /\ SeesOf(f, frames[f])
    /\ ~Around(f) => SeesOf(f, runs[frames[f].run])

\* The inputs of one run come from sources that all its frames have.
SameRun ==
  \A f, g \in DOMAIN frames :
    frames[f].run # 0 /\ frames[g].run = frames[f].run
      => frames[f].input.by \in Sources(g)

\* What an observer and an interceptor are told and pass on.
ThrownOf(f) ==
  frames[f].result.is = "bad" =>
    frames[f].result.by \in DOMAIN frames /\ Around(frames[f].result.by)
ToldOf(f) ==
  /\ frames[f].nexts = 0 => Children(f) = {}
  /\ \A c, d \in Children(f) : c = d
  /\ frames[f].result # None => \A c \in Children(f) :
       /\ frames[c].result # None
       /\ IsError(Answer(c)) => frames[f].result = Answer(c)
Final ==
  \A f \in DOMAIN frames :
    Around(f) => ThrownOf(f) /\ (Kind(f) \in Observers => ToldOf(f))

Inv ==
  /\ ProcedureTypeOK
  /\ frames # <<>>
  /\ Shape
  /\ Executions
  /\ Isolated /\ SameRun
  /\ Final

Past(f) ==
  /\ Kind(f) \in {"useAfter", "handler"}
  /\ \E i \in 1 .. frames[f].at : chain[i] = "input"

\* An input that passed the check of run n, or that a .useAfter() supplied.
Good(input, n) ==
  \/ input.parsed = n
  \/ input.by # Caller /\ Kind(input.by) = "useAfter"

\* The frame of an execution that can act now, where middleware does not hedge.
Leaf(f) == ~Around(f) /\ frames[f].result = None /\ Pending(f) = {}

OneLeaf ==
  \A f, g \in DOMAIN frames :
    Leaf(f) /\ Leaf(g) /\ frames[f].run = frames[g].run => f = g
ChecksOf(f) ==
  /\ ~Around(f) /\ frames[f].result # None => Pending(f) = {}
  /\ Children(f) # {} => Kind(f) \notin {"input", "handler"}
  /\ Past(f) => \A c \in Children(f) : Past(c)
  /\ Past(f) => Good(frames[f].input, frames[f].run)
  /\ Past(f) /\ Leaf(f) => Good(runs[frames[f].run].input, frames[f].run)
Checks == OneLeaf /\ \A f \in DOMAIN frames : ChecksOf(f)

-----------------------------------------------------------------------------
(* Chains *)

LEMMA ChainFacts ==
  ASSUME chain \in Chains, NEW i \in DOMAIN chain
  PROVE  /\ chain[i] \in Kinds
         /\ i \in Nat /\ i > 0
         /\ chain[i] # "handler" =>
              /\ i + 1 \in DOMAIN chain
              /\ chain[i] \notin Interceptors => chain[i + 1] \notin Interceptors
              /\ chain[i] = "input" => chain[i + 1] \in {"useAfter", "handler"}
              /\ chain[i] = "useAfter" => chain[i + 1] \in {"useAfter", "handler"}
<1>1. /\ chain \in Seq(Kinds)
      /\ \A j \in DOMAIN chain : chain[j] = "handler" <=> j = Len(chain)
      /\ \A j, k \in DOMAIN chain : j < k =>
           Stage(chain[j]) <= Stage(chain[k]) /\ ~(chain[j] = "input" /\ chain[k] = "input")
  BY ChainsAssumption
<1>2. /\ DOMAIN chain = 1 .. Len(chain) /\ Len(chain) \in Nat
      /\ \A j \in DOMAIN chain : chain[j] \in Kinds
  BY <1>1, LenProperties, ElementOfSeq
<1>3. ASSUME chain[i] # "handler"
      PROVE  i + 1 \in DOMAIN chain
  BY <1>1, <1>2, <1>3
<1>4. ASSUME NEW j \in DOMAIN chain, i < j
      PROVE  /\ Stage(chain[i]) <= Stage(chain[j])
             /\ ~(chain[i] = "input" /\ chain[j] = "input")
  BY <1>1, <1>4
<1>5. \A kind \in Kinds : /\ kind \in Interceptors <=> Stage(kind) = 1
                          /\ kind = "use" <=> Stage(kind) = 2
                          /\ kind = "input" <=> Stage(kind) = 3
                          /\ kind = "useAfter" <=> Stage(kind) = 4
                          /\ kind = "handler" <=> Stage(kind) = 5
                          /\ Stage(kind) \in 1 .. 5
  BY DEF Stage, Kinds, Interceptors, Observers
<1>6. ASSUME chain[i] # "handler"
      PROVE  /\ chain[i] \notin Interceptors => chain[i + 1] \notin Interceptors
             /\ chain[i] = "input" => chain[i + 1] \in {"useAfter", "handler"}
             /\ chain[i] = "useAfter" => chain[i + 1] \in {"useAfter", "handler"}
  <2>1. i + 1 \in DOMAIN chain /\ i < i + 1
    BY <1>2, <1>3, <1>6
  <2>2. /\ Stage(chain[i]) <= Stage(chain[i + 1])
        /\ ~(chain[i] = "input" /\ chain[i + 1] = "input")
    BY <1>4, <2>1
  <2>3. chain[i] \in Kinds /\ chain[i + 1] \in Kinds
    BY <1>2, <2>1
  <2> QED BY <1>5, <2>2, <2>3
<1> QED BY <1>2, <1>3, <1>6

\* Kinds that start a frame have a next one in the chain.
LEMMA KindFacts ==
  ASSUME ProcedureTypeOK, Shape, NEW f \in DOMAIN frames
  PROVE  /\ frames[f] \in FrameType
         /\ f \in Nat /\ f > 0
         /\ Kind(f) \in Kinds
         /\ frames[f].at \in Nat /\ frames[f].at > 0
         /\ Kind(f) # "handler" =>
              /\ frames[f].at + 1 \in DOMAIN chain
              /\ ~Around(f) => chain[frames[f].at + 1] \notin Interceptors
<1>1. frames \in Seq(FrameType) /\ chain \in Chains
  BY DEF ProcedureTypeOK, FrameType
<1>2. f \in Nat /\ f > 0 /\ frames[f] \in FrameType
  BY <1>1, LenProperties, ElementOfSeq
<1>3. frames[f].at \in DOMAIN chain
  BY DEF Shape, ShapeOf
<1> QED BY <1>1, <1>2, <1>3, ChainFacts DEF Kind, Around

-----------------------------------------------------------------------------
(* What a step does *)

\* A step starts frame x below f.
Grows(f, x) ==
  /\ frames' \in Seq(FrameType) /\ Len(frames') = Len(frames) + 1
  /\ x \in FrameType
  /\ frames'[Len(frames) + 1] = x
  /\ x.parent = f /\ x.result = None /\ x.nexts = 0
  /\ x.checking => chain[x.at] = "input"
  /\ \A g \in DOMAIN frames :
       /\ frames'[g].at = frames[g].at /\ frames'[g].parent = frames[g].parent
       /\ frames'[g].run = frames[g].run /\ frames'[g].input = frames[g].input
       /\ frames'[g].context = frames[g].context
       /\ frames'[g].signal = frames[g].signal
       /\ frames'[g].checking = frames[g].checking
       /\ frames'[g].result = frames[g].result
       /\ frames'[g].nexts = IF g = f THEN frames[g].nexts + 1 ELSE frames[g].nexts
  /\ chain' = chain

\* What f gives next(): what it has itself or what its execution has come to.
Given(f, see) ==
  LET old == IF Around(f) THEN frames[f] ELSE runs[frames[f].run]
  IN  /\ see.input = old.input \/ (see.input.by = f /\ see.input.parsed = 0)
      /\ see.context \subseteq old.context \cup {f}
      /\ see.signal = old.signal \/ (Around(f) /\ see.signal = f)

\* The three ways to start a frame: an interceptor or an execution below an
\* interceptor, and a middleware or the handler below a middleware.
StartsInterceptor(f, x) ==
  /\ Grows(f, x) /\ Around(f) /\ chain[x.at] \in Interceptors
  /\ x.run = 0 /\ runs' = runs /\ Given(f, x)

StartsExecution(f, x, run) ==
  /\ Grows(f, x) /\ Around(f) /\ chain[x.at] \notin Interceptors
  /\ run \in RunType /\ x.run = Len(runs) + 1 /\ runs' = Append(runs, run)
  /\ x.input = run.input /\ x.context = run.context /\ x.signal = run.signal
  /\ Given(f, run)

StartsInner(f, x, run) ==
  /\ Grows(f, x) /\ ~Around(f) /\ chain[x.at] \notin Interceptors
  /\ run \in RunType /\ x.run = frames[f].run
  /\ runs' = [runs EXCEPT ![x.run] = run]
  /\ x.input = run.input /\ x.context = run.context /\ x.signal = run.signal
  /\ Given(f, run)

StartsFrame(f) ==
  /\ Running(f)
  /\ Kind(f) \in Observers => frames[f].nexts = 0
  /\ \E x \in FrameType :
       /\ x.at = frames[f].at + 1 /\ x.at \in DOMAIN chain
       /\ \/ StartsInterceptor(f, x)
          \/ \E run \in RunType : StartsExecution(f, x, run) \/ StartsInner(f, x, run)

\* A step that settles f with r.
Settles(f, r) ==
  /\ r \in Results
  /\ frames[f].result = None
  /\ frames' \in Seq(FrameType) /\ DOMAIN frames' = DOMAIN frames
  /\ \A g \in DOMAIN frames :
       /\ frames'[g].at = frames[g].at /\ frames'[g].parent = frames[g].parent
       /\ frames'[g].run = frames[g].run /\ frames'[g].input = frames[g].input
       /\ frames'[g].context = frames[g].context
       /\ frames'[g].signal = frames[g].signal
       /\ frames'[g].nexts = frames[g].nexts
       /\ frames'[g].result = IF g = f THEN r ELSE frames[g].result
       /\ frames'[g].checking => frames[g].checking /\ g # f
  /\ UNCHANGED <<chain, runs>>

\* What the kinds may settle with.
SettlesFrame(f) ==
  \E r \in Results :
    /\ Settles(f, r)
    /\ Around(f) => \/ r.by = f
                    \/ \E c \in Children(f) : frames[c].result # None /\ r = Answer(c)
    /\ Kind(f) \in Observers =>
         \/ frames[f].nexts = 0
         \/ \E c \in Children(f) : /\ frames[c].result # None
                                   /\ IsError(Answer(c)) => r = Answer(c)

\* A step that lets f through the check.
Passes(f) ==
  /\ frames[f].checking
  /\ frames' \in Seq(FrameType) /\ DOMAIN frames' = DOMAIN frames
  /\ \A g \in DOMAIN frames \ {f} : frames'[g] = frames[g]
  /\ LET n == frames[f].run
         run == runs'[n]
     IN  /\ run = [runs[n] EXCEPT !.input = [frames[f].input EXCEPT !.parsed = n]]
         /\ runs' \in Seq(RunType) /\ DOMAIN runs' = DOMAIN runs
         /\ Len(runs') = Len(runs)
         /\ \A m \in DOMAIN runs \ {n} : runs'[m] = runs[m]
         /\ frames'[f].at = frames[f].at + 1
         /\ frames'[f].at \in DOMAIN chain
         /\ chain[frames'[f].at] \in {"useAfter", "handler"}
         /\ frames'[f].parent = frames[f].parent
         /\ frames'[f].run = n /\ frames'[f].input = run.input
         /\ frames'[f].context = run.context /\ frames'[f].signal = run.signal
         /\ frames'[f].nexts = frames[f].nexts
         /\ ~frames'[f].checking /\ frames'[f].result = None
  /\ chain' = chain

LEMMA GrowsAppend ==
  ASSUME ProcedureTypeOK, chain' = chain, NEW f \in DOMAIN frames, frames[f].nexts < 2,
         NEW x \in FrameType, x.parent = f, x.result = None, x.nexts = 0,
         x.checking => chain[x.at] = "input", frames' = Append(Called(f), x)
  PROVE  Grows(f, x)
<1>1. frames \in Seq(FrameType) /\ DOMAIN frames = 1 .. Len(frames) /\ Len(frames) \in Nat
  BY LenProperties DEF ProcedureTypeOK, FrameType
<1>2. frames[f] \in FrameType
  BY <1>1, ElementOfSeq
<1> DEFINE called == [frames[f] EXCEPT !.nexts = @ + 1]
<1>3. called \in FrameType /\ called.nexts = frames[f].nexts + 1
  <2>1. frames[f].nexts + 1 \in 0 .. 2
    BY <1>2 DEF FrameType
  <2> QED BY <1>2, <2>1 DEF FrameType
<1>4. /\ called.at = frames[f].at /\ called.parent = frames[f].parent
      /\ called.run = frames[f].run /\ called.input = frames[f].input
      /\ called.context = frames[f].context /\ called.signal = frames[f].signal
      /\ called.checking = frames[f].checking /\ called.result = frames[f].result
  BY <1>2 DEF FrameType
<1>5. Called(f) = [frames EXCEPT ![f] = called]
  BY DEF Called
<1> HIDE DEF called
<1>6. /\ Called(f) \in Seq(FrameType) /\ Len(Called(f)) = Len(frames)
      /\ \A g \in DOMAIN frames : Called(f)[g] = IF g = f THEN called ELSE frames[g]
  BY <1>1, <1>3, <1>5, ExceptSeq
<1>7. /\ frames' \in Seq(FrameType) /\ Len(frames') = Len(frames) + 1
      /\ frames'[Len(frames) + 1] = x
      /\ \A g \in DOMAIN frames : frames'[g] = Called(f)[g]
  BY <1>1, <1>6, AppendProperties
<1> QED BY <1>3, <1>4, <1>6, <1>7 DEF Grows

\* A frame as it starts: it sees what its execution has come to.
Entered(x, at, f, n, run) ==
  /\ x \in FrameType /\ x.at = at /\ x.parent = f /\ x.run = n
  /\ x.input = run.input /\ x.context = run.context /\ x.signal = run.signal
  /\ x.nexts = 0 /\ x.result = None
  /\ x.checking <=> chain[at] = "input"

LEMMA EnterFrame ==
  ASSUME NEW run \in RunType, NEW at \in Nat, NEW f \in Nat, NEW n \in Nat
  PROVE  Entered(Frame(at, f, n, run.input, run.context, run.signal), at, f, n, run)
<1> DEFINE checking == chain[at] = "input"
           x == [at |-> at, parent |-> f, run |-> n, input |-> run.input,
                 context |-> run.context, signal |-> run.signal, nexts |-> 0,
                 checking |-> checking, result |-> None]
<1>1. None \in Results
  BY DEF None, Results
<1>2. checking \in BOOLEAN /\ (checking <=> chain[at] = "input")
  OBVIOUS
<1>3. Frame(at, f, n, run.input, run.context, run.signal) = x
  BY DEF Frame
<1>4. run.input \in Input /\ run.context \in SUBSET Nat /\ run.signal \in Nat
  BY DEF RunType
<1> HIDE DEF checking
<1>5. x \in FrameType
  BY <1>1, <1>2, <1>4 DEF FrameType
<1> QED BY <1>2, <1>3, <1>5 DEF Entered

LEMMA GivenTypes ==
  ASSUME ProcedureTypeOK, Shape, NEW f \in DOMAIN frames, NEW opts \in Options,
         NEW input \in Input
  PROVE  /\ Passed(f, input, opts) \in Input
         /\ \/ Passed(f, input, opts) = input
            \/ Passed(f, input, opts).by = f /\ Passed(f, input, opts).parsed = 0
BY KindFacts DEF Passed, Input

LEMMA StartStep ==
  ASSUME ProcedureTypeOK, Shape, chain' = chain, NEW f \in DOMAIN frames,
         Around(f), Running(f), Kind(f) \in Observers => frames[f].nexts = 0,
         frames[f].nexts < 2,
         NEW input \in Input, NEW context \in SUBSET Nat, NEW signal \in Nat,
         input = frames[f].input \/ (input.by = f /\ input.parsed = 0),
         context \subseteq frames[f].context \cup {f},
         signal \in {frames[f].signal, f},
         Start(Called(f), frames[f].at + 1, f, input, context, signal)
  PROVE  StartsFrame(f)
<1> DEFINE at == frames[f].at + 1
           run == Execution(input, context, signal)
<1>1. /\ f \in Nat /\ f > 0 /\ at \in Nat /\ at \in DOMAIN chain
  BY KindFacts DEF Around, Interceptors, Observers
<1>2. /\ run \in RunType /\ run.input = input /\ run.context = context
      /\ run.signal = signal
  BY DEF Execution, RunType
<1>3. Given(f, run)
  BY <1>2 DEF Given
<1>4. runs \in Seq(RunType) /\ Len(runs) \in Nat
  BY LenProperties DEF ProcedureTypeOK, RunType
<1>0. Start(Called(f), at, f, input, context, signal) /\ at = frames[f].at + 1
  OBVIOUS
<1> HIDE DEF run, at
<1>5. CASE chain[at] \in Interceptors
  <2> DEFINE x == Frame(at, f, 0, run.input, run.context, run.signal)
  <2>1. Entered(x, at, f, 0, run)
    BY <1>1, <1>2, EnterFrame
  <2>2. frames' = Append(Called(f), x) /\ runs' = runs
    BY <1>0, <1>2, <1>5 DEF Start
  <2> HIDE DEF x
  <2>3. Grows(f, x)
    BY <2>1, <2>2, GrowsAppend DEF Entered
  <2>4. Given(f, x)
    BY <1>3, <2>1 DEF Given, Entered
  <2>5. StartsInterceptor(f, x)
    BY <1>5, <2>1, <2>2, <2>3, <2>4 DEF StartsInterceptor, Entered
  <2> QED BY <1>0, <1>1, <2>1, <2>5 DEF StartsFrame, Entered
<1>6. CASE chain[at] \notin Interceptors
  <2> DEFINE n == Len(runs) + 1
             x == Frame(at, f, n, run.input, run.context, run.signal)
  <2>0. n \in Nat /\ n = Len(runs) + 1
    BY <1>4
  <2> HIDE DEF n
  <2>1. Entered(x, at, f, n, run)
    BY <1>1, <1>2, <2>0, EnterFrame
  <2>5. Enter(Called(f), run, at, f, n) = Append(Called(f), x)
    BY DEF Enter
  <2>2. frames' = Append(Called(f), x) /\ runs' = Append(runs, run)
    BY <1>0, <1>6, <2>0, <2>5 DEF Start, run
  <2> HIDE DEF x, n
  <2>3. Grows(f, x)
    BY <2>1, <2>2, GrowsAppend DEF Entered
  <2>4. StartsExecution(f, x, run)
    BY <1>2, <1>3, <1>6, <2>0, <2>1, <2>2, <2>3 DEF StartsExecution, Entered
  <2> QED BY <1>0, <1>1, <1>2, <2>1, <2>4 DEF StartsFrame, Entered
<1> QED BY <1>5, <1>6

LEMMA InterceptorNextStep ==
  ASSUME ProcedureTypeOK, Shape, chain' = chain, NEW f \in DOMAIN frames,
         InterceptorNext(f)
  PROVE  StartsFrame(f)
<1>1. PICK opts \in Options :
        Start(Called(f), frames[f].at + 1, f, Passed(f, frames[f].input, opts),
              IF opts = "own" THEN {f} ELSE frames[f].context,
              IF opts = "own" THEN f ELSE frames[f].signal)
  BY DEF InterceptorNext
<1>2. frames[f] \in FrameType /\ f \in Nat
  BY KindFacts
<1>3. /\ frames[f].input \in Input /\ frames[f].context \in SUBSET Nat
      /\ frames[f].signal \in Nat
  BY <1>2 DEF FrameType
<1> DEFINE input == Passed(f, frames[f].input, opts)
           context == IF opts = "own" THEN {f} ELSE frames[f].context
           signal == IF opts = "own" THEN f ELSE frames[f].signal
<1>4. /\ input \in Input
      /\ input = frames[f].input \/ (input.by = f /\ input.parsed = 0)
  BY <1>3, GivenTypes
<1>5. /\ context \in SUBSET Nat /\ context \subseteq frames[f].context \cup {f}
      /\ signal \in Nat /\ signal \in {frames[f].signal, f}
  BY <1>2, <1>3
<1>6. Start(Called(f), frames[f].at + 1, f, input, context, signal)
  BY <1>1
<1>7. Around(f) /\ Running(f) /\ Kind(f) \notin Observers /\ frames[f].nexts < 2
  BY DEF InterceptorNext, MayCallNext, Around, Interceptors, Observers
<1> HIDE DEF input, context, signal
<1> QED BY <1>4, <1>5, <1>6, <1>7, StartStep

LEMMA MiddlewareNextStep ==
  ASSUME ProcedureTypeOK, Shape, chain' = chain, NEW f \in DOMAIN frames,
         MiddlewareNext(f)
  PROVE  StartsFrame(f)
<1> DEFINE n == frames[f].run
           at == frames[f].at + 1
           next(opts) == ApplyNext(runs[n], Passed(f, runs[n].input, opts),
                                   IF opts = "own" THEN {f} ELSE {})
<1>1. PICK opts \in Options :
        /\ runs' = [runs EXCEPT ![n] = next(opts)]
        /\ frames' = Enter(Called(f), next(opts), frames[f].at + 1, f, n)
  BY DEF MiddlewareNext
<1>2. /\ ~Around(f) /\ Running(f) /\ Kind(f) \notin Observers /\ frames[f].nexts < 2
      /\ Kind(f) # "handler"
  BY DEF MiddlewareNext, MayCallNext, Around, Interceptors, Observers
<1>3. /\ f \in Nat /\ f > 0 /\ at \in Nat /\ at \in DOMAIN chain
      /\ chain[at] \notin Interceptors /\ frames[f] \in FrameType
  BY <1>2, KindFacts
<1>4. runs \in Seq(RunType) /\ DOMAIN runs = 1 .. Len(runs) /\ Len(runs) \in Nat
  BY LenProperties DEF ProcedureTypeOK, RunType
<1>5. n \in DOMAIN runs /\ n \in Nat
  BY <1>2, <1>4 DEF Shape, ShapeOf
<1>6. runs[n] \in RunType
  BY <1>4, <1>5, ElementOfSeq
<1>7. runs[n].input \in Input /\ runs[n].context \in SUBSET Nat /\ runs[n].signal \in Nat
  BY <1>6 DEF RunType
<1> DEFINE input == Passed(f, runs[n].input, opts)
           added == IF opts = "own" THEN {f} ELSE {}
           run == ApplyNext(runs[n], input, added)
<1>8. /\ input \in Input
      /\ input = runs[n].input \/ (input.by = f /\ input.parsed = 0)
  BY <1>7, GivenTypes
<1>9. added \subseteq {f}
  OBVIOUS
<1>10. run = next(opts)
  OBVIOUS
<1> HIDE DEF input, added
<1>11. /\ run \in RunType /\ run.input = input /\ run.signal = runs[n].signal
       /\ run.context = runs[n].context \cup added
  BY <1>3, <1>6, <1>8, <1>9 DEF ApplyNext, RunType
<1>12. Given(f, run)
  BY <1>2, <1>8, <1>9, <1>11 DEF Given
<1>20. /\ runs' = [runs EXCEPT ![n] = run] /\ at = frames[f].at + 1
       /\ frames' = Enter(Called(f), run, at, f, n)
  BY <1>1, <1>10
<1> HIDE DEF run, at, next
<1> DEFINE x == Frame(at, f, n, run.input, run.context, run.signal)
<1>13. Entered(x, at, f, n, run)
  BY <1>3, <1>5, <1>11, EnterFrame
<1>14. runs' = [runs EXCEPT ![n] = run] /\ frames' = Append(Called(f), x)
  BY <1>20 DEF Enter
<1> HIDE DEF x
<1>15. Grows(f, x)
  BY <1>2, <1>13, <1>14, GrowsAppend DEF Entered
<1>16. StartsInner(f, x, run)
  BY <1>2, <1>3, <1>11, <1>12, <1>13, <1>14, <1>15 DEF StartsInner, Entered
<1> QED BY <1>2, <1>3, <1>11, <1>13, <1>16, <1>20 DEF StartsFrame, Entered

LEMMA AnswerType ==
  ASSUME ProcedureTypeOK, Shape, NEW c \in DOMAIN frames
  PROVE  Answer(c) \in Results
<1>1. frames[c].result \in Results
  BY KindFacts DEF FrameType
<1> QED BY <1>1 DEF Answer, Finalize, Results

LEMMA SettleStep ==
  ASSUME ProcedureTypeOK, Shape, chain' = chain, NEW f \in DOMAIN frames,
         Running(f), NEW r \in Results, SettleWith(f, r)
  PROVE  Settles(f, r)
<1>1. /\ frames \in Seq(FrameType) /\ DOMAIN frames = 1 .. Len(frames)
      /\ frames[f] \in FrameType /\ Len(frames) \in Nat
  BY KindFacts, LenProperties DEF ProcedureTypeOK, FrameType
<1> DEFINE y == [frames[f] EXCEPT !.result = r]
<1>2. /\ y \in FrameType /\ y.at = frames[f].at /\ y.parent = frames[f].parent
      /\ y.run = frames[f].run /\ y.input = frames[f].input
      /\ y.context = frames[f].context /\ y.signal = frames[f].signal
      /\ y.nexts = frames[f].nexts /\ y.result = r
      /\ y.checking <=> frames[f].checking
  BY <1>1 DEF FrameType
<1>3. frames' = [frames EXCEPT ![f] = y] /\ runs' = runs
  BY DEF SettleWith
<1> HIDE DEF y
<1>4. /\ frames' \in Seq(FrameType) /\ DOMAIN frames' = DOMAIN frames
      /\ \A g \in DOMAIN frames : frames'[g] = IF g = f THEN y ELSE frames[g]
  BY <1>1, <1>2, <1>3, ExceptSeq
<1> QED BY <1>2, <1>3, <1>4 DEF Settles, Running

LEMMA ObserverStartsStep ==
  ASSUME ProcedureTypeOK, Shape, chain' = chain, NEW f \in DOMAIN frames,
         ObserverStarts(f)
  PROVE  StartsFrame(f) \/ SettlesFrame(f)
<1>1. /\ Around(f) /\ Running(f) /\ frames[f].nexts = 0
      /\ Kind(f) \in Observers
  BY DEF ObserverStarts, Around, Interceptors
<1>2. frames[f] \in FrameType /\ f \in Nat /\ frames \in Seq(FrameType)
  BY KindFacts DEF ProcedureTypeOK, FrameType
<1>3. CASE Start(Called(f), frames[f].at + 1, f, frames[f].input,
                 frames[f].context, frames[f].signal)
  <2>1. /\ frames[f].input \in Input /\ frames[f].context \in SUBSET Nat
        /\ frames[f].signal \in Nat /\ frames[f].nexts < 2
    BY <1>1, <1>2 DEF FrameType
  <2> QED BY <1>1, <1>3, <2>1, StartStep
<1>4. CASE SettleWith(f, [is |-> "error", by |-> f])
  <2>1. [is |-> "error", by |-> f] \in Results
    BY <1>2 DEF Results
  <2>2. Settles(f, [is |-> "error", by |-> f])
    BY <1>1, <1>4, <2>1, SettleStep
  <2> QED BY <1>1, <2>1, <2>2 DEF SettlesFrame
<1> QED BY <1>3, <1>4 DEF ObserverStarts

LEMMA ObserverSettlesStep ==
  ASSUME ProcedureTypeOK, Shape, chain' = chain, NEW f \in DOMAIN frames,
         ObserverSettles(f)
  PROVE  SettlesFrame(f)
<1>1. Running(f) /\ f \in Nat
  BY KindFacts DEF ObserverSettles
<1> DEFINE hook == [is |-> "error", by |-> f]
<1>2. PICK c \in Children(f) \ Pending(f) :
        \E r \in ObserverResult(Kind(f), Answer(c), hook) : SettleWith(f, r)
  BY DEF ObserverSettles
<1>3. PICK r \in ObserverResult(Kind(f), Answer(c), hook) : SettleWith(f, r)
  BY <1>2
<1>4. hook \in Results /\ hook.by = f
  BY <1>1 DEF Results
<1> HIDE DEF hook
<1>5. r = Answer(c) \/ (r = hook /\ ~IsError(Answer(c)))
  BY <1>3 DEF ObserverResult
<1>6. c \in Children(f) /\ c \in DOMAIN frames /\ frames[c].result # None
  BY <1>2 DEF Children, Pending
<1>7. r \in Results
  BY <1>4, <1>5, <1>6, AnswerType
<1>8. Settles(f, r)
  BY <1>1, <1>3, <1>7, SettleStep
<1>9. r.by = f \/ r = Answer(c)
  BY <1>4, <1>5
<1>10. IsError(Answer(c)) => r = Answer(c)
  BY <1>5
<1> QED BY <1>6, <1>7, <1>8, <1>9, <1>10 DEF SettlesFrame

LEMMA UserSettlesStep ==
  ASSUME ProcedureTypeOK, Shape, chain' = chain, NEW f \in DOMAIN frames,
         UserSettles(f)
  PROVE  SettlesFrame(f)
<1>1. /\ Running(f) /\ f \in Nat /\ Kind(f) \notin Observers
  BY KindFacts DEF UserSettles, Observers
<1>2. PICK r \in {Answer(c) : c \in Children(f) \ Pending(f)}
                 \cup {[is |-> "bad", by |-> f]} : SettleWith(f, r)
  BY DEF UserSettles
<1>3. \/ \E c \in Children(f) : /\ c \in DOMAIN frames /\ frames[c].result # None
                                /\ r = Answer(c)
      \/ r = [is |-> "bad", by |-> f]
  BY <1>2 DEF Children, Pending
<1>4. r \in Results
  <2>1. [is |-> "bad", by |-> f] \in Results
    BY <1>1 DEF Results
  <2> QED BY <1>3, <2>1, AnswerType
<1>5. Settles(f, r)
  BY <1>1, <1>2, <1>4, SettleStep
<1>6. \/ \E c \in Children(f) : frames[c].result # None /\ r = Answer(c)
      \/ r.by = f
  BY <1>3
<1> QED BY <1>1, <1>4, <1>5, <1>6 DEF SettlesFrame

LEMMA HandlerSettlesStep ==
  ASSUME ProcedureTypeOK, Shape, chain' = chain, NEW f \in DOMAIN frames,
         HandlerSettles(f)
  PROVE  SettlesFrame(f)
<1>1. Running(f) /\ f \in Nat /\ ~Around(f) /\ Kind(f) \notin Observers
  BY KindFacts DEF HandlerSettles, Around, Observers, Interceptors
<1>2. PICK is \in {"value", "error", "bad"} : SettleWith(f, [is |-> is, by |-> f])
  BY DEF HandlerSettles
<1>3. [is |-> is, by |-> f] \in Results
  BY <1>1 DEF Results
<1>4. Settles(f, [is |-> is, by |-> f])
  BY <1>1, <1>2, <1>3, SettleStep
<1> QED BY <1>1, <1>3, <1>4 DEF SettlesFrame

\* The check: a frame of its execution goes on, or settles.
LEMMA CheckedStep ==
  ASSUME ProcedureTypeOK, Shape, chain' = chain, NEW f \in DOMAIN frames,
         Checked(f)
  PROVE  Passes(f) \/ SettlesFrame(f)
<1>1. /\ frames[f].checking /\ Kind(f) = "input" /\ frames[f].result = None
      /\ ~Around(f) /\ Kind(f) \notin Observers /\ Kind(f) # "handler"
  BY DEF Checked, Shape, ShapeOf, Around, Interceptors, Observers
<1>2. /\ frames[f] \in FrameType /\ f \in Nat /\ f > 0
      /\ frames[f].at \in Nat
      /\ frames[f].at + 1 \in DOMAIN chain
  BY <1>1, KindFacts
<1>3. chain[frames[f].at + 1] \in {"useAfter", "handler"}
  BY <1>1, ChainFacts DEF Kind, Shape, ShapeOf, ProcedureTypeOK
<1>4. /\ frames \in Seq(FrameType) /\ DOMAIN frames = 1 .. Len(frames)
      /\ runs \in Seq(RunType) /\ DOMAIN runs = 1 .. Len(runs) /\ Len(runs) \in Nat
  BY LenProperties DEF ProcedureTypeOK, FrameType, RunType
<1>5. frames[f].run \in DOMAIN runs /\ frames[f].run \in Nat
  BY <1>1, <1>4 DEF Shape, ShapeOf
<1>6. CASE frames[f].input.ok
  <2> DEFINE n == frames[f].run
             parsed == [frames[f].input EXCEPT !.parsed = n]
             run == [runs[n] EXCEPT !.input = parsed]
             x == Frame(frames[f].at + 1, frames[f].parent, n, parsed, run.context,
                        run.signal)
             y == [x EXCEPT !.nexts = frames[f].nexts]
  <2>1. runs' = [runs EXCEPT ![n] = run] /\ frames' = [frames EXCEPT ![f] = y]
    BY <1>6 DEF Checked
  <2>2. parsed \in Input /\ runs[n] \in RunType
    BY <1>2, <1>4, <1>5, ElementOfSeq DEF FrameType, Input
  <2>3. /\ run \in RunType /\ run.input = parsed
        /\ run = [runs[n] EXCEPT !.input = [frames[f].input EXCEPT !.parsed = n]]
    BY <2>2 DEF RunType
  <2>4. /\ frames[f].at + 1 \in Nat /\ frames[f].parent \in Nat
        /\ frames[f].nexts \in 0 .. 2
    BY <1>2 DEF FrameType
  <2> HIDE DEF parsed, run
  <2>5. x = Frame(frames[f].at + 1, frames[f].parent, n, run.input, run.context,
                  run.signal)
    BY <2>3
  <2> DEFINE at == frames[f].at + 1
             parent == frames[f].parent
  <2>6. at \in Nat /\ parent \in Nat /\ n \in Nat
    BY <1>5, <2>4
  <2> HIDE DEF at, parent, n
  <2>7. Entered(Frame(at, parent, n, run.input, run.context, run.signal),
                at, parent, n, run)
    BY <2>3, <2>6, EnterFrame
  <2>8. Entered(x, at, parent, n, run)
    BY <2>5, <2>7 DEF at, parent
  <2> HIDE DEF x
  <2>9. /\ y \in FrameType /\ y.at = at /\ y.parent = parent /\ y.run = n
        /\ y.input = run.input /\ y.context = run.context /\ y.signal = run.signal
        /\ y.nexts = frames[f].nexts /\ y.result = None
        /\ y.checking <=> chain[at] = "input"
    BY <2>4, <2>8 DEF Entered, FrameType
  <2> HIDE DEF y
  <2>10. /\ frames' \in Seq(FrameType) /\ DOMAIN frames' = DOMAIN frames
         /\ frames'[f] = y
         /\ \A g \in DOMAIN frames \ {f} : frames'[g] = frames[g]
    BY <1>4, <2>1, <2>9, ExceptSeq
  <2>11. n \in 1 .. Len(runs)
    BY <1>4, <1>5 DEF n
  <2>12. /\ runs' \in Seq(RunType) /\ DOMAIN runs' = DOMAIN runs
         /\ Len(runs') = Len(runs)
         /\ runs'[n] = run
         /\ \A m \in DOMAIN runs \ {n} : runs'[m] = runs[m]
    BY <1>4, <2>1, <2>3, <2>11, ExceptSeq
  <2>13. ~y.checking
    BY <1>3, <2>9 DEF at
  <2> QED BY <1>1, <1>2, <1>3, <2>3, <2>9, <2>10, <2>12, <2>13 DEF Passes, at, parent, n
<1>7. CASE ~frames[f].input.ok
  <2> DEFINE r == [is |-> "validation", by |-> f]
             y == [frames[f] EXCEPT !.checking = FALSE, !.result = r]
  <2>1. frames' = [frames EXCEPT ![f] = y] /\ runs' = runs
    BY <1>7 DEF Checked
  <2>2. r \in Results
    BY <1>2 DEF Results
  <2> HIDE DEF r
  <2>3. /\ y \in FrameType /\ y.at = frames[f].at /\ y.parent = frames[f].parent
        /\ y.run = frames[f].run /\ y.input = frames[f].input
        /\ y.context = frames[f].context /\ y.signal = frames[f].signal
        /\ y.nexts = frames[f].nexts /\ y.result = r /\ ~y.checking
    BY <1>2, <2>2 DEF FrameType
  <2> HIDE DEF y
  <2>4. /\ frames' \in Seq(FrameType) /\ DOMAIN frames' = DOMAIN frames
        /\ \A g \in DOMAIN frames : frames'[g] = IF g = f THEN y ELSE frames[g]
    BY <1>4, <2>1, <2>3, ExceptSeq
  <2>5. Settles(f, r)
    BY <1>1, <2>1, <2>2, <2>3, <2>4 DEF Settles
  <2> QED BY <1>1, <2>2, <2>5 DEF SettlesFrame
<1> QED BY <1>6, <1>7

LEMMA NextStep ==
  ASSUME ProcedureTypeOK, Shape, ProcedureNext
  PROVE  \E f \in DOMAIN frames : StartsFrame(f) \/ SettlesFrame(f) \/ Passes(f)
<1>1. chain' = chain
  BY DEF ProcedureNext
<1>2. PICK f \in DOMAIN frames :
        \/ InterceptorNext(f) \/ MiddlewareNext(f) \/ Checked(f)
        \/ UserSettles(f) \/ HandlerSettles(f)
        \/ ObserverStarts(f) \/ ObserverSettles(f)
  BY DEF ProcedureNext
<1> QED BY <1>1, <1>2, InterceptorNextStep, MiddlewareNextStep, CheckedStep,
           UserSettlesStep, HandlerSettlesStep, ObserverStartsStep, ObserverSettlesStep

-----------------------------------------------------------------------------
(* The tree *)

\* No step moves a frame in the tree.
TreeKept ==
  \A g \in DOMAIN frames :
    /\ g \in DOMAIN frames' /\ frames'[g].parent = frames[g].parent
    /\ Around(g)' <=> Around(g)

LEMMA AncestorsKept ==
  ASSUME ProcedureTypeOK, TreeKept, NEW g \in DOMAIN frames
  PROVE  Ancestors(g)' = Ancestors(g)
<1>1. DOMAIN frames = 1 .. Len(frames) /\ Len(frames) \in Nat
  BY LenProperties DEF ProcedureTypeOK
<1>2. 1 .. g - 1 \subseteq DOMAIN frames
  BY <1>1
<1>3. \A S \in SUBSET (1 .. g - 1) : Upward(S)' <=> Upward(S)
  BY <1>2 DEF Upward, TreeKept
<1>4. frames'[g].parent = frames[g].parent
  BY DEF TreeKept
<1> QED BY <1>3, <1>4 DEF Ancestors

\* The caller of a new frame and those above it are above the new frame.
LEMMA AncestorsNew ==
  ASSUME ProcedureTypeOK, Shape, TreeKept, NEW f \in DOMAIN frames,
         NEW n, n = Len(frames) + 1, frames'[n].parent = f
  PROVE  Ancestors(n)' = {f} \cup Ancestors(f)
<1>1. /\ DOMAIN frames = 1 .. Len(frames) /\ Len(frames) \in Nat
      /\ f \in 1 .. n - 1 /\ n - 1 = Len(frames)
  BY LenProperties, SMTT(30) DEF ProcedureTypeOK
<1>2. \A g \in DOMAIN frames : frames'[g].parent = frames[g].parent
  BY DEF TreeKept
<1>3. \A g \in DOMAIN frames : frames[g].parent \in 0 .. g - 1
  BY DEF Shape, ShapeOf
<1> DEFINE A == Ancestors(f)
           B == {f} \cup A
           closed == {S \in SUBSET (1 .. n - 1) : f \in S \cup {0} /\ Upward(S)'}
           below == {S \in SUBSET (1 .. f - 1) :
                       frames[f].parent \in S \cup {0} /\ Upward(S)}
<1>4. /\ A = {g \in 1 .. f - 1 : \A S \in below : g \in S}
      /\ Ancestors(n)' = {g \in 1 .. n - 1 : \A S \in closed : g \in S}
  BY DEF Ancestors
<1>5. B \in closed
  <2>1. A \subseteq 1 .. f - 1 /\ B \subseteq 1 .. n - 1
    BY <1>1, <1>4
  <2>2. ASSUME NEW g \in A
        PROVE  frames[g].parent \in A \cup {0}
    <3>1. g \in 1 .. f - 1 /\ \A S \in below : g \in S
      BY <1>4
    <3>2. frames[g].parent \in 0 .. g - 1
      BY <1>1, <1>3, <3>1
    <3>3. \A S \in below : frames[g].parent \in S \cup {0}
      BY <3>1 DEF Upward
    <3> QED BY <1>4, <3>1, <3>2, <3>3
  <2>3. frames[f].parent \in A \cup {0}
    <3>1. frames[f].parent \in 0 .. f - 1
      BY <1>3
    <3>2. \A S \in below : frames[f].parent \in S \cup {0}
      OBVIOUS
    <3> QED BY <1>1, <1>4, <3>1, <3>2
  <2>4. \A g \in B : frames'[g].parent \in B \cup {0}
    BY <1>1, <1>2, <2>1, <2>2, <2>3
  <2> QED BY <2>1, <2>4 DEF Upward
<1>6. ASSUME NEW S \in closed
      PROVE  f \in S /\ S \cap (1 .. f - 1) \in below
  <2>1. f \in S /\ S \subseteq 1 .. n - 1 /\ \A g \in S : frames'[g].parent \in S \cup {0}
    BY <1>1 DEF Upward
  <2>2. \A g \in S : frames[g].parent \in S \cup {0} /\ frames[g].parent \in 0 .. g - 1
    BY <1>1, <1>2, <1>3, <2>1
  <2> DEFINE T == S \cap (1 .. f - 1)
  <2>3. \A g \in T : frames[g].parent \in T \cup {0}
    <3> SUFFICES ASSUME NEW g \in T PROVE frames[g].parent \in T \cup {0}
      OBVIOUS
    <3>1. g \in S /\ g \in 1 .. f - 1 /\ f \in Nat
      BY <1>1
    <3>2. frames[g].parent \in S \cup {0} /\ frames[g].parent \in 0 .. g - 1
      BY <2>2, <3>1
    <3> QED BY <3>1, <3>2
  <2>4. frames[f].parent \in T \cup {0}
    <3>1. frames[f].parent \in S \cup {0} /\ frames[f].parent \in 0 .. f - 1
      BY <2>1, <2>2
    <3> QED BY <1>1, <3>1
  <2> QED BY <2>1, <2>3, <2>4 DEF Upward
<1>7. Ancestors(n)' \subseteq B
  BY <1>4, <1>5
<1>8. B \subseteq Ancestors(n)'
  <2> SUFFICES ASSUME NEW g \in B PROVE g \in Ancestors(n)'
    OBVIOUS
  <2>1. CASE g = f
    BY <1>1, <1>4, <1>6, <2>1
  <2>2. CASE g \in A
    <3>1. g \in 1 .. n - 1 /\ \A S \in below : g \in S
      BY <1>1, <1>4, <2>2
    <3>2. \A S \in closed : g \in S
      BY <1>6, <3>1
    <3> QED BY <1>4, <3>1, <3>2
  <2> QED BY <2>1, <2>2
<1> QED BY <1>7, <1>8

LEMMA ExecutionKept ==
  ASSUME ProcedureTypeOK, Shape, TreeKept, NEW g \in DOMAIN frames
  PROVE  /\ IsExecution(g)' <=> IsExecution(g)
         /\ ExecutionOf(g)' = ExecutionOf(g)
         /\ Ancestors(g) \subseteq DOMAIN frames /\ g \notin Ancestors(g)
<1>1. DOMAIN frames = 1 .. Len(frames) /\ Len(frames) \in Nat
  BY LenProperties DEF ProcedureTypeOK
<1>2. ASSUME NEW c \in DOMAIN frames
      PROVE  IsExecution(c)' <=> IsExecution(c)
  <2>1. frames[c].parent \in 0 .. c - 1 /\ c \in 1 .. Len(frames)
    BY <1>1 DEF Shape, ShapeOf
  <2>2. frames[c].parent = 0 \/ frames[c].parent \in DOMAIN frames
    BY <1>1, <2>1
  <2>3. PICK p : p = frames[c].parent /\ p = frames'[c].parent
    BY DEF TreeKept
  <2>4. IsExecution(c) <=> ~Around(c) /\ (p = 0 \/ Around(p))
    BY <2>3 DEF IsExecution, Around, Kind
  <2>5. IsExecution(c)' <=> ~Around(c)' /\ (p = 0 \/ Around(p)')
    BY <2>3 DEF IsExecution, Around, Kind
  <2>6. /\ Around(c)' <=> Around(c)
        /\ p # 0 => (Around(p)' <=> Around(p))
    BY <2>2, <2>3 DEF TreeKept
  <2> QED BY <2>4, <2>5, <2>6
<1>3. Ancestors(g) \subseteq DOMAIN frames /\ g \notin Ancestors(g)
  BY <1>1 DEF Ancestors
<1>4. Ancestors(g)' = Ancestors(g)
  BY AncestorsKept
<1>5. ExecutionOf(g)' = {c \in Ancestors(g) \cup {g} : IsExecution(c)'}
  BY <1>4 DEF ExecutionOf
<1> QED BY <1>2, <1>3, <1>5 DEF ExecutionOf

LEMMA GrowsTree ==
  ASSUME ProcedureTypeOK, Shape, NEW f \in DOMAIN frames, NEW x, Grows(f, x),
         NEW n, n = Len(frames) + 1
  PROVE  /\ TreeKept
         /\ DOMAIN frames' = DOMAIN frames \cup {n} /\ n \notin DOMAIN frames
         /\ n \in Nat /\ n > 0
         /\ \A g \in DOMAIN frames : Kind(g)' = Kind(g)
         /\ frames'[n] = x /\ Kind(n)' = chain[x.at]
         /\ Ancestors(n)' = {f} \cup Ancestors(f)
<1>1. DOMAIN frames = 1 .. Len(frames) /\ Len(frames) \in Nat
  BY LenProperties DEF ProcedureTypeOK
<1>2. DOMAIN frames' = 1 .. Len(frames') /\ Len(frames') = n
  BY LenProperties DEF Grows
<1>3. \A g \in DOMAIN frames : Kind(g)' = Kind(g)
  BY DEF Grows, Kind
<1>4. TreeKept
  BY <1>1, <1>2, <1>3 DEF TreeKept, Grows, Around
<1>5. frames'[n] = x /\ x.parent = f /\ Kind(n)' = chain[x.at]
  BY DEF Grows, Kind
<1>6. Ancestors(n)' = {f} \cup Ancestors(f)
  BY <1>4, <1>5, AncestorsNew
<1> QED BY <1>1, <1>2, <1>3, <1>4, <1>5, <1>6

LEMMA SettlesTree ==
  ASSUME ProcedureTypeOK, NEW f \in DOMAIN frames, NEW r, Settles(f, r)
  PROVE  TreeKept /\ \A g \in DOMAIN frames : Kind(g)' = Kind(g)
<1>1. \A g \in DOMAIN frames : Kind(g)' = Kind(g)
  BY DEF Settles, Kind
<1> QED BY <1>1 DEF Settles, TreeKept, Around

LEMMA PassesTree ==
  ASSUME ProcedureTypeOK, Shape, NEW f \in DOMAIN frames, Passes(f)
  PROVE  /\ TreeKept
         /\ \A g \in DOMAIN frames : g # f => Kind(g)' = Kind(g)
         /\ Kind(f) = "input" /\ ~Around(f) /\ Kind(f)' \in {"useAfter", "handler"}
         /\ frames[f].run \in DOMAIN runs /\ frames[f].run # 0
<1>1. \A g \in DOMAIN frames : g # f => Kind(g)' = Kind(g)
  BY DEF Passes, Kind
<1>2. Kind(f) = "input" /\ ~Around(f)
  BY DEF Passes, Shape, ShapeOf, Around, Interceptors, Observers
<1>3. Kind(f)' \in {"useAfter", "handler"} /\ ~Around(f)'
  BY DEF Passes, Kind, Around, Interceptors, Observers
<1>4. frames[f].run \in DOMAIN runs /\ frames[f].run # 0
  <2>1. DOMAIN runs = 1 .. Len(runs) /\ Len(runs) \in Nat
    BY LenProperties DEF ProcedureTypeOK
  <2> QED BY <1>2, <2>1 DEF Shape, ShapeOf
<1>5. TreeKept
  BY <1>1, <1>2, <1>3 DEF Passes, TreeKept, Around
<1> QED BY <1>1, <1>2, <1>3, <1>4, <1>5

-----------------------------------------------------------------------------
(* Types and shape *)

LEMMA StepType ==
  ASSUME ProcedureTypeOK, Shape, NEW f \in DOMAIN frames,
         StartsFrame(f) \/ SettlesFrame(f) \/ Passes(f)
  PROVE  ProcedureTypeOK'
<1>1. /\ frames \in Seq(FrameType) /\ runs \in Seq(RunType) /\ chain \in Chains
      /\ DOMAIN runs = 1 .. Len(runs) /\ Len(runs) \in Nat
  BY LenProperties DEF ProcedureTypeOK, FrameType, RunType
<1>2. /\ chain' = chain /\ frames' \in Seq(FrameType)
  BY DEF StartsFrame, StartsInterceptor, StartsExecution, StartsInner, Grows,
         SettlesFrame, Settles, Passes
<1>3. runs' \in Seq(RunType)
  <2>1. CASE Passes(f)
    BY <2>1 DEF Passes
  <2>2. CASE SettlesFrame(f)
    BY <1>1, <2>2 DEF SettlesFrame, Settles
  <2>3. ASSUME NEW x \in FrameType, StartsInterceptor(f, x) PROVE runs' \in Seq(RunType)
    BY <1>1, <2>3 DEF StartsInterceptor
  <2>4. ASSUME NEW x \in FrameType, NEW run \in RunType, StartsExecution(f, x, run)
        PROVE  runs' \in Seq(RunType)
    BY <1>1, <2>4, AppendProperties DEF StartsExecution
  <2>5. ASSUME NEW x \in FrameType, NEW run \in RunType, StartsInner(f, x, run)
        PROVE  runs' \in Seq(RunType)
    <3>1. x.run \in 1 .. Len(runs)
      BY <1>1, <2>5 DEF StartsInner, Shape, ShapeOf
    <3> QED BY <1>1, <2>5, <3>1, ExceptSeq DEF StartsInner
  <2> QED BY <2>1, <2>2, <2>3, <2>4, <2>5 DEF StartsFrame
<1> QED BY <1>1, <1>2, <1>3 DEF ProcedureTypeOK, FrameType, RunType

\* Where a frame was started, and the runs there are then.
LEMMA StartPlace ==
  ASSUME ProcedureTypeOK, Shape, NEW f \in DOMAIN frames, NEW x \in FrameType,
         \/ StartsInterceptor(f, x)
         \/ \E run \in RunType : StartsExecution(f, x, run) \/ StartsInner(f, x, run)
  PROVE  /\ Len(runs') \in Nat /\ Len(runs) \in Nat /\ Len(runs) <= Len(runs')
         /\ x.run \in 0 .. Len(runs')
         /\ x.run = 0 <=> chain[x.at] \in Interceptors
         /\ ~Around(f) => chain[x.at] \notin Interceptors /\ x.run = frames[f].run
<1>1. /\ runs \in Seq(RunType) /\ DOMAIN runs = 1 .. Len(runs) /\ Len(runs) \in Nat
  BY LenProperties DEF ProcedureTypeOK, RunType
<1>2. CASE StartsInterceptor(f, x)
  BY <1>1, <1>2 DEF StartsInterceptor
<1>3. ASSUME NEW run \in RunType, StartsExecution(f, x, run)
      PROVE  Len(runs') = Len(runs) + 1
  BY <1>1, <1>3, AppendProperties DEF StartsExecution
<1>4. ASSUME NEW run \in RunType, StartsInner(f, x, run)
      PROVE  Len(runs') = Len(runs) /\ x.run \in 1 .. Len(runs)
  <2>1. x.run \in 1 .. Len(runs)
    BY <1>1, <1>4 DEF StartsInner, Shape, ShapeOf
  <2> QED BY <1>1, <1>4, <2>1, ExceptSeq DEF StartsInner
<1> QED BY <1>1, <1>2, <1>3, <1>4 DEF StartsExecution, StartsInner

LEMMA StartShape ==
  ASSUME ProcedureTypeOK, Shape, NEW f \in DOMAIN frames, StartsFrame(f)
  PROVE  Shape'
<1>1. PICK x \in FrameType :
        /\ x.at \in DOMAIN chain
        /\ \/ StartsInterceptor(f, x)
           \/ \E run \in RunType : StartsExecution(f, x, run) \/ StartsInner(f, x, run)
  BY DEF StartsFrame
<1>2. Grows(f, x)
  BY <1>1 DEF StartsInterceptor, StartsExecution, StartsInner
<1>3. PICK n : n = Len(frames) + 1
  OBVIOUS
<1>4. /\ TreeKept
      /\ DOMAIN frames' = DOMAIN frames \cup {n} /\ n \notin DOMAIN frames
      /\ n \in Nat /\ n > 0
      /\ \A g \in DOMAIN frames : Kind(g)' = Kind(g)
      /\ frames'[n] = x /\ Kind(n)' = chain[x.at]
  BY <1>2, <1>3, GrowsTree
<1>5. /\ Len(runs') \in Nat /\ Len(runs) \in Nat /\ Len(runs) <= Len(runs')
      /\ x.run \in 0 .. Len(runs')
      /\ x.run = 0 <=> chain[x.at] \in Interceptors
      /\ ~Around(f) => chain[x.at] \notin Interceptors /\ x.run = frames[f].run
  BY <1>1, StartPlace
<1>6. DOMAIN frames = 1 .. Len(frames) /\ Len(frames) \in Nat /\ f \in 1 .. n - 1
  BY <1>3, LenProperties, SMTT(30) DEF ProcedureTypeOK
<1>7. ASSUME NEW g \in DOMAIN frames
      PROVE  ShapeOf(g)'
  <2>1. ShapeOf(g) /\ g \in Nat
    BY <1>6 DEF Shape
  <2>2. /\ frames'[g].at = frames[g].at /\ frames'[g].parent = frames[g].parent
        /\ frames'[g].run = frames[g].run
        /\ frames'[g].checking = frames[g].checking
        /\ frames'[g].result = frames[g].result
        /\ chain' = chain /\ Kind(g)' = Kind(g)
    BY <1>2, <1>4 DEF Grows
  <2>3. /\ IsExecution(g)' <=> IsExecution(g)
        /\ Around(g)' <=> Around(g)
    BY <1>4, ExecutionKept DEF TreeKept
  <2>4. PICK p : p = frames[g].parent /\ p = frames'[g].parent
    BY <2>2
  <2>5. p # 0 => p \in DOMAIN frames
    BY <1>6, <2>1, <2>4 DEF ShapeOf
  <2>6. p # 0 => frames'[p].run = frames[p].run /\ (Around(p)' <=> Around(p))
    BY <1>2, <1>4, <2>5 DEF Grows, TreeKept
  <2>7. frames'[g].run \in 0 .. Len(runs')
    BY <1>5, <2>1, <2>2 DEF ShapeOf
  <2> QED BY <2>1, <2>2, <2>3, <2>4, <2>6, <2>7 DEF ShapeOf
<1>8. ShapeOf(n)'
  <2>1. /\ x.parent = f /\ x.result = None /\ chain' = chain
        /\ x.checking => chain[x.at] = "input"
    BY <1>2 DEF Grows
  <2>2. Around(n)' <=> chain[x.at] \in Interceptors
    BY <1>4 DEF Around
  <2>3. Around(n)' => Around(f)
    BY <1>5, <2>2
  <2>4. f # 0 /\ f \in 0 .. n - 1
    BY <1>6
  <2>5. (Around(f)' <=> Around(f)) /\ frames'[f].run = frames[f].run
    BY <1>2, <1>4 DEF Grows, TreeKept
  <2>6. IsExecution(n)' <=> ~Around(n)' /\ Around(f)'
    BY <1>4, <2>1, <2>4 DEF IsExecution, Around, Kind
  <2>7. ~Around(n)' => IsExecution(n)' \/ frames'[f].run = x.run
    BY <1>5, <2>5, <2>6
  <2> QED BY <1>1, <1>4, <1>5, <2>1, <2>2, <2>3, <2>4, <2>5, <2>7 DEF ShapeOf
<1> QED BY <1>4, <1>7, <1>8 DEF Shape

LEMMA SettleShape ==
  ASSUME ProcedureTypeOK, Shape, NEW f \in DOMAIN frames, NEW r, Settles(f, r)
  PROVE  Shape'
<1>1. TreeKept /\ \A g \in DOMAIN frames : Kind(g)' = Kind(g)
  BY SettlesTree
<1>2. DOMAIN frames = 1 .. Len(frames) /\ Len(frames) \in Nat
  BY LenProperties DEF ProcedureTypeOK
<1>3. ASSUME NEW g \in DOMAIN frames
      PROVE  ShapeOf(g)'
  <2>1. ShapeOf(g) /\ g \in Nat
    BY <1>2 DEF Shape
  <2>2. /\ frames'[g].at = frames[g].at /\ frames'[g].parent = frames[g].parent
        /\ frames'[g].run = frames[g].run
        /\ frames'[g].checking => frames[g].checking /\ g # f
        /\ frames'[g].result = IF g = f THEN r ELSE frames[g].result
        /\ chain' = chain /\ Kind(g)' = Kind(g) /\ runs' = runs
    BY <1>1 DEF Settles
  <2>3. /\ IsExecution(g)' <=> IsExecution(g)
        /\ Around(g)' <=> Around(g)
    BY <1>1, ExecutionKept DEF TreeKept
  <2>4. PICK p : p = frames[g].parent /\ p = frames'[g].parent
    BY <2>2
  <2>5. p # 0 => p \in DOMAIN frames
    BY <1>2, <2>1, <2>4 DEF ShapeOf
  <2>6. p # 0 => frames'[p].run = frames[p].run /\ (Around(p)' <=> Around(p))
    BY <1>1, <2>5 DEF Settles, TreeKept
  <2> QED BY <2>1, <2>2, <2>3, <2>4, <2>6 DEF ShapeOf
<1> QED BY <1>3 DEF Shape, Settles

LEMMA PassShape ==
  ASSUME ProcedureTypeOK, Shape, NEW f \in DOMAIN frames, Passes(f)
  PROVE  Shape'
<1>1. /\ TreeKept
      /\ \A g \in DOMAIN frames : g # f => Kind(g)' = Kind(g)
  BY PassesTree
<1>2. DOMAIN frames = 1 .. Len(frames) /\ Len(frames) \in Nat
  BY LenProperties DEF ProcedureTypeOK
<1>3. Len(runs') = Len(runs)
  BY DEF Passes
<1>4. ASSUME NEW g \in DOMAIN frames
      PROVE  ShapeOf(g)'
  <2>1. ShapeOf(g) /\ g \in Nat
    BY <1>2 DEF Shape
  <2>2. /\ frames'[g].at \in DOMAIN chain /\ frames'[g].parent = frames[g].parent
        /\ frames'[g].run = frames[g].run
        /\ frames'[g].checking => Kind(g)' = "input" /\ frames'[g].result = None
        /\ chain' = chain
    BY <1>1, <2>1 DEF Passes, ShapeOf
  <2>3. /\ IsExecution(g)' <=> IsExecution(g)
        /\ Around(g)' <=> Around(g)
    BY <1>1, ExecutionKept DEF TreeKept
  <2>4. PICK p : p = frames[g].parent /\ p = frames'[g].parent
    BY <2>2
  <2>5. p # 0 => p \in DOMAIN frames
    BY <1>2, <2>1, <2>4 DEF ShapeOf
  <2>6. p # 0 => frames'[p].run = frames[p].run /\ (Around(p)' <=> Around(p))
    BY <1>1, <2>5 DEF Passes, TreeKept
  <2> QED BY <1>3, <2>1, <2>2, <2>3, <2>4, <2>6 DEF ShapeOf
<1> QED BY <1>4 DEF Shape, Passes

LEMMA StepShape ==
  ASSUME ProcedureTypeOK, Shape, NEW f \in DOMAIN frames,
         StartsFrame(f) \/ SettlesFrame(f) \/ Passes(f)
  PROVE  Shape'
BY StartShape, SettleShape, PassShape DEF SettlesFrame

-----------------------------------------------------------------------------
(* Executions *)

\* What every case of a started frame says of it.
LEMMA Started ==
  ASSUME ProcedureTypeOK, Shape, NEW f \in DOMAIN frames, StartsFrame(f),
         NEW n, n = Len(frames) + 1
  PROVE  \E x \in FrameType :
           /\ x.at = frames[f].at + 1 /\ x.at \in DOMAIN chain
           /\ Grows(f, x)
           /\ \/ StartsInterceptor(f, x)
              \/ \E run \in RunType : StartsExecution(f, x, run) \/ StartsInner(f, x, run)
           /\ TreeKept
           /\ DOMAIN frames' = DOMAIN frames \cup {n} /\ n \notin DOMAIN frames
           /\ n \in Nat /\ n > 0
           /\ \A g \in DOMAIN frames : Kind(g)' = Kind(g)
           /\ frames'[n] = x /\ Kind(n)' = chain[x.at]
           /\ Ancestors(n)' = {f} \cup Ancestors(f)
           /\ Around(n)' <=> x.run = 0
           /\ ~Around(f) => x.run = frames[f].run /\ ~Around(n)'
<1>1. PICK x \in FrameType :
        /\ x.at = frames[f].at + 1 /\ x.at \in DOMAIN chain
        /\ \/ StartsInterceptor(f, x)
           \/ \E run \in RunType : StartsExecution(f, x, run) \/ StartsInner(f, x, run)
  BY DEF StartsFrame
<1>2. Grows(f, x)
  BY <1>1 DEF StartsInterceptor, StartsExecution, StartsInner
<1>3. /\ TreeKept
      /\ DOMAIN frames' = DOMAIN frames \cup {n} /\ n \notin DOMAIN frames
      /\ n \in Nat /\ n > 0
      /\ \A g \in DOMAIN frames : Kind(g)' = Kind(g)
      /\ frames'[n] = x /\ Kind(n)' = chain[x.at]
      /\ Ancestors(n)' = {f} \cup Ancestors(f)
  BY <1>2, GrowsTree
<1>4. Around(n)' <=> chain[x.at] \in Interceptors
  BY <1>3 DEF Around
<1>5. /\ x.run = 0 <=> chain[x.at] \in Interceptors
      /\ ~Around(f) => chain[x.at] \notin Interceptors /\ x.run = frames[f].run
  BY <1>1, StartPlace
<1> QED BY <1>1, <1>2, <1>3, <1>4, <1>5

LEMMA StartExecutions ==
  ASSUME ProcedureTypeOK, Shape, Executions, NEW f \in DOMAIN frames, StartsFrame(f)
  PROVE  Executions'
<1>1. PICK n : n = Len(frames) + 1
  OBVIOUS
<1>2. PICK x \in FrameType :
        /\ Grows(f, x)
        /\ \/ StartsInterceptor(f, x)
           \/ \E run \in RunType : StartsExecution(f, x, run) \/ StartsInner(f, x, run)
        /\ TreeKept
        /\ DOMAIN frames' = DOMAIN frames \cup {n} /\ n \notin DOMAIN frames
        /\ n \in Nat /\ n > 0
        /\ frames'[n] = x
        /\ Ancestors(n)' = {f} \cup Ancestors(f)
        /\ Around(n)' <=> x.run = 0
        /\ ~Around(f) => x.run = frames[f].run /\ ~Around(n)'
  BY <1>1, Started
<1>3. \A g \in DOMAIN frames : /\ IsExecution(g)' <=> IsExecution(g)
                               /\ ExecutionOf(g)' = ExecutionOf(g)
                               /\ Around(g)' <=> Around(g)
                               /\ frames'[g].run = frames[g].run
                               /\ Ancestors(g) \subseteq DOMAIN frames
  BY <1>2, ExecutionKept DEF TreeKept, Grows
<1>4. ExecutionOf(n)' = ExecutionOf(f) \cup {c \in {n} : IsExecution(c)'}
  <2>1. ExecutionOf(n)' = {c \in {f} \cup Ancestors(f) \cup {n} : IsExecution(c)'}
    BY <1>2 DEF ExecutionOf
  <2>2. ExecutionOf(f) = {c \in Ancestors(f) \cup {f} : IsExecution(c)}
    BY DEF ExecutionOf
  <2> QED BY <1>3, <2>1, <2>2
<1>5. IsExecution(n)' <=> ~Around(n)' /\ Around(f)
  <2>1. frames'[n].parent = f /\ f # 0
    BY <1>2, KindFacts DEF Grows
  <2>2. IsExecution(n)' <=> ~Around(n)' /\ Around(f)'
    BY <2>1 DEF IsExecution, Around, Kind
  <2> QED BY <1>3, <2>2
<1>6. /\ Around(f) => ExecutionOf(f) = {}
      /\ ~Around(f) => \E e \in DOMAIN frames : /\ ExecutionOf(f) = {e}
                                                /\ frames[e].run = frames[f].run
  BY DEF Executions
<1>7. /\ Around(n)' => ExecutionOf(n)' = {}
      /\ ~Around(n)' => \E e \in DOMAIN frames' : /\ ExecutionOf(n)' = {e}
                                                  /\ frames'[e].run = frames'[n].run
  <2>1. CASE Around(n)'
    BY <1>2, <1>4, <1>5, <1>6, <2>1
  <2>2. CASE ~Around(n)' /\ Around(f)
    <3>1. ExecutionOf(n)' = {n}
      BY <1>4, <1>5, <1>6, <2>2
    <3> QED BY <1>2, <2>2, <3>1
  <2>3. CASE ~Around(n)' /\ ~Around(f)
    <3>1. ExecutionOf(n)' = ExecutionOf(f)
      BY <1>4, <1>5, <2>3
    <3>2. PICK e \in DOMAIN frames : ExecutionOf(f) = {e} /\ frames[e].run = frames[f].run
      BY <1>6, <2>3
    <3>3. frames'[e].run = frames'[n].run /\ e \in DOMAIN frames'
      BY <1>2, <1>3, <2>3, <3>2
    <3> QED BY <2>3, <3>1, <3>2, <3>3
  <2> QED BY <2>1, <2>2, <2>3
<1>8. ASSUME NEW g \in DOMAIN frames
      PROVE  IF Around(g)' THEN ExecutionOf(g)' = {}
             ELSE \E e \in DOMAIN frames' : /\ ExecutionOf(g)' = {e}
                                            /\ frames'[e].run = frames'[g].run
  BY <1>2, <1>3 DEF Executions
<1>9. ASSUME NEW e \in DOMAIN frames, IsExecution(n)'
      PROVE  frames[e].run # x.run
  <2>1. Around(f) /\ ~Around(n)'
    BY <1>5, <1>9
  <2>2. PICK run \in RunType : StartsExecution(f, x, run)
    BY <1>2, <2>1 DEF StartsInterceptor, StartsInner
  <2>3. x.run = Len(runs) + 1 /\ Len(runs) \in Nat
    BY <2>2, LenProperties DEF StartsExecution, ProcedureTypeOK
  <2> QED BY <2>3 DEF Shape, ShapeOf
<1>10. ASSUME NEW e \in DOMAIN frames', NEW d \in DOMAIN frames',
              IsExecution(e)', IsExecution(d)', frames'[e].run = frames'[d].run
       PROVE  e = d
  <2>1. CASE e \in DOMAIN frames /\ d \in DOMAIN frames
    BY <1>3, <1>10, <2>1 DEF Executions
  <2>2. CASE e = n /\ d \in DOMAIN frames
    BY <1>2, <1>3, <1>9, <1>10, <2>2
  <2>3. CASE d = n /\ e \in DOMAIN frames
    BY <1>2, <1>3, <1>9, <1>10, <2>3
  <2> QED BY <1>2, <2>1, <2>2, <2>3
<1>11. \A g \in DOMAIN frames' :
         IF Around(g)' THEN ExecutionOf(g)' = {}
         ELSE \E e \in DOMAIN frames' : /\ ExecutionOf(g)' = {e}
                                        /\ frames'[e].run = frames'[g].run
  BY <1>2, <1>7, <1>8
<1> QED BY <1>10, <1>11 DEF Executions

\* A step that starts no frame leaves the executions as they are.
LEMMA KeptExecutions ==
  ASSUME ProcedureTypeOK, Shape, Executions, TreeKept, DOMAIN frames' = DOMAIN frames,
         \A g \in DOMAIN frames : frames'[g].run = frames[g].run
  PROVE  Executions'
<1>1. \A g \in DOMAIN frames : /\ IsExecution(g)' <=> IsExecution(g)
                               /\ ExecutionOf(g)' = ExecutionOf(g)
                               /\ Around(g)' <=> Around(g)
  BY ExecutionKept DEF TreeKept
<1>2. \A g \in DOMAIN frames' :
        IF Around(g)' THEN ExecutionOf(g)' = {}
        ELSE \E e \in DOMAIN frames' : /\ ExecutionOf(g)' = {e}
                                       /\ frames'[e].run = frames'[g].run
  BY <1>1 DEF Executions
<1>3. \A e, d \in DOMAIN frames' :
        IsExecution(e)' /\ IsExecution(d)' /\ frames'[e].run = frames'[d].run => e = d
  BY <1>1 DEF Executions
<1> QED BY <1>2, <1>3 DEF Executions

-----------------------------------------------------------------------------
(* Isolation *)

\* What a frame saw stays within its sources as frames are added.
LEMMA SourcesGrow ==
  ASSUME ProcedureTypeOK, TreeKept, NEW g \in DOMAIN frames,
         \A h \in DOMAIN frames : frames'[h].run = frames[h].run
  PROVE  /\ Sources(g) \subseteq Sources(g)'
         /\ Ancestors(g)' = Ancestors(g)
         /\ \A see : SeesOf(g, see) => SeesOf(g, see)'
<1>1. Ancestors(g)' = Ancestors(g)
  BY AncestorsKept
<1>2. Mates(g) \subseteq Mates(g)'
  BY DEF Mates, TreeKept
<1>3. Sources(g) \subseteq Sources(g)'
  BY <1>1, <1>2 DEF Sources
<1>4. ASSUME NEW see, SeesOf(g, see) PROVE SeesOf(g, see)'
  BY <1>1, <1>3, <1>4 DEF SeesOf
<1> QED BY <1>1, <1>3, <1>4

\* What f gives next() stays within the sources of the frame it starts.
LEMMA GivenSources ==
  ASSUME ProcedureTypeOK, Shape, Isolated, NEW f \in DOMAIN frames, NEW x, Grows(f, x),
         NEW n, n = Len(frames) + 1, NEW see, Given(f, see),
         ~Around(f) => x.run = frames[f].run
  PROVE  SeesOf(n, see)'
<1> DEFINE old == IF Around(f) THEN frames[f] ELSE runs[frames[f].run]
<1>1. /\ see.input = old.input \/ (see.input.by = f /\ see.input.parsed = 0)
      /\ see.context \subseteq old.context \cup {f}
      /\ see.signal = old.signal \/ see.signal = f
  BY DEF Given
<1>2. SeesOf(f, old)
  BY DEF Isolated
<1> HIDE DEF old
<1>3. /\ TreeKept /\ frames'[n] = x
      /\ Ancestors(n)' = {f} \cup Ancestors(f)
  BY GrowsTree
<1>4. {f} \cup Sources(f) \subseteq Sources(n)'
  <2>1. Mates(f) \subseteq Mates(n)'
    <3>1. CASE Around(f)
      BY <3>1 DEF Mates, Shape, ShapeOf
    <3>2. CASE ~Around(f)
      BY <1>3, <3>2 DEF Mates, Grows, TreeKept
    <3> QED BY <3>1, <3>2
  <2> QED BY <1>3, <2>1 DEF Sources
<1>5. old.input.parsed \in {0, frames'[n].run}
  <2>1. CASE Around(f)
    BY <1>2, <2>1 DEF SeesOf, Shape, ShapeOf
  <2>2. CASE ~Around(f)
    BY <1>2, <1>3, <2>2 DEF SeesOf
  <2> QED BY <2>1, <2>2
<1> QED BY <1>1, <1>2, <1>3, <1>4, <1>5 DEF SeesOf

LEMMA StartIsolated ==
  ASSUME ProcedureTypeOK, Shape, Isolated, NEW f \in DOMAIN frames, StartsFrame(f)
  PROVE  Isolated'
<1>1. PICK n : n = Len(frames) + 1
  OBVIOUS
<1>2. PICK x \in FrameType :
        /\ Grows(f, x)
        /\ \/ StartsInterceptor(f, x)
           \/ \E run \in RunType : StartsExecution(f, x, run) \/ StartsInner(f, x, run)
        /\ TreeKept
        /\ DOMAIN frames' = DOMAIN frames \cup {n} /\ n \notin DOMAIN frames
        /\ frames'[n] = x
        /\ Ancestors(n)' = {f} \cup Ancestors(f)
        /\ Around(n)' <=> x.run = 0
        /\ ~Around(f) => x.run = frames[f].run /\ ~Around(n)'
  BY <1>1, Started
<1>3. \A g \in DOMAIN frames :
        /\ Around(g)' <=> Around(g)
        /\ frames'[g].run = frames[g].run /\ frames'[g].input = frames[g].input
        /\ frames'[g].context = frames[g].context
        /\ frames'[g].signal = frames[g].signal
  BY <1>2 DEF TreeKept, Grows
<1>4. \A g \in DOMAIN frames : \A see : SeesOf(g, see) => SeesOf(g, see)'
  BY <1>2, <1>3, SourcesGrow
<1>5. ASSUME NEW g \in DOMAIN frames
      PROVE  SeesOf(g, frames[g])' /\ (~Around(g) => SeesOf(g, runs[frames[g].run])
                                                     /\ frames[g].run \in 1 .. Len(runs))
  <2>1. SeesOf(g, frames[g]) /\ (~Around(g) => SeesOf(g, runs[frames[g].run]))
    BY DEF Isolated
  <2>2. PICK see : see = frames[g]
    OBVIOUS
  <2>3. SeesOf(g, see)'
    BY <1>4, <2>1, <2>2
  <2>4. SeesOf(g, frames[g])'
    BY <1>3, <2>2, <2>3 DEF SeesOf
  <2>5. ~Around(g) => frames[g].run \in 1 .. Len(runs)
    <3>1. ShapeOf(g) /\ Len(runs) \in Nat
      BY LenProperties DEF Shape, ProcedureTypeOK
    <3> QED BY <3>1 DEF ShapeOf
  <2>6. ~Around(g) => SeesOf(g, runs[frames[g].run])
    BY <2>1
  <2> QED BY <2>4, <2>5, <2>6
<1>6. /\ runs \in Seq(RunType) /\ DOMAIN runs = 1 .. Len(runs) /\ Len(runs) \in Nat
  BY LenProperties DEF ProcedureTypeOK, RunType
<1>7. CASE StartsInterceptor(f, x)
  <2>1. SeesOf(n, x)' /\ Around(n)'
    BY <1>1, <1>2, <1>7, GivenSources DEF StartsInterceptor
  <2>2. SeesOf(n, frames[n])'
    BY <1>2, <2>1 DEF SeesOf
  <2>3. ASSUME NEW g \in DOMAIN frames, ~Around(g) PROVE SeesOf(g, runs[frames[g].run])'
    <3>1. PICK see : see = runs[frames[g].run] /\ SeesOf(g, see)
      BY <1>5, <2>3
    <3>2. see = runs'[frames'[g].run] /\ SeesOf(g, see)'
      BY <1>3, <1>4, <1>7, <3>1 DEF StartsInterceptor
    <3> QED BY <3>2 DEF SeesOf
  <2> QED BY <1>2, <1>3, <1>5, <2>1, <2>2, <2>3 DEF Isolated
<1>8. ASSUME NEW run \in RunType, StartsExecution(f, x, run)
      PROVE  Isolated'
  <2>1. SeesOf(n, run)' /\ ~Around(n)'
    BY <1>1, <1>2, <1>6, <1>8, GivenSources DEF StartsExecution
  <2>2. SeesOf(n, frames[n])'
    BY <1>2, <1>8, <2>1 DEF SeesOf, StartsExecution
  <2>3. /\ runs'[x.run] = run
        /\ \A m \in 1 .. Len(runs) : runs'[m] = runs[m]
    BY <1>6, <1>8, AppendProperties DEF StartsExecution
  <2>4. SeesOf(n, runs[frames[n].run])'
    BY <1>2, <2>1, <2>3 DEF SeesOf
  <2>5. ASSUME NEW g \in DOMAIN frames, ~Around(g) PROVE SeesOf(g, runs[frames[g].run])'
    <3>1. PICK see : see = runs[frames[g].run] /\ SeesOf(g, see)
      BY <1>5, <2>5
    <3>2. see = runs'[frames'[g].run] /\ SeesOf(g, see)'
      BY <1>3, <1>4, <1>5, <2>3, <2>5, <3>1
    <3> QED BY <3>2 DEF SeesOf
  <2> QED BY <1>2, <1>3, <1>5, <2>2, <2>4, <2>5 DEF Isolated
<1>9. ASSUME NEW run \in RunType, StartsInner(f, x, run)
      PROVE  Isolated'
  <2>1. SeesOf(n, run)' /\ ~Around(n)' /\ ~Around(f) /\ x.run = frames[f].run
    BY <1>1, <1>2, <1>9, GivenSources DEF StartsInner
  <2>2. SeesOf(n, frames[n])'
    BY <1>2, <1>9, <2>1 DEF SeesOf, StartsInner
  <2>3. /\ runs'[x.run] = run
        /\ \A m \in DOMAIN runs : m # x.run => runs'[m] = runs[m]
    <3>1. x.run \in DOMAIN runs
      BY <1>5, <1>6, <2>1
    <3> QED BY <1>6, <1>9, <3>1, ExceptSeq DEF StartsInner
  <2>4. SeesOf(n, runs[frames[n].run])'
    BY <1>2, <2>1, <2>3 DEF SeesOf
  <2>5. ASSUME NEW g \in DOMAIN frames, ~Around(g) PROVE SeesOf(g, runs[frames[g].run])'
    <3>1. CASE frames[g].run # x.run
      <4>1. PICK see : see = runs[frames[g].run] /\ SeesOf(g, see)
        BY <1>5, <2>5
      <4>2. see = runs'[frames'[g].run] /\ SeesOf(g, see)'
        BY <1>3, <1>4, <1>5, <1>6, <2>3, <2>5, <3>1, <4>1
      <4> QED BY <4>2 DEF SeesOf
    <3>2. CASE frames[g].run = x.run
      <4> DEFINE old == runs[frames[f].run]
      <4>1. /\ run.input = old.input \/ (run.input.by = f /\ run.input.parsed = 0)
            /\ run.context \subseteq old.context \cup {f}
            /\ run.signal = old.signal
        BY <1>9 DEF StartsInner, Given
      <4>2. SeesOf(g, old)
        BY <1>5, <2>1, <2>5, <3>2
      <4> HIDE DEF old
      <4>3. f \in Sources(g)
        <5>1. frames[g].run # 0
          BY <2>5 DEF Shape, ShapeOf
        <5> QED BY <2>1, <3>2, <5>1 DEF Sources, Mates
      <4>4. SeesOf(g, run)
        BY <4>1, <4>2, <4>3 DEF SeesOf
      <4>5. SeesOf(g, run)' /\ runs'[frames'[g].run] = run
        BY <1>3, <1>4, <2>3, <3>2, <4>4
      <4> QED BY <4>5 DEF SeesOf
    <3> QED BY <3>1, <3>2
  <2> QED BY <1>2, <1>3, <1>5, <2>2, <2>4, <2>5 DEF Isolated
<1> QED BY <1>2, <1>7, <1>8, <1>9

\* Inputs of a run that has grown are among the sources of its new frame, and
\* the other way round.
LEMMA StartSameRun ==
  ASSUME ProcedureTypeOK, Shape, Isolated, SameRun, Isolated',
         NEW f \in DOMAIN frames, StartsFrame(f)
  PROVE  SameRun'
<1>1. PICK n : n = Len(frames) + 1
  OBVIOUS
<1>2. PICK x \in FrameType :
        /\ Grows(f, x)
        /\ \/ StartsInterceptor(f, x)
           \/ \E run \in RunType : StartsExecution(f, x, run) \/ StartsInner(f, x, run)
        /\ TreeKept
        /\ DOMAIN frames' = DOMAIN frames \cup {n} /\ n \notin DOMAIN frames
        /\ frames'[n] = x
        /\ Ancestors(n)' = {f} \cup Ancestors(f)
        /\ Around(n)' <=> x.run = 0
        /\ ~Around(f) => x.run = frames[f].run /\ ~Around(n)'
  BY <1>1, Started
<1>3. \A g \in DOMAIN frames :
        /\ frames'[g].run = frames[g].run /\ frames'[g].input = frames[g].input
        /\ Sources(g) \subseteq Sources(g)'
        /\ Around(g)' <=> Around(g)
        /\ Around(g) <=> frames[g].run = 0
  BY <1>2, SourcesGrow DEF Grows, TreeKept, Shape, ShapeOf
<1>4. \A g, h \in DOMAIN frames :
        frames'[g].run # 0 /\ frames'[h].run = frames'[g].run
          => frames'[g].input.by \in Sources(h)'
  BY <1>3 DEF SameRun
<1>5. x.input.by \in Sources(n)'
  BY <1>2 DEF Isolated, SeesOf
<1>6. ASSUME NEW g \in DOMAIN frames, x.run # 0, frames[g].run = x.run
      PROVE  x.input.by \in Sources(g)' /\ frames[g].input.by \in Sources(n)'
  <2>1. \A run \in RunType : ~StartsExecution(f, x, run)
    <3>1. Len(runs) \in Nat /\ frames[g].run \in 0 .. Len(runs)
      BY LenProperties DEF ProcedureTypeOK, Shape, ShapeOf
    <3> QED BY <1>6, <3>1 DEF StartsExecution
  <2>2. PICK run \in RunType : StartsInner(f, x, run)
    BY <1>2, <1>6, <2>1 DEF StartsInterceptor
  <2>3. /\ x.input = run.input /\ x.run = frames[f].run
        /\ runs' = [runs EXCEPT ![x.run] = run]
    BY <2>2 DEF StartsInner
  <2>4. x.run \in DOMAIN runs
    <3>1. DOMAIN runs = 1 .. Len(runs) /\ Len(runs) \in Nat
      BY LenProperties DEF ProcedureTypeOK
    <3> QED BY <1>6, <2>3, <3>1 DEF Shape, ShapeOf
  <2>5. runs'[x.run] = run
    BY <2>3, <2>4
  <2>6. run.input.by \in Sources(g)'
    <3>1. ~Around(g)' /\ g \in DOMAIN frames' /\ frames'[g].run = x.run
      BY <1>2, <1>3, <1>6
    <3>2. SeesOf(g, runs[frames[g].run])'
      BY <3>1 DEF Isolated
    <3> QED BY <2>5, <3>1, <3>2 DEF SeesOf
  <2>7. frames[g].input.by \in Sources(f)
    BY <1>6, <2>3 DEF SameRun
  <2>8. Sources(f) \subseteq Sources(n)'
    <3>1. Mates(f) \subseteq Mates(n)'
      BY <1>2, <1>3, <1>6, <2>3 DEF Mates
    <3> QED BY <1>2, <3>1 DEF Sources
  <2> QED BY <2>3, <2>6, <2>7, <2>8
<1> QED BY <1>2, <1>3, <1>4, <1>5, <1>6 DEF SameRun

\* A step that changes neither runs nor what frames see leaves them isolated.
LEMMA KeptIsolated ==
  ASSUME ProcedureTypeOK, Shape, Isolated, SameRun, TreeKept,
         DOMAIN frames' = DOMAIN frames, runs' = runs,
         \A g \in DOMAIN frames :
           /\ frames'[g].run = frames[g].run /\ frames'[g].input = frames[g].input
           /\ frames'[g].context = frames[g].context
           /\ frames'[g].signal = frames[g].signal
  PROVE  Isolated' /\ SameRun'
<1>2. \A g \in DOMAIN frames :
        /\ Around(g)' <=> Around(g)
        /\ frames'[g].run = frames[g].run /\ frames'[g].input = frames[g].input
        /\ frames'[g].context = frames[g].context
        /\ frames'[g].signal = frames[g].signal
  BY DEF TreeKept
<1>3. \A g \in DOMAIN frames :
        /\ Sources(g) \subseteq Sources(g)'
        /\ \A see : SeesOf(g, see) => SeesOf(g, see)'
  BY <1>2, SourcesGrow
<1>4. ASSUME NEW g \in DOMAIN frames
      PROVE  SeesOf(g, frames[g])' /\ (~Around(g)' => SeesOf(g, runs[frames[g].run])')
  <2>1. PICK see : see = frames[g] /\ SeesOf(g, see)'
    BY <1>3 DEF Isolated
  <2>2. SeesOf(g, frames[g])'
    BY <1>2, <2>1 DEF SeesOf
  <2>3. ASSUME ~Around(g)' PROVE SeesOf(g, runs[frames[g].run])'
    <3>1. SeesOf(g, runs[frames[g].run])
      BY <1>2, <2>3 DEF Isolated
    <3>2. PICK run : run = runs[frames[g].run] /\ SeesOf(g, run)'
      BY <1>3, <3>1
    <3> QED BY <1>2, <3>2 DEF SeesOf
  <2> QED BY <2>2, <2>3
<1>5. SameRun'
  BY <1>2, <1>3 DEF SameRun
<1> QED BY <1>2, <1>4, <1>5 DEF Isolated

LEMMA SettleIsolated ==
  ASSUME ProcedureTypeOK, Shape, Isolated, SameRun, NEW f \in DOMAIN frames, NEW r,
         Settles(f, r)
  PROVE  Isolated' /\ SameRun'
<1>1. TreeKept
  BY SettlesTree
<1> QED BY <1>1, KeptIsolated DEF Settles

LEMMA PassIsolated ==
  ASSUME ProcedureTypeOK, Shape, Isolated, SameRun, NEW f \in DOMAIN frames, Passes(f)
  PROVE  Isolated' /\ SameRun'
<1> DEFINE n == frames[f].run
<1>1. TreeKept /\ ~Around(f) /\ n \in DOMAIN runs /\ n # 0
  BY PassesTree
<1>2. /\ DOMAIN frames' = DOMAIN frames
      /\ \A g \in DOMAIN frames : /\ Around(g)' <=> Around(g)
                                  /\ frames'[g].run = frames[g].run
                                  /\ g # f => frames'[g] = frames[g]
      /\ \A m \in DOMAIN runs \ {n} : runs'[m] = runs[m]
  BY <1>1 DEF Passes, TreeKept
<1>3. PICK run : /\ run = runs'[n]
                 /\ run = [runs[n] EXCEPT !.input = [frames[f].input EXCEPT !.parsed = n]]
  BY DEF Passes
<1>4. /\ frames'[f].input = run.input /\ frames'[f].context = run.context
      /\ frames'[f].signal = run.signal
  BY <1>3 DEF Passes
<1>5. /\ run.input.by = frames[f].input.by /\ run.input.parsed = n
      /\ run.context = runs[n].context /\ run.signal = runs[n].signal
  <2>1. frames[f].input \in Input /\ runs[n] \in RunType
    <3>1. runs \in Seq(RunType)
      BY DEF ProcedureTypeOK, RunType
    <3> QED BY <1>1, <3>1, KindFacts, ElementOfSeq DEF FrameType
  <2> QED BY <1>3, <2>1 DEF Input, RunType
<1>6. \A g \in DOMAIN frames :
        /\ Sources(g) \subseteq Sources(g)'
        /\ \A see : SeesOf(g, see) => SeesOf(g, see)'
  BY <1>1, <1>2, SourcesGrow
<1> HIDE DEF n
<1>7. ASSUME NEW g \in DOMAIN frames, frames[g].run = n
      PROVE  SeesOf(g, run)'
  <2>1. SeesOf(g, runs[n]) /\ frames[f].input.by \in Sources(g)
    <3>1. ~Around(g)
      BY <1>1, <1>7 DEF Shape, ShapeOf
    <3> QED BY <1>1, <1>7, <3>1 DEF Isolated, SameRun, n
  <2>2. SeesOf(g, run)
    BY <1>5, <1>7, <2>1 DEF SeesOf
  <2> QED BY <1>6, <2>2
<1>8. ASSUME NEW g \in DOMAIN frames
      PROVE  SeesOf(g, frames[g])' /\ (~Around(g)' => SeesOf(g, runs[frames[g].run])')
  <2>1. CASE g = f
    <3>1. SeesOf(g, run)' /\ frames'[g].run = n
      BY <1>2, <1>7, <2>1 DEF n
    <3>2. SeesOf(g, frames[g])'
      BY <1>4, <2>1, <3>1 DEF SeesOf
    <3>3. SeesOf(g, runs[frames[g].run])'
      BY <1>3, <3>1 DEF SeesOf
    <3> QED BY <3>2, <3>3
  <2>2. CASE g # f
    <3>1. PICK see : see = frames[g] /\ SeesOf(g, see)'
      BY <1>6 DEF Isolated
    <3>2. SeesOf(g, frames[g])'
      BY <1>2, <2>2, <3>1 DEF SeesOf
    <3>3. ASSUME ~Around(g)' PROVE SeesOf(g, runs[frames[g].run])'
      <4>1. CASE frames[g].run = n
        <5>1. SeesOf(g, run)' /\ runs'[frames'[g].run] = run
          BY <1>2, <1>3, <1>7, <4>1
        <5> QED BY <5>1 DEF SeesOf
      <4>2. CASE frames[g].run # n
        <5>1. SeesOf(g, runs[frames[g].run]) /\ ShapeOf(g) /\ ~Around(g)
          BY <1>2, <3>3 DEF Isolated, Shape
        <5>2. DOMAIN runs = 1 .. Len(runs) /\ Len(runs) \in Nat
          BY LenProperties DEF ProcedureTypeOK
        <5>3. frames[g].run \in DOMAIN runs
          BY <5>1, <5>2 DEF ShapeOf
        <5>4. PICK old : old = runs[frames[g].run] /\ SeesOf(g, old)'
          BY <1>6, <5>1
        <5>5. runs'[frames'[g].run] = old
          BY <1>2, <4>2, <5>3, <5>4
        <5> QED BY <5>4, <5>5 DEF SeesOf
      <4> QED BY <4>1, <4>2
    <3> QED BY <3>2, <3>3
  <2> QED BY <2>1, <2>2
<1>9. \A g \in DOMAIN frames : frames'[g].input.by = frames[g].input.by
  BY <1>2, <1>4, <1>5
<1>10. SameRun'
  BY <1>2, <1>6, <1>9 DEF SameRun
<1> QED BY <1>2, <1>8, <1>10 DEF Isolated

-----------------------------------------------------------------------------
(* Errors *)

LEMMA AnswerKept ==
  ASSUME ProcedureTypeOK, Shape, TreeKept, NEW c \in DOMAIN frames,
         frames'[c].result = frames[c].result
  PROVE  Answer(c)' = Answer(c)
<1>1. IsExecution(c)' <=> IsExecution(c)
  BY ExecutionKept
<1> QED BY <1>1 DEF Answer

\* What an interceptor sees of an execution does not carry data that was not
\* checked; what it sees of an interceptor is what that answered.
LEMMA AnswerThrown ==
  ASSUME ProcedureTypeOK, Shape, Final, NEW f \in DOMAIN frames, Around(f),
         NEW c \in Children(f), Answer(c).is = "bad"
  PROVE  /\ c \in DOMAIN frames /\ Around(c) /\ Answer(c) = frames[c].result
         /\ Answer(c).by \in DOMAIN frames /\ Around(Answer(c).by)
<1>1. c \in DOMAIN frames /\ frames[c].parent = f
  BY DEF Children
<1>2. ~IsExecution(c)
  <2>1. frames[c].result \in Results
    BY <1>1, KindFacts DEF FrameType
  <2>2. Finalize(frames[c].result).is # "bad"
    BY <2>1 DEF Finalize, Results
  <2> QED BY <2>2 DEF Answer
<1>3. Around(c)
  BY <1>1, <1>2 DEF IsExecution, Around, Kind
<1>4. Answer(c) = frames[c].result
  BY <1>2 DEF Answer
<1>5. ThrownOf(c)
  BY <1>1, <1>3 DEF Final
<1> QED BY <1>1, <1>3, <1>4, <1>5 DEF ThrownOf

LEMMA StartFinal ==
  ASSUME ProcedureTypeOK, Shape, Final, NEW f \in DOMAIN frames, StartsFrame(f)
  PROVE  Final'
<1>1. PICK n : n = Len(frames) + 1
  OBVIOUS
<1>2. PICK x \in FrameType :
        /\ Grows(f, x) /\ TreeKept
        /\ DOMAIN frames' = DOMAIN frames \cup {n} /\ n \notin DOMAIN frames
        /\ frames'[n] = x
  BY <1>1, Started
<1>9. \A g \in DOMAIN frames : Kind(g)' = Kind(g)
  BY <1>1, <1>2, GrowsTree
<1>3. \A g \in DOMAIN frames :
        /\ Around(g)' <=> Around(g)
        /\ frames'[g].result = frames[g].result
        /\ frames'[g].nexts = IF g = f THEN frames[g].nexts + 1 ELSE frames[g].nexts
        /\ frames'[g].parent = frames[g].parent
        /\ frames[g].parent # n
        /\ frames[g].nexts \in Nat
  <2>1. DOMAIN frames = 1 .. Len(frames) /\ Len(frames) \in Nat
    BY LenProperties DEF ProcedureTypeOK
  <2>2. ASSUME NEW g \in DOMAIN frames
        PROVE  frames[g].parent \in 0 .. g - 1 /\ frames[g].nexts \in Nat
    <3>1. frames[g] \in FrameType /\ ShapeOf(g)
      BY KindFacts DEF Shape
    <3> QED BY <3>1 DEF ShapeOf, FrameType
  <2>3. \A g \in DOMAIN frames : frames[g].parent # n
    BY <1>1, <2>1, <2>2
  <2> QED BY <1>2, <2>2, <2>3 DEF Grows, TreeKept
<1>4. /\ x.parent = f /\ x.result = None
      /\ Running(f) /\ (Kind(f) \in Observers => frames[f].nexts = 0)
  BY <1>2 DEF Grows, StartsFrame
<1>5. \A g \in DOMAIN frames : Children(g)' = Children(g) \cup (IF g = f THEN {n} ELSE {})
  BY <1>2, <1>3, <1>4 DEF Children
<1>6. Children(n)' = {}
  <2>1. f # n
    BY <1>2
  <2> QED BY <1>2, <1>3, <1>4, <2>1 DEF Children
<1>7. ASSUME NEW g \in DOMAIN frames, Around(g)'
      PROVE  ThrownOf(g)' /\ (Kind(g)' \in Observers => ToldOf(g)')
  <2>1. ThrownOf(g) /\ (Kind(g) \in Observers => ToldOf(g)) /\ Kind(g)' = Kind(g)
    BY <1>3, <1>7, <1>9 DEF Final
  <2>2. ThrownOf(g)'
    <3>1. ASSUME NEW b \in DOMAIN frames, Around(b)
          PROVE  b \in DOMAIN frames' /\ Around(b)'
      BY <1>2, <1>3, <3>1
    <3>2. PICK b : b = frames[g].result.by /\ b = frames'[g].result.by
      BY <1>3
    <3> QED BY <1>3, <2>1, <3>1, <3>2 DEF ThrownOf
  <2>3. ASSUME Kind(g)' \in Observers, g = f
        PROVE  ToldOf(g)'
    <3>1. frames[g].nexts = 0 /\ Children(g) = {} /\ frames'[g].result = None
      BY <1>2, <1>3, <1>4, <2>1, <2>3 DEF ToldOf, Running
    <3>2. Children(g)' = {n} /\ frames'[g].nexts # 0
      BY <1>3, <1>5, <2>3, <3>1
    <3> QED BY <3>1, <3>2 DEF ToldOf
  <2>4. ASSUME Kind(g)' \in Observers, g # f
        PROVE  ToldOf(g)'
    <3>1. Children(g)' = Children(g) /\ ToldOf(g)
      BY <1>2, <1>5, <2>1, <2>4
    <3>2. \A c \in Children(g) : c \in DOMAIN frames
      BY DEF Children
    <3>3. \A c \in Children(g) : /\ Answer(c)' = Answer(c)
                                 /\ frames'[c].result = frames[c].result
      BY <1>2, <1>3, <3>2, AnswerKept
    <3>4. frames'[g].nexts = frames[g].nexts /\ frames'[g].result = frames[g].result
      BY <1>3, <2>4
    <3> QED BY <3>1, <3>3, <3>4 DEF ToldOf
  <2> QED BY <2>2, <2>3, <2>4
<1>8. ThrownOf(n)' /\ ToldOf(n)'
  BY <1>2, <1>4, <1>6 DEF ThrownOf, ToldOf, None
<1> QED BY <1>2, <1>7, <1>8 DEF Final

\* A frame whose answer does not change is as final as it was.
LEMMA KeptFinal ==
  ASSUME ProcedureTypeOK, Shape, Final, TreeKept, DOMAIN frames' = DOMAIN frames,
         NEW g \in DOMAIN frames, Around(g), Kind(g)' = Kind(g),
         frames'[g].result = frames[g].result, frames'[g].nexts = frames[g].nexts,
         frames[g].result # None => \A c \in Children(g) :
           frames'[c].result = frames[c].result
  PROVE  ThrownOf(g)' /\ (Kind(g)' \in Observers => ToldOf(g)')
<1>1. ThrownOf(g) /\ (Kind(g) \in Observers => ToldOf(g))
  BY DEF Final
<1>2. ThrownOf(g)'
  <2>1. PICK b : b = frames[g].result.by /\ b = frames'[g].result.by
    OBVIOUS
  <2>2. ASSUME b \in DOMAIN frames, Around(b) PROVE Around(b)'
    BY <2>2 DEF TreeKept
  <2> QED BY <1>1, <2>1, <2>2 DEF ThrownOf
<1>3. Children(g)' = Children(g) /\ Children(g) \subseteq DOMAIN frames
  BY DEF Children, TreeKept
<1>4. frames[g].result # None =>
        \A c \in Children(g) : /\ Answer(c)' = Answer(c)
                               /\ frames'[c].result = frames[c].result
  BY <1>3, AnswerKept
<1> QED BY <1>1, <1>2, <1>3, <1>4 DEF ToldOf

LEMMA SettleFinal ==
  ASSUME ProcedureTypeOK, Shape, Final, NEW f \in DOMAIN frames, SettlesFrame(f)
  PROVE  Final'
<1>1. PICK r \in Results :
        /\ Settles(f, r)
        /\ Around(f) => \/ r.by = f
                        \/ \E c \in Children(f) : frames[c].result # None /\ r = Answer(c)
        /\ Kind(f) \in Observers =>
             \/ frames[f].nexts = 0
             \/ \E c \in Children(f) : /\ frames[c].result # None
                                       /\ IsError(Answer(c)) => r = Answer(c)
  BY DEF SettlesFrame
<1>2. /\ TreeKept /\ DOMAIN frames' = DOMAIN frames
      /\ \A g \in DOMAIN frames : Kind(g)' = Kind(g)
      /\ frames[f].result = None /\ frames'[f].result = r
      /\ \A g \in DOMAIN frames :
           /\ frames'[g].nexts = frames[g].nexts
           /\ g # f => frames'[g].result = frames[g].result
  BY <1>1, SettlesTree DEF Settles
<1>3. \A g \in DOMAIN frames : Around(g)' <=> Around(g)
  BY <1>2 DEF TreeKept
<1>4. ASSUME NEW g \in DOMAIN frames, g # f, Around(g)'
      PROVE  ThrownOf(g)' /\ (Kind(g)' \in Observers => ToldOf(g)')
  <2>1. CASE Kind(g) \in Observers
    <3>1. ToldOf(g)
      BY <1>3, <1>4, <2>1 DEF Final
    <3>2. frames[g].result # None => \A c \in Children(g) : c # f /\ c \in DOMAIN frames
      BY <1>2, <3>1 DEF ToldOf, Children
    <3> QED BY <1>2, <1>3, <1>4, <3>2, KeptFinal
  <2>2. CASE Kind(g) \notin Observers
    <3>1. ThrownOf(g)
      BY <1>3, <1>4 DEF Final
    <3>2. PICK b : b = frames[g].result.by /\ b = frames'[g].result.by
      BY <1>2, <1>4
    <3>3. ASSUME b \in DOMAIN frames, Around(b) PROVE Around(b)'
      BY <1>3, <3>3
    <3>4. ThrownOf(g)'
      BY <1>2, <1>4, <3>1, <3>2, <3>3 DEF ThrownOf
    <3> QED BY <1>2, <2>2, <3>4
  <2> QED BY <2>1, <2>2
<1>5. ASSUME Around(f)'
      PROVE  ThrownOf(f)' /\ (Kind(f)' \in Observers => ToldOf(f)')
  <2>1. ThrownOf(f)'
    <3>1. CASE r.by = f
      <4>1. PICK b : b = f /\ frames'[f].result.by = b
        BY <1>2, <3>1
      <4> QED BY <1>2, <1>5, <4>1 DEF ThrownOf
    <3>2. ASSUME NEW c \in Children(f), r = Answer(c) PROVE ThrownOf(f)'
      <4>1. r.is = "bad" => r.by \in DOMAIN frames /\ Around(r.by)
        BY <1>3, <1>5, <3>2, AnswerThrown
      <4>2. PICK b : b = r.by /\ frames'[f].result.by = b
        BY <1>2
      <4>3. ASSUME b \in DOMAIN frames, Around(b) PROVE Around(b)'
        BY <1>3, <4>3
      <4> QED BY <1>2, <4>1, <4>2, <4>3 DEF ThrownOf
    <3> QED BY <1>1, <1>3, <1>5, <3>1, <3>2
  <2>2. ASSUME Kind(f)' \in Observers
        PROVE  ToldOf(f)'
    <3>1. ToldOf(f) /\ Kind(f) \in Observers
      BY <1>2, <1>3, <1>5, <2>2 DEF Final
    <3>2. /\ Children(f)' = Children(f) /\ Children(f) \subseteq DOMAIN frames
          /\ f \notin Children(f)
      <4>1. frames[f].parent \in 0 .. f - 1 /\ f \in Nat
        BY KindFacts DEF Shape, ShapeOf
      <4>2. frames[f].parent # f
        BY <4>1
      <4> QED BY <1>2, <4>2 DEF Children, TreeKept
    <3>3. \A c \in Children(f) : /\ Answer(c)' = Answer(c)
                                 /\ frames'[c].result = frames[c].result
      BY <1>2, <3>2, AnswerKept
    <3>4. \A c \in Children(f) : /\ frames[c].result # None
                                 /\ IsError(Answer(c)) => r = Answer(c)
      BY <1>1, <3>1 DEF ToldOf
    <3> QED BY <1>2, <3>1, <3>2, <3>3, <3>4 DEF ToldOf
  <2> QED BY <2>1, <2>2
<1> QED BY <1>2, <1>4, <1>5 DEF Final

LEMMA PassFinal ==
  ASSUME ProcedureTypeOK, Shape, Final, NEW f \in DOMAIN frames, Passes(f)
  PROVE  Final'
<1>1. /\ TreeKept /\ DOMAIN frames' = DOMAIN frames
      /\ \A g \in DOMAIN frames : g # f => Kind(g)' = Kind(g)
      /\ ~Around(f)
  BY PassesTree DEF Passes
<1>2. \A g \in DOMAIN frames : /\ frames'[g].result = frames[g].result
                               /\ frames'[g].nexts = frames[g].nexts
  BY DEF Passes, Shape, ShapeOf
<1>3. \A g \in DOMAIN frames : Children(g) \subseteq DOMAIN frames
  BY DEF Children
<1>4. ASSUME NEW g \in DOMAIN frames, Around(g)'
      PROVE  ThrownOf(g)' /\ (Kind(g)' \in Observers => ToldOf(g)')
  <2>1. Around(g) /\ g # f
    BY <1>1, <1>4 DEF TreeKept
  <2> QED BY <1>1, <1>2, <1>3, <2>1, KeptFinal
<1> QED BY <1>1, <1>4 DEF Final

-----------------------------------------------------------------------------
(* The invariant *)

LEMMA InitInv ==
  ASSUME ProcedureInit
  PROVE  Inv
<1> DEFINE input == [by |-> Caller, ok |-> TRUE, parsed |-> 0]
           run == Execution(input, {Caller}, Caller)
           n == IF chain[1] \in Interceptors THEN 0 ELSE 1
           x == Frame(1, 0, n, run.input, run.context, run.signal)
<1>1. /\ chain \in Chains /\ 1 \in DOMAIN chain
  <2>1. chain \in Chains
    BY DEF ProcedureInit
  <2>2. chain \in Seq(Kinds) /\ chain # <<>>
    BY <2>1, ChainsAssumption
  <2> QED BY <2>1, <2>2, EmptySeq, LenProperties
<1>2. /\ run \in RunType /\ run.input = input /\ run.context = {Caller}
      /\ run.signal = Caller /\ input.by = Caller /\ input.parsed = 0
  BY DEF Execution, RunType, Input, Caller
<1>3. /\ frames = <<x>>
      /\ chain[1] \in Interceptors => runs = <<>>
      /\ chain[1] \notin Interceptors => runs = <<run>>
  <2>1. CASE chain[1] \in Interceptors
    BY <1>2, <2>1 DEF ProcedureInit
  <2>2. CASE chain[1] \notin Interceptors
    <3>1. frames = Append(<<>>, x)
      BY <2>2 DEF ProcedureInit, Enter
    <3> QED BY <2>2, <3>1 DEF ProcedureInit
  <2> QED BY <2>1, <2>2
<1>4. /\ n \in Nat /\ (n = 0 <=> chain[1] \in Interceptors)
      /\ chain[1] \notin Interceptors => n = 1
  OBVIOUS
<1> HIDE DEF input, run, n
<1>5. Entered(x, 1, 0, n, run)
  BY <1>2, <1>4, EnterFrame
<1> HIDE DEF x
<1>6. /\ x \in FrameType /\ x.at = 1 /\ x.parent = 0 /\ x.run = n
      /\ x.input = run.input /\ x.context = run.context /\ x.signal = run.signal
      /\ x.nexts = 0 /\ x.result = None
      /\ x.checking => chain[1] = "input"
  BY <1>5 DEF Entered
<1>7. DOMAIN frames = {1} /\ frames[1] = x /\ frames \in Seq(FrameType)
  BY <1>3, <1>6
<1>8. /\ runs \in Seq(RunType) /\ Len(runs) = n
      /\ n # 0 => runs[n] = run
  <2>1. CASE n = 0
    BY <1>3, <1>4, <2>1, EmptySeq
  <2>2. CASE n # 0
    <3>1. runs = <<run>> /\ n = 1
      BY <1>3, <1>4, <2>2
    <3>2. runs \in Seq(RunType)
      BY <1>2, <3>1
    <3> QED BY <3>1, <3>2
  <2> QED BY <2>1, <2>2
<1>9. /\ Kind(1) = chain[1]
      /\ Around(1) <=> n = 0
      /\ IsExecution(1) <=> n # 0
  BY <1>4, <1>6, <1>7 DEF Kind, Around, IsExecution
<1>10. ProcedureTypeOK
  BY <1>1, <1>7, <1>8 DEF ProcedureTypeOK, FrameType, RunType
<1>11. Shape
  <2>1. ShapeOf(1)
    BY <1>1, <1>4, <1>6, <1>7, <1>8, <1>9 DEF ShapeOf
  <2> QED BY <1>7, <2>1 DEF Shape
<1>12. Ancestors(1) = {}
  BY DEF Ancestors
<1>13. Executions
  <2>1. ExecutionOf(1) = {c \in {1} : IsExecution(c)}
    BY <1>12 DEF ExecutionOf
  <2>2. IF Around(1) THEN ExecutionOf(1) = {} ELSE ExecutionOf(1) = {1}
    BY <1>9, <2>1
  <2> QED BY <1>7, <2>2 DEF Executions
<1>14. Isolated /\ SameRun
  <2>1. Caller \in Sources(1)
    BY DEF Sources
  <2>2. SeesOf(1, frames[1]) /\ SeesOf(1, run)
    BY <1>2, <1>6, <1>7, <2>1 DEF SeesOf
  <2>3. ~Around(1) => SeesOf(1, runs[frames[1].run])
    BY <1>6, <1>7, <1>8, <1>9, <2>2
  <2>4. frames[1].input.by \in Sources(1)
    BY <2>2 DEF SeesOf
  <2> QED BY <1>7, <2>2, <2>3, <2>4 DEF Isolated, SameRun
<1>15. Final
  <2>1. Children(1) = {}
    BY <1>6, <1>7 DEF Children
  <2>2. ThrownOf(1) /\ ToldOf(1)
    BY <1>6, <1>7, <2>1 DEF ThrownOf, ToldOf, None
  <2> QED BY <1>7, <2>2 DEF Final
<1> QED BY <1>3, <1>7, <1>10, <1>11, <1>13, <1>14, <1>15 DEF Inv

LEMMA NextInv ==
  ASSUME Inv, ProcedureNext
  PROVE  Inv'
<1>1. /\ ProcedureTypeOK /\ frames # <<>> /\ Shape /\ Executions
      /\ Isolated /\ SameRun /\ Final
  BY DEF Inv
<1>2. PICK f \in DOMAIN frames : StartsFrame(f) \/ SettlesFrame(f) \/ Passes(f)
  BY <1>1, NextStep
<1>3. ProcedureTypeOK' /\ Shape'
  BY <1>1, <1>2, StepType, StepShape
<1>4. CASE StartsFrame(f)
  <2>1. Executions' /\ Isolated'
    BY <1>1, <1>4, StartExecutions, StartIsolated
  <2>2. SameRun' /\ Final'
    BY <1>1, <1>4, <2>1, StartSameRun, StartFinal
  <2>3. frames' # <<>>
    <3>1. PICK x : Grows(f, x)
      BY <1>4 DEF StartsFrame, StartsInterceptor, StartsExecution, StartsInner
    <3>2. Len(frames') = Len(frames) + 1 /\ Len(frames) \in Nat
      BY <1>1, <3>1, LenProperties DEF Grows, ProcedureTypeOK
    <3> QED BY <3>2
  <2> QED BY <1>3, <2>1, <2>2, <2>3 DEF Inv
<1>5. CASE SettlesFrame(f)
  <2>1. PICK r : Settles(f, r)
    BY <1>5 DEF SettlesFrame
  <2>2. TreeKept /\ DOMAIN frames' = DOMAIN frames
    BY <1>1, <2>1, SettlesTree DEF Settles
  <2>3. \A g \in DOMAIN frames : frames'[g].run = frames[g].run
    BY <2>1 DEF Settles
  <2>4. Executions'
    BY <1>1, <2>2, <2>3, KeptExecutions
  <2>5. Isolated' /\ SameRun' /\ Final'
    BY <1>1, <1>5, <2>1, SettleIsolated, SettleFinal
  <2>6. frames' # <<>>
    BY <2>2
  <2> QED BY <1>3, <2>4, <2>5, <2>6 DEF Inv
<1>6. CASE Passes(f)
  <2>2. TreeKept /\ DOMAIN frames' = DOMAIN frames
    BY <1>1, <1>6, PassesTree DEF Passes
  <2>3. \A g \in DOMAIN frames : frames'[g].run = frames[g].run
    BY <1>6 DEF Passes
  <2>4. Executions'
    BY <1>1, <2>2, <2>3, KeptExecutions
  <2>5. Isolated' /\ SameRun' /\ Final'
    BY <1>1, <1>6, PassIsolated, PassFinal
  <2>6. frames' # <<>>
    BY <2>2
  <2> QED BY <1>3, <2>4, <2>5, <2>6 DEF Inv
<1> QED BY <1>2, <1>4, <1>5, <1>6

\* runProcedure: the inductive invariant.
THEOREM ProcedureInvariant == ProcedureSpec => []Inv
<1>1. ProcedureInit => Inv
  BY InitInv
<1>2. Inv /\ [ProcedureNext]_procedureVars => Inv'
  <2> SUFFICES ASSUME Inv, [ProcedureNext]_procedureVars PROVE Inv'
    OBVIOUS
  <2>1. CASE ProcedureNext
    BY <2>1, NextInv
  <2>2. CASE UNCHANGED procedureVars
    <3>1. chain' = chain /\ frames' = frames /\ runs' = runs
      BY <2>2 DEF procedureVars
    <3>2. ProcedureTypeOK' /\ (frames # <<>>)'
      BY <3>1 DEF Inv, ProcedureTypeOK
    <3>3. Shape'
      BY <3>1 DEF Inv, Shape, ShapeOf, IsExecution, Around, Kind
    <3>4. TreeKept
      BY <3>1 DEF TreeKept, Around, Kind
    <3>5. Executions'
      BY <3>1, <3>4, KeptExecutions DEF Inv
    <3>6. /\ Isolated' /\ SameRun'
      BY <3>1, <3>4, KeptIsolated DEF Inv
    <3>7. ASSUME NEW g \in DOMAIN frames', Around(g)'
          PROVE  ThrownOf(g)' /\ (Kind(g)' \in Observers => ToldOf(g)')
      <4>1. g \in DOMAIN frames /\ Around(g) /\ Kind(g)' = Kind(g)
        BY <3>1, <3>7 DEF Around, Kind
      <4> QED BY <3>1, <3>4, <4>1, KeptFinal DEF Inv
    <3>8. Final'
      BY <3>7 DEF Final
    <3> QED BY <3>2, <3>3, <3>5, <3>6, <3>8 DEF Inv
  <2> QED BY <2>1, <2>2
<1> QED BY <1>1, <1>2, PTL DEF ProcedureSpec

\* Frames, executions and answers have their types (runtime.ts Execution,
\* call-interceptor.ts, middleware.ts).
THEOREM ProcedureType == ProcedureSpec => []ProcedureTypeOK
<1>1. Inv => ProcedureTypeOK
  BY DEF Inv
<1> QED BY <1>1, ProcedureInvariant, PTL

\* However often and however concurrently the interceptors of a call invoke
\* next(), an invocation sees input, context and signal of the caller, of those
\* above it and of middleware of its own execution, and what was parsed for
\* that execution (runtime.ts runProcedure, runExecution).
THEOREM IsolationTheorem == ProcedureSpec => []RunsAreIsolated
<1>1. Inv => RunsAreIsolated
  <2> SUFFICES ASSUME Inv, NEW f \in DOMAIN frames
               PROVE  LET sources == {Caller} \cup Ancestors(f) \cup
                            {g \in DOMAIN frames : ExecutionOf(g) = ExecutionOf(f)}
                      IN  /\ frames[f].input.by \in sources
                          /\ frames[f].context \subseteq sources
                          /\ frames[f].signal \in {Caller} \cup Ancestors(f)
                          /\ frames[f].input.parsed \in {0, frames[f].run}
    BY DEF RunsAreIsolated
  <2>1. SeesOf(f, frames[f])
    BY DEF Inv, Isolated
  <2>2. ASSUME NEW g \in Mates(f) PROVE ExecutionOf(g) = ExecutionOf(f)
    <3>1. g \in DOMAIN frames /\ frames[f].run # 0 /\ frames[g].run = frames[f].run
      BY DEF Mates
    <3>2. ~Around(f) /\ ~Around(g)
      BY <3>1 DEF Inv, Shape, ShapeOf
    <3>3. PICK e \in DOMAIN frames : ExecutionOf(f) = {e} /\ frames[e].run = frames[f].run
      BY <3>2 DEF Inv, Executions
    <3>4. PICK d \in DOMAIN frames : ExecutionOf(g) = {d} /\ frames[d].run = frames[g].run
      BY <3>1, <3>2 DEF Inv, Executions
    <3>5. IsExecution(e) /\ IsExecution(d)
      BY <3>3, <3>4 DEF ExecutionOf
    <3> QED BY <3>1, <3>3, <3>4, <3>5 DEF Inv, Executions
  <2>3. Mates(f) \subseteq {g \in DOMAIN frames : ExecutionOf(g) = ExecutionOf(f)}
    BY <2>2 DEF Mates
  <2> QED BY <2>1, <2>3 DEF SeesOf, Sources
<1> QED BY <1>1, ProcedureInvariant, PTL

\* No interceptor is told declared error data that was not checked, unless an
\* interceptor threw it, and an observer passes on the error it was told
\* (runtime.ts finalizeDeclaredError, events.ts).
THEOREM ErrorsTheorem == ProcedureSpec => []ErrorsAreFinal
<1>1. Inv => ErrorsAreFinal
  <2> SUFFICES ASSUME Inv, NEW f \in DOMAIN frames, NEW c \in DOMAIN frames,
                      frames[c].parent = f, Kind(f) \in Interceptors
               PROVE  /\ Answer(c).is = "bad" => Kind(Answer(c).by) \in Interceptors
                      /\ Kind(f) \in Observers /\ frames[f].result # None
                           /\ IsError(Answer(c)) => frames[f].result = Answer(c)
    BY DEF ErrorsAreFinal
  <2>1. Around(f) /\ c \in Children(f)
    BY DEF Around, Children
  <2>2. Answer(c).is = "bad" => Kind(Answer(c).by) \in Interceptors
    BY <2>1, AnswerThrown DEF Inv, Around
  <2>3. Kind(f) \in Observers => ToldOf(f)
    BY <2>1 DEF Inv, Final
  <2> QED BY <2>1, <2>2, <2>3 DEF ToldOf
<1> QED BY <1>1, ProcedureInvariant, PTL

-----------------------------------------------------------------------------
(* The check of the input.  A middleware that hedges can change the input  *)
(* of its execution under the frames below it, so what follows is about    *)
(* those that do not.                                                      *)

NoHedges == Hedgers \cap {"use", "useAfter"} = {}

\* What acts in an execution has nothing pending below it.
LEMMA CalmStep ==
  ASSUME NoHedges, Inv, Checks, ProcedureNext
  PROVE  \E f \in DOMAIN frames :
           /\ \/ StartsFrame(f) /\ Kind(f) \notin {"input", "handler"}
              \/ SettlesFrame(f) \/ Passes(f)
           /\ ~Around(f) => Pending(f) = {}
<1>1. chain' = chain /\ ProcedureTypeOK /\ Shape
  BY DEF ProcedureNext, Inv
<1>2. PICK f \in DOMAIN frames :
        \/ InterceptorNext(f) \/ MiddlewareNext(f) \/ Checked(f)
        \/ UserSettles(f) \/ HandlerSettles(f)
        \/ ObserverStarts(f) \/ ObserverSettles(f)
  BY DEF ProcedureNext
<1>3. /\ Around(f) <=> Kind(f) \in Interceptors
      /\ Kind(f) \in {"input", "handler"} => Children(f) = {}
      /\ Pending(f) \subseteq Children(f)
  BY DEF Around, Checks, ChecksOf, Pending
<1>4. CASE InterceptorNext(f)
  <2>1. Around(f) /\ Kind(f) \notin {"input", "handler"}
    BY <1>3, <1>4 DEF InterceptorNext, Interceptors, Observers
  <2> QED BY <1>1, <1>4, <2>1, InterceptorNextStep
<1>5. CASE MiddlewareNext(f)
  <2>1. Pending(f) = {} /\ Kind(f) \notin {"input", "handler"}
    BY <1>5 DEF MiddlewareNext, MayCallNext, NoHedges
  <2> QED BY <1>1, <1>5, <2>1, MiddlewareNextStep
<1>6. CASE Checked(f)
  <2>1. Kind(f) = "input"
    BY <1>1, <1>6 DEF Checked, Shape, ShapeOf
  <2> QED BY <1>1, <1>3, <1>6, <2>1, CheckedStep
<1>7. CASE UserSettles(f)
  <2>1. ~Around(f) => Pending(f) = {}
    BY <1>3, <1>7 DEF UserSettles, NoHedges, Interceptors
  <2> QED BY <1>1, <1>7, <2>1, UserSettlesStep
<1>8. CASE HandlerSettles(f)
  <2>1. Kind(f) = "handler"
    BY <1>8 DEF HandlerSettles
  <2> QED BY <1>1, <1>3, <1>8, <2>1, HandlerSettlesStep
<1>9. CASE ObserverStarts(f) \/ ObserverSettles(f)
  <2>1. Around(f) /\ Kind(f) \notin {"input", "handler"}
    BY <1>3, <1>9 DEF ObserverStarts, ObserverSettles, Interceptors, Observers
  <2> QED BY <1>1, <1>9, <2>1, ObserverStartsStep, ObserverSettlesStep
<1> QED BY <1>2, <1>4, <1>5, <1>6, <1>7, <1>8, <1>9

\* Who supplied an input that a frame can see is a frame of the call.
LEMMA SuppliersAreFrames ==
  ASSUME Inv, NEW f \in DOMAIN frames
  PROVE  /\ frames[f].input.by \in {Caller} \cup DOMAIN frames
         /\ ~Around(f) => runs[frames[f].run].input.by \in {Caller} \cup DOMAIN frames
<1>1. DOMAIN frames = 1 .. Len(frames) /\ Len(frames) \in Nat
  BY LenProperties DEF Inv, ProcedureTypeOK
<1>2. Ancestors(f) \subseteq DOMAIN frames
  BY <1>1 DEF Ancestors
<1>3. Sources(f) \subseteq {Caller} \cup DOMAIN frames
  BY <1>2 DEF Sources, Mates
<1> QED BY <1>3 DEF Inv, Isolated, SeesOf

LEMMA GoodKept ==
  ASSUME \A g \in DOMAIN frames : Kind(g) = "useAfter" => Kind(g)' = "useAfter",
         NEW input, input.by \in {Caller} \cup DOMAIN frames, NEW n, Good(input, n)
  PROVE  Good(input, n)'
<1>1. CASE input.parsed = n
  BY <1>1 DEF Good
<1>2. CASE input.by # Caller /\ Kind(input.by) = "useAfter"
  <2>1. Kind(input.by)' = "useAfter"
    BY <1>2
  <2> QED BY <1>2, <2>1 DEF Good
<1> QED BY <1>1, <1>2 DEF Good

\* A frame past the check was started by one past the check.
LEMMA PastBefore ==
  ASSUME ProcedureTypeOK, Shape, NEW f \in DOMAIN frames, NEW at,
         Kind(f) \notin {"input", "handler"},
         at = frames[f].at + 1, at \in DOMAIN chain,
         chain[at] \in {"useAfter", "handler"},
         NEW i \in 1 .. at, chain[i] = "input"
  PROVE  Past(f) /\ Kind(f) = "useAfter"
<1>1. /\ chain \in Seq(Kinds)
      /\ \A j, k \in DOMAIN chain : j < k => Stage(chain[j]) <= Stage(chain[k])
  BY ChainsAssumption DEF ProcedureTypeOK
<1>2. /\ DOMAIN chain = 1 .. Len(chain) /\ Len(chain) \in Nat
      /\ frames[f].at \in DOMAIN chain
  BY <1>1, LenProperties DEF Shape, ShapeOf
<1>3. i # at
  OBVIOUS
<1>4. i \in 1 .. frames[f].at /\ i \in DOMAIN chain
  BY <1>2, <1>3
<1>5. i # frames[f].at
  BY DEF Kind
<1>6. Stage("input") <= Stage(Kind(f))
  <2>1. i < frames[f].at
    BY <1>2, <1>4, <1>5
  <2> QED BY <1>1, <1>2, <1>4, <2>1 DEF Kind
<1>7. Kind(f) \in Kinds
  BY KindFacts
<1>8. Kind(f) = "useAfter"
  <2>1. Stage("input") = 3 /\ \A kind \in Interceptors : Stage(kind) = 1
    BY DEF Stage, Interceptors, Observers
  <2>2. Stage("use") = 2
    BY DEF Stage, Interceptors, Observers
  <2>3. Kind(f) \notin Interceptors
    BY <1>6, <2>1
  <2>4. Kind(f) # "use"
    BY <1>6, <2>1, <2>2
  <2> QED BY <1>7, <2>3, <2>4 DEF Kinds
<1> QED BY <1>4, <1>8 DEF Past

LEMMA StartChecks ==
  ASSUME Inv, Checks, NEW f \in DOMAIN frames, StartsFrame(f),
         Kind(f) \notin {"input", "handler"}, ~Around(f) => Pending(f) = {}
  PROVE  Checks'
<1>0. ProcedureTypeOK /\ Shape
  BY DEF Inv
<1>1. PICK n : n = Len(frames) + 1
  OBVIOUS
<1>2. PICK x \in FrameType :
        /\ x.at = frames[f].at + 1 /\ x.at \in DOMAIN chain
        /\ Grows(f, x)
        /\ \/ StartsInterceptor(f, x)
           \/ \E run \in RunType : StartsExecution(f, x, run) \/ StartsInner(f, x, run)
        /\ TreeKept
        /\ DOMAIN frames' = DOMAIN frames \cup {n} /\ n \notin DOMAIN frames
        /\ frames'[n] = x
        /\ Around(n)' <=> x.run = 0
        /\ ~Around(f) => x.run = frames[f].run /\ ~Around(n)'
  BY <1>0, <1>1, Started
<1>3. \A g \in DOMAIN frames : Kind(g)' = Kind(g) /\ (Around(g)' <=> Around(g))
  BY <1>0, <1>1, <1>2, GrowsTree DEF TreeKept
<1>4. Kind(n)' = chain[x.at] /\ chain' = chain
  BY <1>2 DEF Kind, Grows
<1>5. \A g \in DOMAIN frames :
        /\ frames'[g].at = frames[g].at /\ frames'[g].parent = frames[g].parent
        /\ frames'[g].run = frames[g].run /\ frames'[g].input = frames[g].input
        /\ frames'[g].result = frames[g].result
        /\ frames[g].parent # n
  <2>1. DOMAIN frames = 1 .. Len(frames) /\ Len(frames) \in Nat
    BY <1>0, LenProperties DEF ProcedureTypeOK
  <2>2. \A g \in DOMAIN frames : frames[g].parent \in 0 .. g - 1
    BY <1>0 DEF Shape, ShapeOf
  <2>3. \A g \in DOMAIN frames : frames[g].parent # n
    BY <1>1, <2>1, <2>2
  <2> QED BY <1>2, <2>3 DEF Grows
<1>6. x.parent = f /\ x.result = None /\ frames[f].result = None
  BY <1>2 DEF Grows, StartsFrame, Running
<1>7. /\ \A g \in DOMAIN frames :
           /\ Children(g)' = Children(g) \cup (IF g = f THEN {n} ELSE {})
           /\ Pending(g)' = Pending(g) \cup (IF g = f THEN {n} ELSE {})
      /\ Children(n)' = {} /\ Pending(n)' = {}
  <2>1. f # n
    BY <1>2
  <2>2. /\ \A g \in DOMAIN frames :
             Children(g)' = Children(g) \cup (IF g = f THEN {n} ELSE {})
        /\ Children(n)' = {}
    BY <1>2, <1>5, <1>6, <2>1 DEF Children
  <2>3. \A g \in DOMAIN frames : Children(g) \subseteq DOMAIN frames
    BY DEF Children
  <2> QED BY <1>2, <1>5, <1>6, <2>2, <2>3 DEF Pending
<1>8. \A g \in DOMAIN frames : Past(g)' <=> Past(g)
  BY <1>3, <1>4, <1>5 DEF Past
<1>9. ASSUME Past(n)' PROVE Past(f) /\ Kind(f) = "useAfter"
  <2>1. Kind(n)' \in {"useAfter", "handler"} /\ \E i \in 1 .. x.at : chain[i] = "input"
    BY <1>2, <1>4, <1>9 DEF Past
  <2> QED BY <1>0, <1>2, <1>4, <2>1, PastBefore
<1>10. \A g \in DOMAIN frames : Leaf(g)' => Leaf(g) /\ g # f
  BY <1>3, <1>5, <1>7 DEF Leaf
<1>11. ~Around(f) => Leaf(f)
  BY <1>6 DEF Leaf
<1>12. ASSUME NEW g \in DOMAIN frames, Leaf(g)', ~Around(n)' PROVE frames[g].run # x.run
  <2>1. CASE Around(f)
    <3>1. PICK run \in RunType : StartsExecution(f, x, run)
      BY <1>2, <1>4, <1>12, <2>1 DEF StartsInterceptor, StartsInner, Around
    <3>2. x.run = Len(runs) + 1 /\ Len(runs) \in Nat /\ frames[g].run \in 0 .. Len(runs)
      BY <1>0, <3>1, LenProperties DEF StartsExecution, ProcedureTypeOK, Shape, ShapeOf
    <3> QED BY <3>2
  <2>2. CASE ~Around(f)
    BY <1>2, <1>10, <1>11, <1>12, <2>2 DEF Checks, OneLeaf
  <2> QED BY <2>1, <2>2
<1>13. OneLeaf'
  <2> SUFFICES ASSUME NEW g \in DOMAIN frames', NEW h \in DOMAIN frames',
                      Leaf(g)', Leaf(h)', frames'[g].run = frames'[h].run
               PROVE  g = h
    BY DEF OneLeaf
  <2>1. ~Around(g)' /\ ~Around(h)'
    BY DEF Leaf
  <2>2. CASE g \in DOMAIN frames /\ h \in DOMAIN frames
    BY <1>5, <1>10, <2>2 DEF Checks, OneLeaf
  <2>3. CASE g = n /\ h \in DOMAIN frames
    BY <1>2, <1>5, <1>12, <2>1, <2>3
  <2>4. CASE h = n /\ g \in DOMAIN frames
    BY <1>2, <1>5, <1>12, <2>1, <2>4
  <2> QED BY <1>2, <2>2, <2>3, <2>4
<1>14. \A g \in DOMAIN frames : Kind(g) = "useAfter" => Kind(g)' = "useAfter"
  BY <1>3
<1>15. ASSUME Past(n)'
       PROVE  /\ Good(x.input, x.run)'
              /\ runs'[x.run].input = x.input
  <2>1. ~Around(f) /\ Past(f) /\ Kind(f) = "useAfter" /\ Leaf(f)
    BY <1>9, <1>11, <1>15 DEF Around, Interceptors, Observers
  <2>2. PICK run \in RunType : StartsInner(f, x, run)
    BY <1>2, <2>1 DEF StartsInterceptor, StartsExecution
  <2>3. /\ x.input = run.input /\ x.run = frames[f].run /\ Given(f, run)
        /\ runs' = [runs EXCEPT ![x.run] = run]
    BY <2>2 DEF StartsInner
  <2>4. x.run \in DOMAIN runs
    <3>1. DOMAIN runs = 1 .. Len(runs) /\ Len(runs) \in Nat
      BY <1>0, LenProperties DEF ProcedureTypeOK
    <3> QED BY <1>0, <2>1, <2>3, <3>1 DEF Shape, ShapeOf
  <2>5. runs'[x.run] = run
    BY <2>3, <2>4
  <2>6. CASE run.input = runs[frames[f].run].input
    <3>1. PICK input : input = run.input /\ Good(input, x.run)
                       /\ input.by \in {Caller} \cup DOMAIN frames
      BY <2>1, <2>3, <2>6, SuppliersAreFrames DEF Checks, ChecksOf
    <3>2. Good(input, x.run)'
      BY <1>14, <3>1, GoodKept
    <3> QED BY <2>3, <2>5, <3>1, <3>2
  <2>7. CASE run.input.by = f
    <3>1. Kind(f)' = "useAfter" /\ f # Caller
      BY <1>0, <1>3, <2>1, KindFacts DEF Caller
    <3>2. PICK b : b = f /\ x.input.by = b
      BY <2>3, <2>7
    <3>3. Good(x.input, x.run)'
      BY <3>1, <3>2 DEF Good
    <3> QED BY <2>3, <2>5, <3>3
  <2> QED BY <2>1, <2>3, <2>6, <2>7 DEF Given
<1>16. ChecksOf(n)'
  <2>1. Past(n)' => Good(frames[n].input, frames[n].run)'
    <3> SUFFICES ASSUME Past(n)' PROVE Good(frames[n].input, frames[n].run)'
      OBVIOUS
    <3>1. PICK input, r : input = x.input /\ r = x.run /\ Good(input, r)'
      BY <1>15
    <3> QED BY <1>2, <3>1 DEF Good
  <2>2. Past(n)' => Good(runs[frames[n].run].input, frames[n].run)'
    <3> SUFFICES ASSUME Past(n)' PROVE Good(runs[frames[n].run].input, frames[n].run)'
      OBVIOUS
    <3>1. PICK input, r : input = x.input /\ r = x.run /\ Good(input, r)'
      BY <1>15
    <3>2. runs'[frames'[n].run].input = input /\ frames'[n].run = r
      BY <1>2, <1>15, <3>1
    <3> QED BY <3>1, <3>2 DEF Good
  <2> QED BY <1>7, <2>1, <2>2 DEF ChecksOf
<1>17. ASSUME NEW g \in DOMAIN frames PROVE ChecksOf(g)'
  <2>1. ChecksOf(g)
    BY DEF Checks
  <2>2. ~Around(g)' /\ frames'[g].result # None => Pending(g)' = {}
    BY <1>3, <1>5, <1>6, <1>7, <2>1 DEF ChecksOf
  <2>3. Children(g)' # {} => Kind(g)' \notin {"input", "handler"}
    BY <1>3, <1>7, <2>1 DEF ChecksOf
  <2>4. Past(g)' => \A c \in Children(g)' : Past(c)'
    <3> SUFFICES ASSUME Past(g)', NEW c \in Children(g)' PROVE Past(c)'
      OBVIOUS
    <3>1. CASE c \in Children(g)
      BY <1>8, <2>1, <3>1 DEF ChecksOf, Children
    <3>2. CASE g = f /\ c = n
      <4>1. Past(f) /\ Kind(f) = "useAfter"
        BY <1>8, <3>2 DEF Past
      <4>2. chain[x.at] \in {"useAfter", "handler"}
        BY <1>0, <1>2, <4>1, ChainFacts DEF Kind, Shape, ShapeOf, ProcedureTypeOK
      <4>3. \E i \in 1 .. x.at : chain[i] = "input"
        <5>1. frames[f].at \in Nat /\ x.at = frames[f].at + 1
          BY <1>0, <1>2, KindFacts
        <5> QED BY <4>1, <5>1 DEF Past
      <4> QED BY <1>2, <1>4, <3>2, <4>2, <4>3 DEF Past
    <3> QED BY <1>7, <3>1, <3>2
  <2>5. Past(g)' => Good(frames[g].input, frames[g].run)'
    <3> SUFFICES ASSUME Past(g)' PROVE Good(frames[g].input, frames[g].run)'
      OBVIOUS
    <3>1. PICK input, r : /\ input = frames[g].input /\ r = frames[g].run
                          /\ Good(input, r) /\ input.by \in {Caller} \cup DOMAIN frames
      BY <1>8, <2>1, SuppliersAreFrames DEF ChecksOf
    <3>2. Good(input, r)'
      BY <1>14, <3>1, GoodKept
    <3> QED BY <1>5, <3>1, <3>2 DEF Good
  <2>6. Past(g)' /\ Leaf(g)' => Good(runs[frames[g].run].input, frames[g].run)'
    <3> SUFFICES ASSUME Past(g)', Leaf(g)'
                 PROVE  Good(runs[frames[g].run].input, frames[g].run)'
      OBVIOUS
    <3>1. Leaf(g) /\ g # f /\ ~Around(g)
      BY <1>10 DEF Leaf
    <3>2. PICK input, r : /\ input = runs[frames[g].run].input /\ r = frames[g].run
                          /\ Good(input, r) /\ input.by \in {Caller} \cup DOMAIN frames
      BY <1>8, <2>1, <3>1, SuppliersAreFrames DEF ChecksOf
    <3>3. Good(input, r)'
      BY <1>14, <3>2, GoodKept
    <3>4. runs'[r] = runs[r]
      <4>1. /\ runs \in Seq(RunType) /\ DOMAIN runs = 1 .. Len(runs)
            /\ Len(runs) \in Nat /\ r \in 1 .. Len(runs)
        <5>1. ShapeOf(g) /\ Len(runs) \in Nat
          BY <1>0, LenProperties DEF Shape, ProcedureTypeOK
        <5>2. r \in 1 .. Len(runs)
          BY <3>1, <3>2, <5>1 DEF ShapeOf
        <5> QED BY <1>0, <5>1, <5>2, LenProperties DEF ProcedureTypeOK, RunType
      <4>2. CASE StartsInterceptor(f, x)
        BY <4>2 DEF StartsInterceptor
      <4>3. ASSUME NEW run \in RunType, StartsExecution(f, x, run) PROVE runs'[r] = runs[r]
        BY <4>1, <4>3, AppendProperties DEF StartsExecution
      <4>4. ASSUME NEW run \in RunType, StartsInner(f, x, run) PROVE runs'[r] = runs[r]
        <5>1. ~Around(n)' /\ x.run # r
          BY <1>2, <1>12, <3>2, <4>4 DEF StartsInner
        <5> QED BY <4>1, <4>4, <5>1 DEF StartsInner
      <4> QED BY <1>2, <4>2, <4>3, <4>4
    <3>5. runs'[frames'[g].run].input = input /\ frames'[g].run = r
      BY <1>5, <3>2, <3>4
    <3> QED BY <3>3, <3>5 DEF Good
  <2> QED BY <2>2, <2>3, <2>4, <2>5, <2>6 DEF ChecksOf
<1> QED BY <1>2, <1>13, <1>16, <1>17 DEF Checks

LEMMA SettleChecks ==
  ASSUME Inv, Checks, NEW f \in DOMAIN frames, SettlesFrame(f),
         ~Around(f) => Pending(f) = {}
  PROVE  Checks'
<1>0. ProcedureTypeOK /\ Shape
  BY DEF Inv
<1>1. PICK r : Settles(f, r)
  BY DEF SettlesFrame
<1>2. /\ TreeKept /\ DOMAIN frames' = DOMAIN frames /\ runs' = runs /\ chain' = chain
      /\ \A g \in DOMAIN frames :
           /\ Kind(g)' = Kind(g) /\ (Around(g)' <=> Around(g))
           /\ frames'[g].at = frames[g].at /\ frames'[g].parent = frames[g].parent
           /\ frames'[g].run = frames[g].run /\ frames'[g].input = frames[g].input
           /\ g # f => frames'[g].result = frames[g].result
      /\ frames[f].result = None
  BY <1>0, <1>1, SettlesTree DEF Settles, TreeKept
<1>3. \A g \in DOMAIN frames :
        /\ Children(g)' = Children(g) /\ Children(g) \subseteq DOMAIN frames
        /\ Past(g)' <=> Past(g)
  BY <1>2 DEF Children, Past
<1>4. \A g \in DOMAIN frames : \/ Pending(g)' = Pending(g)
                               \/ /\ Pending(g)' = Pending(g) \ {f}
                                  /\ f \in Children(g) /\ frames'[f].result # None
  BY <1>2, <1>3 DEF Pending
<1>5. ~Around(f) => Leaf(f)
  BY <1>2 DEF Leaf
<1>6. ASSUME NEW g \in DOMAIN frames, Leaf(g)', ~Leaf(g)
      PROVE  /\ f \in Children(g) /\ frames'[f].result # None
             /\ Leaf(f) /\ frames[g].run = frames[f].run
  <2>1. ~Around(g) /\ frames'[g].result = None /\ Pending(g)' = {}
    BY <1>2, <1>6 DEF Leaf
  <2>2. frames[g].result = None
    BY <1>2, <2>1
  <2>3. Pending(g)' # Pending(g)
    BY <1>6, <2>1, <2>2 DEF Leaf
  <2>4. f \in Children(g) /\ frames'[f].result # None
    BY <1>4, <2>3
  <2>5. frames[f].parent = g /\ g # 0
    BY <1>0, <2>4, KindFacts DEF Children
  <2>6. ~Around(f)
    BY <1>0, <2>1, <2>5 DEF Shape, ShapeOf
  <2>7. ~IsExecution(f)
    BY <2>1, <2>5 DEF IsExecution, Around, Kind
  <2>8. frames[g].run = frames[f].run
    BY <1>0, <2>5, <2>6, <2>7 DEF Shape, ShapeOf
  <2> QED BY <1>5, <2>4, <2>6, <2>8
<1>7. OneLeaf'
  <2> SUFFICES ASSUME NEW g \in DOMAIN frames', NEW h \in DOMAIN frames',
                      Leaf(g)', Leaf(h)', frames'[g].run = frames'[h].run
               PROVE  g = h
    BY DEF OneLeaf
  <2>1. g \in DOMAIN frames /\ h \in DOMAIN frames /\ frames[g].run = frames[h].run
    BY <1>2
  <2>2. CASE Leaf(g) /\ Leaf(h)
    BY <2>1, <2>2 DEF Checks, OneLeaf
  <2>3. ASSUME NEW a \in DOMAIN frames, NEW b \in DOMAIN frames, Leaf(a)', Leaf(b)',
               frames[a].run = frames[b].run, ~Leaf(a), Leaf(b)
        PROVE  FALSE
    <3>1. Leaf(f) /\ frames[a].run = frames[f].run /\ frames'[f].result # None
      BY <1>6, <2>3
    <3>2. b = f
      BY <2>3, <3>1 DEF Checks, OneLeaf
    <3> QED BY <2>3, <3>1, <3>2 DEF Leaf
  <2>4. CASE ~Leaf(g) /\ ~Leaf(h)
    <3>1. f \in Children(g) /\ f \in Children(h)
      BY <1>6, <2>1, <2>4
    <3> QED BY <3>1 DEF Children
  <2> QED BY <2>1, <2>2, <2>3, <2>4
<1>8. \A g \in DOMAIN frames : Kind(g) = "useAfter" => Kind(g)' = "useAfter"
  BY <1>2
<1>9. ASSUME NEW g \in DOMAIN frames PROVE ChecksOf(g)'
  <2>1. ChecksOf(g)
    BY DEF Checks
  <2>2. ~Around(g)' /\ frames'[g].result # None => Pending(g)' = {}
    BY <1>2, <1>4, <2>1 DEF ChecksOf
  <2>3. Children(g)' # {} => Kind(g)' \notin {"input", "handler"}
    BY <1>2, <1>3, <2>1 DEF ChecksOf
  <2>4. Past(g)' => \A c \in Children(g)' : Past(c)'
    BY <1>3, <2>1 DEF ChecksOf
  <2>5. Past(g)' => Good(frames[g].input, frames[g].run)'
    <3> SUFFICES ASSUME Past(g)' PROVE Good(frames[g].input, frames[g].run)'
      OBVIOUS
    <3>1. PICK input, n : /\ input = frames[g].input /\ n = frames[g].run
                          /\ Good(input, n) /\ input.by \in {Caller} \cup DOMAIN frames
      BY <1>3, <2>1, SuppliersAreFrames DEF ChecksOf
    <3>2. Good(input, n)'
      BY <1>8, <3>1, GoodKept
    <3> QED BY <1>2, <3>1, <3>2 DEF Good
  <2>6. Past(g)' /\ Leaf(g)' => Good(runs[frames[g].run].input, frames[g].run)'
    <3> SUFFICES ASSUME Past(g)', Leaf(g)'
                 PROVE  Good(runs[frames[g].run].input, frames[g].run)'
      OBVIOUS
    <3>1. ~Around(g) /\ Past(g)
      BY <1>2, <1>3 DEF Leaf
    <3>2. Good(runs[frames[g].run].input, frames[g].run)
      <4>1. CASE Leaf(g)
        BY <2>1, <3>1, <4>1 DEF ChecksOf
      <4>2. CASE ~Leaf(g)
        <5>1. Leaf(f) /\ f \in Children(g) /\ frames[g].run = frames[f].run
          BY <1>6, <4>2
        <5>2. Past(f)
          BY <2>1, <3>1, <5>1 DEF ChecksOf
        <5> QED BY <5>1, <5>2 DEF Checks, ChecksOf
      <4> QED BY <4>1, <4>2
    <3>3. PICK input, n : /\ input = runs[frames[g].run].input /\ n = frames[g].run
                          /\ Good(input, n) /\ input.by \in {Caller} \cup DOMAIN frames
      BY <3>1, <3>2, SuppliersAreFrames
    <3>4. Good(input, n)'
      BY <1>8, <3>3, GoodKept
    <3> QED BY <1>2, <3>3, <3>4 DEF Good
  <2> QED BY <2>2, <2>3, <2>4, <2>5, <2>6 DEF ChecksOf
<1> QED BY <1>2, <1>7, <1>9 DEF Checks

LEMMA PassChecks ==
  ASSUME Inv, Checks, NEW f \in DOMAIN frames, Passes(f)
  PROVE  Checks'
<1>0. ProcedureTypeOK /\ Shape
  BY DEF Inv
<1> DEFINE n == frames[f].run
<1>1. /\ TreeKept /\ DOMAIN frames' = DOMAIN frames /\ chain' = chain
      /\ \A g \in DOMAIN frames : g # f => Kind(g)' = Kind(g) /\ frames'[g] = frames[g]
      /\ Kind(f) = "input" /\ ~Around(f) /\ Kind(f)' \in {"useAfter", "handler"}
      /\ n \in DOMAIN runs
      /\ \A m \in DOMAIN runs \ {n} : runs'[m] = runs[m]
      /\ frames'[f].run = n /\ frames'[f].input = runs'[n].input
      /\ frames[f].result = None /\ frames'[f].result = None
      /\ frames'[f].parent = frames[f].parent
  <2>1. /\ TreeKept /\ Kind(f) = "input" /\ ~Around(f)
        /\ Kind(f)' \in {"useAfter", "handler"} /\ n \in DOMAIN runs
        /\ \A g \in DOMAIN frames : g # f => Kind(g)' = Kind(g)
    BY <1>0, PassesTree
  <2>2. ShapeOf(f)
    BY <1>0 DEF Shape
  <2> QED BY <2>1, <2>2 DEF Passes, ShapeOf
<1>2. runs'[n].input.parsed = n
  <2>1. frames[f].input \in Input
    BY <1>0, KindFacts DEF FrameType
  <2>2. runs \in Seq(RunType) /\ n \in DOMAIN runs
    BY <1>0, <1>1 DEF ProcedureTypeOK, RunType
  <2>3. runs[n] \in RunType
    BY <2>2, ElementOfSeq
  <2>4. runs'[n] = [runs[n] EXCEPT !.input = [frames[f].input EXCEPT !.parsed = n]]
    BY DEF Passes
  <2> HIDE DEF n
  <2> QED BY <2>1, <2>3, <2>4 DEF Input, RunType
<1> HIDE DEF n
<1>3. \A g \in DOMAIN frames :
        /\ Around(g)' <=> Around(g)
        /\ frames'[g].parent = frames[g].parent /\ frames'[g].run = frames[g].run
        /\ frames'[g].result = frames[g].result
  BY <1>1 DEF TreeKept, n
<1>4. \A g \in DOMAIN frames :
        /\ Children(g)' = Children(g) /\ Children(g) \subseteq DOMAIN frames
        /\ Pending(g)' = Pending(g)
        /\ g # f => (Past(g)' <=> Past(g))
  <2>1. \A g \in DOMAIN frames : Children(g)' = Children(g)
                                 /\ Children(g) \subseteq DOMAIN frames
    BY <1>1, <1>3 DEF Children
  <2>2. \A g \in DOMAIN frames : Pending(g)' = Pending(g)
    BY <1>3, <2>1 DEF Pending
  <2>3. \A g \in DOMAIN frames : g # f => (Past(g)' <=> Past(g))
    BY <1>1 DEF Past
  <2> QED BY <2>1, <2>2, <2>3
<1>5. Children(f) = {} /\ Pending(f) = {}
  BY <1>1 DEF Checks, ChecksOf, Pending
<1>6. Leaf(f) /\ \A g \in DOMAIN frames : Leaf(g)' <=> Leaf(g)
  BY <1>1, <1>3, <1>4, <1>5 DEF Leaf
<1>7. OneLeaf'
  BY <1>1, <1>3, <1>6 DEF Checks, OneLeaf
<1>8. \A g \in DOMAIN frames : Kind(g) = "useAfter" => Kind(g)' = "useAfter"
  BY <1>1
<1>9. ChecksOf(f)'
  <2>1. Good(frames[f].input, frames[f].run)'
    BY <1>1, <1>2 DEF Good
  <2>2. Good(runs[frames[f].run].input, frames[f].run)'
    BY <1>1, <1>2 DEF Good
  <2> QED BY <1>4, <1>5, <2>1, <2>2 DEF ChecksOf
<1>10. ASSUME NEW g \in DOMAIN frames, g # f PROVE ChecksOf(g)'
  <2>1. ChecksOf(g)
    BY DEF Checks
  <2>2. ~Around(g)' /\ frames'[g].result # None => Pending(g)' = {}
    BY <1>3, <1>4, <2>1 DEF ChecksOf
  <2>3. Children(g)' # {} => Kind(g)' \notin {"input", "handler"}
    BY <1>1, <1>4, <1>10, <2>1 DEF ChecksOf
  <2>4. Past(g)' => \A c \in Children(g)' : Past(c)'
    <3>1. ~Past(f)
      BY <1>1 DEF Past
    <3> QED BY <1>4, <1>10, <2>1, <3>1 DEF ChecksOf
  <2>5. Past(g)' => Good(frames[g].input, frames[g].run)'
    <3> SUFFICES ASSUME Past(g)' PROVE Good(frames[g].input, frames[g].run)'
      OBVIOUS
    <3>1. PICK input, r : /\ input = frames[g].input /\ r = frames[g].run
                          /\ Good(input, r) /\ input.by \in {Caller} \cup DOMAIN frames
      BY <1>4, <1>10, <2>1, SuppliersAreFrames DEF ChecksOf
    <3>2. Good(input, r)'
      BY <1>8, <3>1, GoodKept
    <3> QED BY <1>1, <1>10, <3>1, <3>2 DEF Good
  <2>6. Past(g)' /\ Leaf(g)' => Good(runs[frames[g].run].input, frames[g].run)'
    <3> SUFFICES ASSUME Past(g)', Leaf(g)'
                 PROVE  Good(runs[frames[g].run].input, frames[g].run)'
      OBVIOUS
    <3>1. Leaf(g) /\ Past(g) /\ ~Around(g)
      BY <1>4, <1>6, <1>10 DEF Leaf
    <3>2. frames[g].run # n
      BY <1>6, <1>10, <3>1 DEF Checks, OneLeaf, n
    <3>3. PICK input, r : /\ input = runs[frames[g].run].input /\ r = frames[g].run
                          /\ Good(input, r) /\ input.by \in {Caller} \cup DOMAIN frames
      BY <2>1, <3>1, SuppliersAreFrames DEF ChecksOf
    <3>4. Good(input, r)'
      BY <1>8, <3>3, GoodKept
    <3>5. r \in DOMAIN runs
      <4>1. ShapeOf(g) /\ Len(runs) \in Nat /\ DOMAIN runs = 1 .. Len(runs)
        BY <1>0, LenProperties DEF Shape, ProcedureTypeOK
      <4> QED BY <3>1, <3>3, <4>1 DEF ShapeOf
    <3>6. runs'[frames'[g].run].input = input /\ frames'[g].run = r
      BY <1>1, <1>3, <3>2, <3>3, <3>5
    <3> QED BY <3>4, <3>6 DEF Good
  <2> QED BY <2>2, <2>3, <2>4, <2>5, <2>6 DEF ChecksOf
<1> QED BY <1>1, <1>7, <1>9, <1>10 DEF Checks

LEMMA InitChecks ==
  ASSUME ProcedureInit
  PROVE  Checks
<1>1. Inv
  BY InitInv
<1>2. DOMAIN frames = {1} /\ frames[1].at = 1 /\ frames[1].parent = 0
  BY DEF ProcedureInit, Enter, Frame
<1>3. Children(1) = {} /\ Pending(1) = {}
  BY <1>2 DEF Children, Pending
<1>4. ~Past(1)
  BY <1>2 DEF Past, Kind
<1> QED BY <1>2, <1>3, <1>4 DEF Checks, OneLeaf, ChecksOf

\* Where no .use() and no .useAfter() calls next() while an earlier call is
\* pending, what comes after the check sees an input that was parsed for this
\* execution, or one that a .useAfter() supplied (runtime.ts runExecution).
\* For a .use() that hedges it does not hold: see MCProcedureHedge.
THEOREM InputTheorem ==
  ASSUME Hedgers \cap {"use", "useAfter"} = {}
  PROVE  ProcedureSpec => []InputIsChecked
<1>1. ProcedureInit => Inv /\ Checks
  BY InitInv, InitChecks
<1>2. Inv /\ Checks /\ [ProcedureNext]_procedureVars => Checks'
  <2> SUFFICES ASSUME Inv, Checks, [ProcedureNext]_procedureVars PROVE Checks'
    OBVIOUS
  <2>1. CASE ProcedureNext
    <3>1. PICK f \in DOMAIN frames :
            /\ \/ StartsFrame(f) /\ Kind(f) \notin {"input", "handler"}
               \/ SettlesFrame(f) \/ Passes(f)
            /\ ~Around(f) => Pending(f) = {}
      BY <2>1, CalmStep DEF NoHedges
    <3> QED BY <3>1, StartChecks, SettleChecks, PassChecks
  <2>2. CASE UNCHANGED procedureVars
    <3>1. chain' = chain /\ frames' = frames /\ runs' = runs
      BY <2>2 DEF procedureVars
    <3>2. \A f : /\ Around(f)' <=> Around(f)
                 /\ Past(f)' <=> Past(f)
                 /\ Leaf(f)' <=> Leaf(f)
                 /\ Children(f)' = Children(f) /\ Pending(f)' = Pending(f)
                 /\ Kind(f)' = Kind(f)
      BY <3>1 DEF Around, Past, Leaf, Children, Pending, Kind
    <3>3. \A input, n : Good(input, n)' <=> Good(input, n)
      BY <3>1 DEF Good, Kind
    <3> QED BY <3>1, <3>2, <3>3 DEF Checks, OneLeaf, ChecksOf
  <2> QED BY <2>1, <2>2
<1>3. Checks => InputIsChecked
  BY DEF Checks, ChecksOf, InputIsChecked, Past, Good
<1> QED BY <1>1, <1>2, <1>3, ProcedureInvariant, PTL DEF ProcedureSpec

-----------------------------------------------------------------------------
\* The arrays a builder pushes onto are those of its procedure nodes, and no
\* node, other slot or tree has a reference to one.
Middleware == Seq(1 .. MaxMiddleware)
Names == Seq(STRING)
NodeType == [path : Leaves \cup Routers, inherited : [Slots -> DOMAIN heap],
             extra : [Slots -> DOMAIN heap], wrote : [Slots -> Middleware]]
LeafType == [middleware : [Slots -> DOMAIN heap], path : Names,
             wrote : [Slots -> Middleware]]
TreeType == UNION {[names -> LeafType] : names \in SUBSET Names}

BuilderType == heap \in Seq(Middleware) /\ nodes \in Seq(NodeType) /\ trees \in Seq(TreeType)

OwnArrays ==
  \A n \in DOMAIN nodes, s \in Slots : ~IsRouter(n) =>
    /\ \A m \in DOMAIN nodes, q \in Slots :
         /\ nodes[m].inherited[q] # nodes[n].extra[s]
         /\ ~IsRouter(m) /\ nodes[m].extra[q] = nodes[n].extra[s] => m = n /\ q = s
    /\ \A t \in DOMAIN trees : \A l \in DOMAIN trees[t], q \in Slots :
         trees[t][l].middleware[q] # nodes[n].extra[s]

BuilderInv == BuilderType /\ OwnArrays /\ BuiltAsWritten

\* SetToSeq lists every element of a finite set.
LEMMA SetToSeqLists ==
  ASSUME NEW S, IsFiniteSet(S)
  PROVE  /\ SetToSeq(S) \in Seq(S)
         /\ \A x \in S : \E i \in DOMAIN SetToSeq(S) : SetToSeq(S)[i] = x
<1> DEFINE n == Cardinality(S)
           f == SetToSeq(S)
<1>1. n \in Nat /\ ExistsBijection(1 .. n, S)
  BY FS_CardinalityType
<1>2. PICK b \in Bijection(1 .. n, S) : TRUE
  BY <1>1 DEF ExistsBijection
<1>3. b \in [1 .. n -> S] /\ IsInjective(b)
  BY <1>2 DEF Bijection, Injection
<1>4. f \in [1 .. n -> S] /\ IsInjective(f)
  BY <1>3 DEF SetToSeq
<1>5. f \in Injection(1 .. n, S)
  BY <1>4 DEF Injection
<1>6. Cardinality(1 .. n) = n /\ IsFiniteSet(1 .. n)
  BY <1>1, FS_Interval
<1> DEFINE T == {f[i] : i \in 1 .. n}
<1>7. T \subseteq S /\ f \in Bijection(1 .. n, T)
  BY <1>4 DEF Bijection, Injection, Surjection
<1>8. IsFiniteSet(T) /\ Cardinality(T) = n
  <2>1. f \in Surjection(1 .. n, T) /\ f \in Injection(1 .. n, T)
    BY <1>7 DEF Bijection
  <2> HIDE DEF T, f
  <2> QED BY <2>1, <1>6, FS_Surjection
<1>9. T = S
  <2> HIDE DEF T
  <2> QED BY <1>7, <1>8, FS_Subset
<1>10. f \in Seq(S) /\ DOMAIN f = 1 .. n
  <2> HIDE DEF f
  <2> QED BY <1>1, <1>4, IsASeq
<1>11. \A x \in S : \E i \in 1 .. n : f[i] = x
  BY <1>9
<1> HIDE DEF f, n
<1> QED
  <2>1. f = SetToSeq(S) BY DEF f
  <2> QED BY <1>10, <1>11, <2>1

\* The paths of nodes, and those of the procedures below one.
LEMMA PathNames == Leaves \cup Routers \subseteq Names
<1>1. Leaves \subseteq Seq(STRING)
  BY ImplementerAssumption
<1>2. ASSUME NEW l \in Leaves, NEW i \in 0 .. Len(l) - 1
      PROVE  SubSeq(l, 1, i) \in Seq(STRING)
  <2>1. l \in Seq(STRING) /\ Len(l) \in Nat
    BY <1>1
  <2>2. \A j \in 1 .. i : l[j] \in STRING
    BY <2>1, ElementOfSeq
  <2> QED BY <2>1, <2>2, SubSeqProperties
<1>3. <<>> \in Seq(STRING)
  OBVIOUS
<1>4. \A p \in Routers : p \in Seq(STRING)
  <2> SUFFICES ASSUME NEW p \in Routers, p # <<>>
              PROVE  p \in Seq(STRING)
    BY <1>3
  <2>1. PICK l \in Leaves : p \in {SubSeq(l, 1, i) : i \in 0 .. Len(l) - 1}
    BY DEF Routers
  <2> QED BY <2>1, <1>2
<1> QED BY <1>1, <1>4 DEF Names

LEMMA BelowFinite ==
  ASSUME NEW path \in Names
  PROVE  IsFiniteSet(Below(path)) /\ Below(path) \subseteq Names
<1> DEFINE D == {l \in Leaves : IsPrefix(path, l)}
           f == [l \in D |-> SubSeq(l, Len(path) + 1, Len(l))]
<1>1. IsFiniteSet(D)
  <2>1. D \in SUBSET Leaves /\ IsFiniteSet(Leaves)
    BY ImplementerAssumption
  <2> HIDE DEF D
  <2> QED BY <2>1, FS_Subset
<1>2. Below(path) = {f[l] : l \in D}
  BY DEF Below
<1>3. f \in Surjection(D, Below(path))
  BY <1>2 DEF Surjection
<1>4. IsFiniteSet(Below(path))
  <2> HIDE DEF D, f
  <2> QED BY <1>1, <1>3, FS_Surjection
<1>5. ASSUME NEW l \in D PROVE SubSeq(l, Len(path) + 1, Len(l)) \in Seq(STRING)
  <2>1. l \in Seq(STRING) /\ Len(l) \in Nat /\ Len(path) \in Nat
    BY ImplementerAssumption DEF Names
  <2>2. \A j \in Len(path) + 1 .. Len(l) : l[j] \in STRING
    BY <2>1, ElementOfSeq
  <2> QED BY <2>1, <2>2, SubSeqProperties
<1> QED BY <1>4, <1>5 DEF Below, Names

\* A sequence is one over any set that has its elements.
LEMMA SeqOver ==
  ASSUME NEW S, NEW T, NEW s \in Seq(T), \A i \in DOMAIN s : s[i] \in S
  PROVE  s \in Seq(S)
<1>1. Len(s) \in Nat /\ s = [i \in 1 .. Len(s) |-> s[i]] /\ DOMAIN s = 1 .. Len(s)
  BY LenProperties
<1> QED BY <1>1, IsASeq

\* An array that is there stays as it is.
HeapGrows == \A i \in DOMAIN heap : i \in DOMAIN heap' /\ heap'[i] = heap[i]

\* A new node, whose own arrays are new.
LEMMA NodeAdded ==
  ASSUME BuilderInv, HeapGrows, heap' \in Seq(Middleware), UNCHANGED trees,
         NEW node, nodes' = Append(nodes, node),
         node.path \in Leaves \cup Routers,
         node.inherited \in [Slots -> DOMAIN heap'],
         node.extra \in [Slots -> DOMAIN heap'],
         node.wrote \in [Slots -> Middleware],
         node = [path |-> node.path, inherited |-> node.inherited,
                 extra |-> node.extra, wrote |-> node.wrote],
         \A n \in DOMAIN nodes, q, s \in Slots :
           ~IsRouter(n) => nodes[n].extra[q] # node.inherited[s],
         node.path \notin Routers =>
           /\ node.extra["use"] # node.extra["useAfter"]
           /\ \A s, q \in Slots : /\ node.extra[s] \notin DOMAIN heap
                                  /\ node.extra[s] # node.inherited[q],
         \A s \in Slots :
           node.wrote[s] = heap'[node.inherited[s]] \o
             (IF node.path \in Routers THEN <<>> ELSE heap'[node.extra[s]])
  PROVE  BuilderInv'
<1>1. /\ heap \in Seq(Middleware) /\ nodes \in Seq(NodeType) /\ trees \in Seq(TreeType)
      /\ Len(nodes) \in Nat /\ DOMAIN nodes = 1 .. Len(nodes)
  BY LenProperties DEF BuilderInv, BuilderType
<1>0. PICK k \in Nat : k = Len(nodes) + 1
  BY <1>1
<1>2. /\ DOMAIN nodes' = 1 .. k
      /\ \A n \in DOMAIN nodes : nodes'[n] = nodes[n]
      /\ nodes'[k] = node
      /\ \A n \in DOMAIN nodes' : n \in DOMAIN nodes \/ n = k
  BY <1>0, <1>1, AppendProperties
<1>3. BuilderType'
  <2>1. DOMAIN heap \subseteq DOMAIN heap'
    BY DEF HeapGrows
  <2>2. NodeType \subseteq NodeType' /\ LeafType \subseteq LeafType'
    BY <2>1 DEF NodeType, LeafType
  <2>3. node \in NodeType'
    BY DEF NodeType
  <2>4. nodes' \in Seq(NodeType')
    <3>1. \A n \in 1 .. k : nodes'[n] \in NodeType'
      BY <1>1, <1>2, <2>2, <2>3, ElementOfSeq
    <3>2. nodes \in Seq(NodeType \cup {node})
      BY <1>1, SeqOver, ElementOfSeq, Zenon
    <3>3. nodes' \in Seq(NodeType \cup {node})
      BY <3>2, AppendProperties
    <3> QED BY <3>1, <3>3, <1>2, SeqOver
  <2>5. trees \in Seq(TreeType')
    <3>1. TreeType \subseteq TreeType'
      BY <2>2 DEF TreeType
    <3>2. \A t \in 1 .. Len(trees) : trees[t] \in TreeType'
      BY <1>1, <3>1, ElementOfSeq
    <3>3. DOMAIN trees = 1 .. Len(trees)
      BY <1>1, LenProperties
    <3> QED BY <1>1, <3>2, <3>3, SeqOver, Zenon
  <2> QED BY <2>4, <2>5 DEF BuilderType
<1>4. \A n \in DOMAIN nodes : /\ IsRouter(n)' = IsRouter(n)
                              /\ nodes[n] \in NodeType
  BY <1>1, <1>2, ElementOfSeq DEF IsRouter
<1>5. IsRouter(k)' = (node.path \in Routers)
  BY <1>2 DEF IsRouter
<1>6. \A t \in DOMAIN trees : \A l \in DOMAIN trees[t], q \in Slots :
        trees[t][l].middleware[q] \in DOMAIN heap
  <2> TAKE t \in DOMAIN trees
  <2>1. trees[t] \in TreeType
    BY <1>1, ElementOfSeq
  <2> QED BY <2>1 DEF TreeType, LeafType
<1>7. OwnArrays'
  <2> SUFFICES ASSUME NEW n \in DOMAIN nodes', NEW s \in Slots, ~IsRouter(n)'
               PROVE  /\ \A m \in DOMAIN nodes', q \in Slots :
                           /\ nodes'[m].inherited[q] # nodes'[n].extra[s]
                           /\ (~IsRouter(m))' /\ nodes'[m].extra[q] = nodes'[n].extra[s]
                                => m = n /\ q = s
                      /\ \A t \in DOMAIN trees : \A l \in DOMAIN trees[t], q \in Slots :
                           trees[t][l].middleware[q] # nodes'[n].extra[s]
    BY DEF OwnArrays
  <2>1. CASE n \in DOMAIN nodes
    <3>1. ~IsRouter(n) /\ nodes'[n] = nodes[n] /\ nodes[n].extra[s] \in DOMAIN heap
      BY <2>1, <1>2, <1>4 DEF NodeType
    <3>2. \A t \in DOMAIN trees : \A l \in DOMAIN trees[t], q \in Slots :
            trees[t][l].middleware[q] # nodes[n].extra[s]
      BY <2>1, <3>1 DEF BuilderInv, OwnArrays
    <3>3. ASSUME NEW m \in DOMAIN nodes', NEW q \in Slots
          PROVE  /\ nodes'[m].inherited[q] # nodes[n].extra[s]
                 /\ (~IsRouter(m))' /\ nodes'[m].extra[q] = nodes[n].extra[s]
                      => m = n /\ q = s
      <4>1. CASE m \in DOMAIN nodes
        BY <2>1, <3>1, <4>1, <1>2, <1>4 DEF BuilderInv, OwnArrays
      <4>2. CASE m = k
        <5>1. nodes'[m] = node /\ node.inherited[q] # nodes[n].extra[s]
          BY <2>1, <3>1, <4>2, <1>2
        <5>2. node.path \notin Routers => node.extra[q] \notin DOMAIN heap
          OBVIOUS
        <5> QED BY <3>1, <4>2, <5>1, <5>2, <1>5
      <4> QED BY <4>1, <4>2, <1>2
    <3> QED BY <3>1, <3>2, <3>3
  <2>2. CASE n = k
    <3>1. node.path \notin Routers /\ nodes'[n] = node /\ node.extra[s] \notin DOMAIN heap
      BY <2>2, <1>2, <1>5
    <3>2. \A m \in DOMAIN nodes, q \in Slots :
            /\ nodes'[m].inherited[q] # node.extra[s] /\ nodes'[m].extra[q] # node.extra[s]
      BY <3>1, <1>2, <1>4 DEF NodeType
    <3>3. \A q \in Slots : /\ node.inherited[q] # node.extra[s]
                           /\ (node.extra[q] = node.extra[s] => q = s)
      BY <3>1 DEF Slots
    <3> QED BY <2>2, <3>1, <3>2, <3>3, <1>2, <1>6
  <2> QED BY <2>1, <2>2, <1>2
<1>8. BuiltAsWritten'
  <2>1. ASSUME NEW n \in DOMAIN nodes', NEW s \in Slots
        PROVE  nodes'[n].wrote[s] = heap'[nodes'[n].inherited[s]] \o
                 (IF IsRouter(n)' THEN <<>> ELSE heap'[nodes'[n].extra[s]])
    <3>1. CASE n \in DOMAIN nodes
      <4>1. nodes[n].inherited[s] \in DOMAIN heap /\ nodes[n].extra[s] \in DOMAIN heap
        BY <3>1, <1>4 DEF NodeType
      <4>2. nodes[n].wrote[s] = heap[nodes[n].inherited[s]] \o
              (IF IsRouter(n) THEN <<>> ELSE heap[nodes[n].extra[s]])
        BY <3>1 DEF BuilderInv, BuiltAsWritten
      <4>3. /\ heap'[nodes[n].inherited[s]] = heap[nodes[n].inherited[s]]
            /\ heap'[nodes[n].extra[s]] = heap[nodes[n].extra[s]]
        BY <4>1 DEF HeapGrows
      <4> QED BY <3>1, <4>2, <4>3, <1>2, <1>4
    <3>2. CASE n = k
      BY <3>2, <1>2, <1>5
    <3> QED BY <3>1, <3>2, <1>2
  <2>2. \A t \in DOMAIN trees' : \A l \in DOMAIN trees'[t], s \in Slots :
          trees'[t][l].wrote[s] = heap'[trees'[t][l].middleware[s]]
    BY <1>6 DEF BuilderInv, BuiltAsWritten, HeapGrows
  <2>3. \A t \in DOMAIN trees' : Findable(trees'[t])
    <3>1. \A t \in DOMAIN trees : Findable(trees[t])
      BY DEF BuilderInv, BuiltAsWritten
    <3> QED BY <3>1
  <2>4. \A n \in DOMAIN nodes', s \in Slots :
          nodes'[n].wrote[s] = heap'[nodes'[n].inherited[s]] \o
                 (IF IsRouter(n)' THEN <<>> ELSE heap'[nodes'[n].extra[s]])
    BY <2>1
  <2> QED BY <2>4, <2>2, <2>3, Zenon DEF BuiltAsWritten
<1> QED BY <1>3, <1>7, <1>8 DEF BuilderInv

\* A new tree, whose arrays are new.
LEMMA TreeAdded ==
  ASSUME BuilderInv, HeapGrows, heap' \in Seq(Middleware), UNCHANGED nodes,
         NEW tree \in TreeType', trees' = Append(trees, tree),
         \A l \in DOMAIN tree, s \in Slots :
           /\ tree[l].middleware[s] \notin DOMAIN heap
           /\ tree[l].wrote[s] = heap'[tree[l].middleware[s]],
         Findable(tree)
  PROVE  BuilderInv'
<1>1. /\ heap \in Seq(Middleware) /\ nodes \in Seq(NodeType) /\ trees \in Seq(TreeType)
      /\ Len(trees) \in Nat /\ DOMAIN trees = 1 .. Len(trees)
  BY LenProperties DEF BuilderInv, BuilderType
<1>0. PICK k \in Nat : k = Len(trees) + 1
  BY <1>1
<1>2. /\ DOMAIN trees' = 1 .. k
      /\ \A t \in DOMAIN trees : trees'[t] = trees[t]
      /\ trees'[k] = tree
      /\ \A t \in DOMAIN trees' : t \in DOMAIN trees \/ t = k
  <2>1. trees \in Seq(TreeType \cup {tree})
    BY <1>1, SeqOver, ElementOfSeq, Zenon
  <2>2. Len(trees') = Len(trees) + 1 /\ trees' \in Seq(TreeType \cup {tree})
        /\ (\A t \in 1 .. Len(trees) : trees'[t] = trees[t]) /\ trees'[Len(trees) + 1] = tree
    BY <2>1, AppendProperties
  <2> QED BY <2>2, <1>0, <1>1, LenProperties
<1>3. DOMAIN heap \subseteq DOMAIN heap'
  BY DEF HeapGrows
<1>4. NodeType \subseteq NodeType' /\ TreeType \subseteq TreeType'
  <2>1. NodeType \subseteq NodeType' /\ LeafType \subseteq LeafType'
    BY <1>3 DEF NodeType, LeafType
  <2> QED BY <2>1 DEF TreeType
<1>5. BuilderType'
  <2>1. \A n \in DOMAIN nodes : nodes[n] \in NodeType'
    BY <1>1, <1>4, ElementOfSeq
  <2>2. nodes' \in Seq(NodeType')
    BY <1>1, <2>1, SeqOver, Zenon
  <2>3. \A t \in DOMAIN trees : trees[t] \in TreeType'
    BY <1>1, <1>4, ElementOfSeq
  <2>4. trees \in Seq(TreeType')
    BY <1>1, <2>3, SeqOver, Zenon
  <2>5. trees' \in Seq(TreeType')
    BY <2>4, AppendProperties
  <2> QED BY <2>2, <2>5 DEF BuilderType
<1>6. \A n \in DOMAIN nodes, s \in Slots :
        /\ nodes[n].extra[s] \in DOMAIN heap /\ nodes[n].inherited[s] \in DOMAIN heap
        /\ IsRouter(n)' = IsRouter(n)
  <2>1. \A n \in DOMAIN nodes : nodes[n] \in NodeType
    BY <1>1, ElementOfSeq
  <2> QED BY <2>1 DEF NodeType, IsRouter
<1>7. \A t \in DOMAIN trees : \A l \in DOMAIN trees[t], q \in Slots :
        trees[t][l].middleware[q] \in DOMAIN heap
  <2> TAKE t \in DOMAIN trees
  <2>1. trees[t] \in TreeType
    BY <1>1, ElementOfSeq
  <2> QED BY <2>1 DEF TreeType, LeafType
<1>8. OwnArrays'
  <2> SUFFICES ASSUME NEW n \in DOMAIN nodes, NEW s \in Slots, ~IsRouter(n)
               PROVE  /\ \A m \in DOMAIN nodes, q \in Slots :
                           /\ nodes[m].inherited[q] # nodes[n].extra[s]
                           /\ ~IsRouter(m) /\ nodes[m].extra[q] = nodes[n].extra[s]
                                => m = n /\ q = s
                      /\ \A t \in DOMAIN trees' : \A l \in DOMAIN trees'[t], q \in Slots :
                           trees'[t][l].middleware[q] # nodes[n].extra[s]
    BY <1>6 DEF OwnArrays, IsRouter
  <2>1. \A m \in DOMAIN nodes, q \in Slots :
          /\ nodes[m].inherited[q] # nodes[n].extra[s]
          /\ ~IsRouter(m) /\ nodes[m].extra[q] = nodes[n].extra[s] => m = n /\ q = s
    BY DEF BuilderInv, OwnArrays
  <2>2. ASSUME NEW t \in DOMAIN trees', NEW l \in DOMAIN trees'[t], NEW q \in Slots
        PROVE  trees'[t][l].middleware[q] # nodes[n].extra[s]
    <3>1. CASE t \in DOMAIN trees
      BY <3>1, <1>2 DEF BuilderInv, OwnArrays
    <3>2. CASE t = k
      BY <3>2, <1>2, <1>6
    <3> QED BY <3>1, <3>2, <1>2
  <2> QED BY <2>1, <2>2
<1>9. BuiltAsWritten'
  <2>0. ASSUME NEW n \in DOMAIN nodes, NEW s \in Slots
        PROVE  nodes[n].wrote[s] = heap'[nodes[n].inherited[s]] \o
                 (IF IsRouter(n) THEN <<>> ELSE heap'[nodes[n].extra[s]])
    <3>1. nodes[n].wrote[s] = heap[nodes[n].inherited[s]] \o
            (IF IsRouter(n) THEN <<>> ELSE heap[nodes[n].extra[s]])
      BY DEF BuilderInv, BuiltAsWritten
    <3>2. /\ heap'[nodes[n].inherited[s]] = heap[nodes[n].inherited[s]]
          /\ heap'[nodes[n].extra[s]] = heap[nodes[n].extra[s]]
      BY <1>6 DEF HeapGrows
    <3> QED BY <3>1, <3>2
  <2>1. \A n \in DOMAIN nodes', s \in Slots :
          nodes'[n].wrote[s] = heap'[nodes'[n].inherited[s]] \o
                 (IF IsRouter(n)' THEN <<>> ELSE heap'[nodes'[n].extra[s]])
    <3>1. ASSUME NEW n \in DOMAIN nodes, NEW s \in Slots
          PROVE  nodes[n].wrote[s] = heap'[nodes[n].inherited[s]] \o
                 (IF IsRouter(n)' THEN <<>> ELSE heap'[nodes[n].extra[s]])
      BY <2>0 DEF IsRouter
    <3> QED BY <3>1
  <2>2. \A t \in DOMAIN trees' : \A l \in DOMAIN trees'[t], s \in Slots :
          trees'[t][l].wrote[s] = heap'[trees'[t][l].middleware[s]]
    <3> SUFFICES ASSUME NEW t \in DOMAIN trees', NEW l \in DOMAIN trees'[t], NEW s \in Slots
                 PROVE  trees'[t][l].wrote[s] = heap'[trees'[t][l].middleware[s]]
      OBVIOUS
    <3>1. CASE t \in DOMAIN trees
      <4>1. trees[t][l].wrote[s] = heap[trees[t][l].middleware[s]]
        BY <3>1, <1>2 DEF BuilderInv, BuiltAsWritten
      <4> QED BY <4>1, <3>1, <1>2, <1>7 DEF HeapGrows
    <3>2. CASE t = k
      BY <3>2, <1>2
    <3> QED BY <3>1, <3>2, <1>2
  <2>3. \A t \in DOMAIN trees' : Findable(trees'[t])
    <3>1. \A t \in DOMAIN trees : Findable(trees[t])
      BY DEF BuilderInv, BuiltAsWritten
    <3> QED BY <3>1, <1>2
  <2> QED BY <2>1, <2>2, <2>3, Zenon DEF BuiltAsWritten
<1> QED BY <1>5, <1>8, <1>9 DEF BuilderInv

\* There is room for another middleware below the bound.
LEMMA AttachedNat ==
  ASSUME BuilderInv
  PROVE  Attached \in Nat
<1>0. \A i \in DOMAIN heap : heap[i] \in Middleware
  BY ElementOfSeq DEF BuilderInv, BuilderType
<1> DEFINE U == UNION {ToSet(heap[i]) : i \in DOMAIN heap}
<1>1. U \subseteq 1 .. MaxMiddleware
  <2>1. ASSUME NEW i \in DOMAIN heap PROVE ToSet(heap[i]) \subseteq 1 .. MaxMiddleware
    <3>1. heap[i] \in Middleware BY <1>0
    <3>2. \A j \in DOMAIN heap[i] : heap[i][j] \in 1 .. MaxMiddleware
      BY <3>1, ElementOfSeq, LenProperties DEF Middleware
    <3> QED BY <3>2 DEF ToSet
  <2> QED BY <2>1
<1>2. IsFiniteSet(1 .. MaxMiddleware)
  BY ImplementerAssumption, FS_Interval
<1> HIDE DEF U
<1>3. IsFiniteSet(U)
  BY <1>1, <1>2, FS_Subset
<1>4. Cardinality(U) \in Nat
  BY <1>3, FS_CardinalityType
<1> QED BY <1>4 DEF Attached, U

\* use() and useAfter() of a procedure node: only its own array changes.
LEMMA PushKeeps ==
  ASSUME BuilderInv, NEW n \in DOMAIN nodes, NEW slot \in Slots,
         UseOnProcedure(n, slot)
  PROVE  BuilderInv'
<1>1. /\ heap \in Seq(Middleware) /\ nodes \in Seq(NodeType) /\ trees \in Seq(TreeType)
      /\ \A m \in DOMAIN nodes : nodes[m] \in NodeType
      /\ \A i \in DOMAIN heap : heap[i] \in Middleware
  BY ElementOfSeq DEF BuilderInv, BuilderType
<1>2. Attached \in Nat
  BY AttachedNat
<1>3. PICK mw \in 1 .. MaxMiddleware :
        /\ heap' = [heap EXCEPT ![nodes[n].extra[slot]] = Append(@, mw)]
        /\ nodes' = [nodes EXCEPT ![n].wrote[slot] = Append(@, mw)]
  <2>1. Attached < MaxMiddleware
    BY DEF UseOnProcedure
  <2>2. Attached + 1 \in 1 .. MaxMiddleware
    BY <2>1, <1>2, ImplementerAssumption
  <2>3. /\ heap' = [heap EXCEPT ![nodes[n].extra[slot]] = Append(@, Attached + 1)]
        /\ nodes' = [nodes EXCEPT ![n].wrote[slot] = Append(@, Attached + 1)]
    BY DEF UseOnProcedure
  <2> QED BY <2>2, <2>3
<1>4. PICK own \in DOMAIN heap : own = nodes[n].extra[slot]
  BY <1>1 DEF NodeType
<1>5. /\ DOMAIN heap' = DOMAIN heap
      /\ \A i \in DOMAIN heap : heap'[i] = IF i = own THEN Append(heap[own], mw) ELSE heap[i]
      /\ trees' = trees /\ ~IsRouter(n)
  BY <1>3, <1>4 DEF UseOnProcedure
<1>6. heap' \in Seq(Middleware)
  <2>1. Append(heap[own], mw) \in Middleware
    BY <1>1, AppendProperties DEF Middleware
  <2> QED BY <1>1, <1>3, <1>4, <2>1, ExceptSeq
<1>7. /\ DOMAIN nodes' = DOMAIN nodes
      /\ \A m \in DOMAIN nodes :
           /\ nodes'[m] \in NodeType
           /\ nodes'[m].path = nodes[m].path
           /\ nodes'[m].inherited = nodes[m].inherited
           /\ nodes'[m].extra = nodes[m].extra
           /\ \A s \in Slots : nodes'[m].wrote[s] =
                IF m = n /\ s = slot THEN Append(nodes[n].wrote[slot], mw)
                                     ELSE nodes[m].wrote[s]
  <2>1. \A m \in DOMAIN nodes : nodes[m].wrote \in [Slots -> Middleware]
    BY <1>1 DEF NodeType
  <2>2. Append(nodes[n].wrote[slot], mw) \in Middleware
    BY <2>1, AppendProperties DEF Middleware
  <2> QED BY <1>1, <1>3, <2>1, <2>2 DEF NodeType
<1>8. nodes' \in Seq(NodeType)
  <2>1. \A m \in DOMAIN nodes : nodes'[m] \in NodeType
    BY <1>7
  <2>2. nodes' = [m \in DOMAIN nodes |-> nodes'[m]]
    BY <1>3
  <2>3. Len(nodes) \in Nat /\ DOMAIN nodes = 1 .. Len(nodes)
    BY <1>1, LenProperties
  <2> QED BY <2>1, <2>2, <2>3, IsASeq
<1>9. BuilderType'
  <2>1. NodeType' = NodeType /\ LeafType' = LeafType
    BY <1>5 DEF NodeType, LeafType
  <2> QED BY <1>1, <1>5, <1>6, <1>8, <2>1 DEF BuilderType, TreeType
<1>10. \A m \in DOMAIN nodes : IsRouter(m)' = IsRouter(m)
  BY <1>7 DEF IsRouter
<1>11. OwnArrays'
  BY <1>5, <1>7, <1>10 DEF BuilderInv, OwnArrays
<1>12. BuiltAsWritten'
  <2>1. ASSUME NEW m \in DOMAIN nodes, NEW s \in Slots
        PROVE  nodes'[m].wrote[s] = heap'[nodes'[m].inherited[s]] \o
                 (IF IsRouter(m)' THEN <<>> ELSE heap'[nodes'[m].extra[s]])
    <3>1. /\ nodes[m].inherited[s] \in DOMAIN heap /\ nodes[m].extra[s] \in DOMAIN heap
          /\ heap'[nodes[m].inherited[s]] = heap[nodes[m].inherited[s]]
      BY <1>1, <1>4, <1>5 DEF NodeType, BuilderInv, OwnArrays
    <3>2. nodes[m].wrote[s] = heap[nodes[m].inherited[s]] \o
            (IF IsRouter(m) THEN <<>> ELSE heap[nodes[m].extra[s]])
      BY DEF BuilderInv, BuiltAsWritten
    <3>3. CASE m = n /\ s = slot
      <4>1. /\ heap[nodes[n].inherited[slot]] \in Seq(1 .. MaxMiddleware)
            /\ heap[own] \in Seq(1 .. MaxMiddleware)
        BY <3>1, <3>3, <1>1 DEF Middleware
      <4>2. Append(heap[nodes[n].inherited[slot]] \o heap[own], mw)
              = heap[nodes[n].inherited[slot]] \o Append(heap[own], mw)
        <5> DEFINE u == heap[nodes[n].inherited[slot]]
                   v == heap[own]
                   S == 1 .. MaxMiddleware
        <5>1. u \in Seq(S) /\ v \in Seq(S) /\ mw \in S
          BY <4>1
        <5> HIDE DEF u, v, S
        <5>2. Append(u \o v, mw) = u \o Append(v, mw)
          <6>1. Append(v, mw) = v \o <<mw>> /\ u \o v \in Seq(S) /\ <<mw>> \in Seq(S)
            BY <5>1, AppendIsConcat, ConcatProperties
          <6>2. Append(u \o v, mw) = (u \o v) \o <<mw>>
            BY <5>1, <6>1, AppendIsConcat
          <6>3. (u \o v) \o <<mw>> = u \o (v \o <<mw>>)
            BY <5>1, <6>1, ConcatAssociative
          <6> QED BY <6>1, <6>2, <6>3
        <5> QED BY <5>2 DEF u, v
      <4> QED BY <3>1, <3>2, <3>3, <4>2, <1>4, <1>5, <1>7, <1>10
    <3>4. CASE ~(m = n /\ s = slot)
      <4>1. IsRouter(m) \/ heap'[nodes[m].extra[s]] = heap[nodes[m].extra[s]]
        BY <3>1, <3>4, <1>4, <1>5 DEF BuilderInv, OwnArrays
      <4> QED BY <3>1, <3>2, <3>4, <4>1, <1>7, <1>10
    <3> QED BY <3>3, <3>4
  <2>2. \A t \in DOMAIN trees' : \A l \in DOMAIN trees'[t], s \in Slots :
          trees'[t][l].wrote[s] = heap'[trees'[t][l].middleware[s]]
    <3> SUFFICES ASSUME NEW t \in DOMAIN trees, NEW l \in DOMAIN trees[t], NEW s \in Slots
                 PROVE  trees[t][l].wrote[s] = heap'[trees[t][l].middleware[s]]
      BY <1>5
    <3>1. trees[t] \in TreeType
      BY <1>1, ElementOfSeq
    <3>2. trees[t][l].middleware[s] \in DOMAIN heap /\ trees[t][l].middleware[s] # own
      BY <3>1, <1>4, <1>5 DEF TreeType, LeafType, BuilderInv, OwnArrays
    <3> QED BY <3>2, <1>5 DEF BuilderInv, BuiltAsWritten
  <2>3. \A t \in DOMAIN trees' : Findable(trees'[t])
    <3>1. \A t \in DOMAIN trees : Findable(trees[t])
      BY DEF BuilderInv, BuiltAsWritten
    <3> QED BY <3>1, <1>5
  <2>4. \A m \in DOMAIN nodes', s \in Slots :
          nodes'[m].wrote[s] = heap'[nodes'[m].inherited[s]] \o
                 (IF IsRouter(m)' THEN <<>> ELSE heap'[nodes'[m].extra[s]])
    BY <2>1, <1>7
  <2> QED BY <2>4, <2>2, <2>3, Zenon DEF BuiltAsWritten
<1> QED BY <1>9, <1>11, <1>12 DEF BuilderInv

LEMMA HeapExtended ==
  ASSUME heap \in Seq(Middleware), NEW new \in Seq(Middleware), heap' = heap \o new
  PROVE  /\ HeapGrows /\ heap' \in Seq(Middleware)
         /\ Len(heap) \in Nat /\ Len(new) \in Nat /\ Len(heap') = Len(heap) + Len(new)
         /\ DOMAIN heap = 1 .. Len(heap) /\ DOMAIN heap' = 1 .. Len(heap')
         /\ \A i \in 1 .. Len(new) : heap'[Len(heap) + i] = new[i]
<1>1. /\ heap' \in Seq(Middleware)
      /\ Len(heap) \in Nat /\ Len(new) \in Nat /\ Len(heap') = Len(heap) + Len(new)
      /\ DOMAIN heap = 1 .. Len(heap) /\ DOMAIN heap' = 1 .. Len(heap')
      /\ \A i \in 1 .. Len(heap') :
           heap'[i] = IF i <= Len(heap) THEN heap[i] ELSE new[i - Len(heap)]
  BY ConcatProperties, LenProperties
<1>2. ASSUME NEW i \in 1 .. Len(new) PROVE heap'[Len(heap) + i] = new[i]
  <2>1. /\ Len(heap) + i \in 1 .. Len(heap') /\ ~(Len(heap) + i <= Len(heap))
        /\ (Len(heap) + i) - Len(heap) = i
    BY <1>1
  <2> QED BY <2>1, <1>1
<1>3. HeapGrows
  BY <1>1 DEF HeapGrows
<1> QED BY <1>1, <1>2, <1>3

LEMMA NoMiddleware == <<>> \in Middleware
BY DEF Middleware

\* createNode over a heap that grew.
LEMMA NewNodeKeeps ==
  ASSUME BuilderInv, NEW h \in Seq(Middleware), UNCHANGED trees,
         \A i \in DOMAIN heap : i \in DOMAIN h /\ h[i] = heap[i],
         NEW path \in Leaves \cup Routers, NEW inherited \in [Slots -> DOMAIN h],
         NEW wrote \in [Slots -> Middleware],
         NewNode(h, path, inherited, wrote),
         \A n \in DOMAIN nodes, q, s \in Slots :
           ~IsRouter(n) => nodes[n].extra[q] # inherited[s],
         \A s \in Slots : wrote[s] = h[inherited[s]]
  PROVE  BuilderInv'
<1>1. heap \in Seq(Middleware) /\ Len(h) \in Nat /\ DOMAIN h = 1 .. Len(h)
      /\ \A i \in DOMAIN h : h[i] \in Middleware
  BY ElementOfSeq, LenProperties DEF BuilderInv, BuilderType
<1>2. CASE path \in Routers
  <2> DEFINE node == [path |-> path, inherited |-> inherited, extra |-> inherited,
                      wrote |-> wrote]
  <2>1. heap' = h /\ nodes' = Append(nodes, node)
    BY <1>2 DEF NewNode
  <2>2. HeapGrows
    BY <2>1 DEF HeapGrows
  <2>3. \A s \in Slots : wrote[s] = h[inherited[s]] \o <<>>
    <3> SUFFICES ASSUME NEW s \in Slots PROVE wrote[s] = h[inherited[s]] \o <<>>
      OBVIOUS
    <3>1. h[inherited[s]] \in Seq(1 .. MaxMiddleware)
      BY <1>1 DEF Middleware
    <3>2. h[inherited[s]] \o <<>> = h[inherited[s]]
      BY <3>1, ConcatEmptySeq
    <3> QED BY <3>2
  <2>4. /\ node.path = path /\ node.inherited = inherited /\ node.extra = inherited
        /\ node.wrote = wrote
    OBVIOUS
  <2>5. node = [path |-> node.path, inherited |-> node.inherited,
                extra |-> node.extra, wrote |-> node.wrote]
    BY <2>4
  <2> HIDE DEF node
  <2>20. /\ node.path \in Leaves \cup Routers
         /\ node.inherited \in [Slots -> DOMAIN heap']
         /\ node.extra \in [Slots -> DOMAIN heap']
         /\ node.wrote \in [Slots -> Middleware]
    BY <2>1, <2>4
  <2>21. \A n \in DOMAIN nodes, q, s \in Slots :
           ~IsRouter(n) => nodes[n].extra[q] # node.inherited[s]
    BY <2>4
  <2>22. node.path \notin Routers =>
           /\ node.extra["use"] # node.extra["useAfter"]
           /\ \A s, q \in Slots : /\ node.extra[s] \notin DOMAIN heap
                                  /\ node.extra[s] # node.inherited[q]
    BY <2>4, <1>2
  <2>23. \A s \in Slots :
           node.wrote[s] = heap'[node.inherited[s]] \o
             (IF node.path \in Routers THEN <<>> ELSE heap'[node.extra[s]])
    BY <2>1, <2>3, <2>4, <1>2
  <2>24. heap' \in Seq(Middleware)
    BY <2>1
  <2> QED BY <2>1, <2>2, <2>5, <2>20, <2>21, <2>22, <2>23, <2>24, NodeAdded, Zenon
<1>3. CASE path \notin Routers
  <2> DEFINE node == [path |-> path, inherited |-> inherited, extra |-> Fresh(h),
                      wrote |-> wrote]
             new == <<<<>>, <<>>>>
  <2>1. heap' = h \o new /\ nodes' = Append(nodes, node)
    BY <1>3 DEF NewNode
  <2>2. new \in Seq(Middleware) /\ Len(new) = 2 /\ new[1] = <<>> /\ new[2] = <<>>
    BY NoMiddleware
  <2>3. /\ heap' \in Seq(Middleware) /\ DOMAIN heap' = 1 .. Len(h) + 2
        /\ \A i \in 1 .. Len(h) + 2 :
             heap'[i] = IF i <= Len(h) THEN h[i] ELSE new[i - Len(h)]
    BY <2>1, <2>2, <1>1, ConcatProperties, LenProperties
  <2>4. /\ \A i \in DOMAIN h : i \in DOMAIN heap' /\ heap'[i] = h[i]
        /\ Len(h) + 1 \in DOMAIN heap' /\ Len(h) + 2 \in DOMAIN heap'
        /\ Len(h) + 1 \notin DOMAIN h /\ Len(h) + 2 \notin DOMAIN h
        /\ heap'[Len(h) + 1] = <<>> /\ heap'[Len(h) + 2] = <<>>
    <3>1. (Len(h) + 1) - Len(h) = 1 /\ (Len(h) + 2) - Len(h) = 2
      BY <1>1
    <3>2. ~(Len(h) + 1 <= Len(h)) /\ ~(Len(h) + 2 <= Len(h))
      BY <1>1
    <3>3. Len(h) + 1 \in 1 .. Len(h) + 2 /\ Len(h) + 2 \in 1 .. Len(h) + 2
      BY <1>1
    <3>4. heap'[Len(h) + 1] = <<>> /\ heap'[Len(h) + 2] = <<>>
      BY <2>2, <2>3, <3>1, <3>2, <3>3
    <3>5. \A i \in DOMAIN h : i \in DOMAIN heap' /\ heap'[i] = h[i]
      BY <1>1, <2>3
    <3> QED BY <1>1, <2>3, <3>2, <3>3, <3>4, <3>5
  <2>5. HeapGrows
    BY <2>4 DEF HeapGrows
  <2>6. /\ Fresh(h) \in [Slots -> DOMAIN heap']
        /\ Fresh(h)["use"] # Fresh(h)["useAfter"]
        /\ \A s, q \in Slots : Fresh(h)[s] \notin DOMAIN h /\ Fresh(h)[s] # inherited[q]
        /\ \A s \in Slots : heap'[Fresh(h)[s]] = <<>>
    BY <1>1, <2>4 DEF Fresh, Slots
  <2>7. \A s \in Slots : wrote[s] = heap'[inherited[s]] \o heap'[Fresh(h)[s]]
    <3> SUFFICES ASSUME NEW s \in Slots
                 PROVE  wrote[s] = heap'[inherited[s]] \o heap'[Fresh(h)[s]]
      OBVIOUS
    <3>1. h[inherited[s]] \in Seq(1 .. MaxMiddleware)
      BY <1>1 DEF Middleware
    <3>2. h[inherited[s]] \o <<>> = h[inherited[s]]
      BY <3>1, ConcatEmptySeq
    <3> QED BY <3>2, <2>4, <2>6
  <2>8. inherited \in [Slots -> DOMAIN heap']
    BY <2>4
  <2>9. /\ node.path = path /\ node.inherited = inherited /\ node.extra = Fresh(h)
        /\ node.wrote = wrote
    OBVIOUS
  <2>10. node = [path |-> node.path, inherited |-> node.inherited,
                 extra |-> node.extra, wrote |-> node.wrote]
    BY <2>9
  <2>11. \A s, q \in Slots : node.extra[s] \notin DOMAIN heap /\ node.extra[s] # node.inherited[q]
    BY <2>6, <2>9
  <2> HIDE DEF node, new
  <2>20. /\ node.path \in Leaves \cup Routers
         /\ node.inherited \in [Slots -> DOMAIN heap']
         /\ node.extra \in [Slots -> DOMAIN heap']
         /\ node.wrote \in [Slots -> Middleware]
    BY <2>6, <2>8, <2>9
  <2>21. \A n \in DOMAIN nodes, q, s \in Slots :
           ~IsRouter(n) => nodes[n].extra[q] # node.inherited[s]
    BY <2>9
  <2>22. node.path \notin Routers =>
           /\ node.extra["use"] # node.extra["useAfter"]
           /\ \A s, q \in Slots : /\ node.extra[s] \notin DOMAIN heap
                                  /\ node.extra[s] # node.inherited[q]
    BY <2>6, <2>9, <2>11
  <2>23. \A s \in Slots :
           node.wrote[s] = heap'[node.inherited[s]] \o
             (IF node.path \in Routers THEN <<>> ELSE heap'[node.extra[s]])
    BY <2>7, <2>9, <1>3
  <2>24. heap' \in Seq(Middleware)
    BY <2>3
  <2> QED BY <2>1, <2>5, <2>10, <2>20, <2>21, <2>22, <2>23, <2>24, NodeAdded, Zenon
<1> QED BY <1>2, <1>3

LEMMA AccessKeeps ==
  ASSUME BuilderInv, NEW n \in DOMAIN nodes, NEW key \in Keys, Access(n, key)
  PROVE  BuilderInv'
<1>1. /\ heap \in Seq(Middleware) /\ nodes[n] \in NodeType
      /\ IsRouter(n) /\ Append(nodes[n].path, key) \in Leaves \cup Routers
      /\ NewNode(heap, Append(nodes[n].path, key), nodes[n].inherited, nodes[n].wrote)
      /\ trees' = trees
  BY ElementOfSeq DEF Access, BuilderInv, BuilderType
<1>2. nodes[n].inherited \in [Slots -> DOMAIN heap] /\ nodes[n].wrote \in [Slots -> Middleware]
  BY <1>1 DEF NodeType
<1>3. \A m \in DOMAIN nodes, q, s \in Slots :
        ~IsRouter(m) => nodes[m].extra[q] # nodes[n].inherited[s]
  BY DEF BuilderInv, OwnArrays
<1>4. \A s \in Slots : nodes[n].wrote[s] = heap[nodes[n].inherited[s]]
  <2> SUFFICES ASSUME NEW s \in Slots
               PROVE  nodes[n].wrote[s] = heap[nodes[n].inherited[s]]
    OBVIOUS
  <2>1. nodes[n].wrote[s] = heap[nodes[n].inherited[s]] \o <<>>
    BY <1>1 DEF BuilderInv, BuiltAsWritten
  <2>2. heap[nodes[n].inherited[s]] \in Seq(1 .. MaxMiddleware)
    BY <1>1, <1>2, ElementOfSeq DEF Middleware
  <2> QED BY <2>1, <2>2, ConcatEmptySeq
<1>5. \A i \in DOMAIN heap : i \in DOMAIN heap /\ heap[i] = heap[i]
  OBVIOUS
<1> QED BY <1>1, <1>2, <1>3, <1>4, <1>5, NewNodeKeeps, Zenon

LEMMA UseOnRouterKeeps ==
  ASSUME BuilderInv, NEW n \in DOMAIN nodes, NEW slot \in Slots, UseOnRouter(n, slot)
  PROVE  BuilderInv'
<1>1. /\ heap \in Seq(Middleware) /\ nodes[n] \in NodeType /\ IsRouter(n)
      /\ trees' = trees
  BY ElementOfSeq DEF UseOnRouter, BuilderInv, BuilderType
<1>2. /\ nodes[n].inherited \in [Slots -> DOMAIN heap]
      /\ nodes[n].wrote \in [Slots -> Middleware]
      /\ nodes[n].path \in Leaves \cup Routers
      /\ Len(heap) \in Nat /\ DOMAIN heap = 1 .. Len(heap)
      /\ \A i \in DOMAIN heap : heap[i] \in Seq(1 .. MaxMiddleware)
  BY <1>1, ElementOfSeq, LenProperties DEF NodeType, Middleware
<1>3. PICK mw \in 1 .. MaxMiddleware : mw = Attached + 1
  <2>1. Attached < MaxMiddleware /\ Attached \in Nat
    BY AttachedNat DEF UseOnRouter
  <2> QED BY <2>1, ImplementerAssumption
<1> DEFINE old == heap[nodes[n].inherited[slot]]
           h == Append(heap, Append(old, mw))
           inherited == [nodes[n].inherited EXCEPT ![slot] = Len(h)]
           wrote == [nodes[n].wrote EXCEPT ![slot] = Append(@, mw)]
<1>4. NewNode(h, nodes[n].path, inherited, wrote)
  BY <1>3 DEF UseOnRouter
<1>5. old \in Seq(1 .. MaxMiddleware) /\ Append(old, mw) \in Middleware
  BY <1>2, AppendProperties DEF Middleware
<1>6. /\ h \in Seq(Middleware) /\ Len(h) = Len(heap) + 1
      /\ DOMAIN h = 1 .. Len(heap) + 1
      /\ h[Len(heap) + 1] = Append(old, mw)
      /\ \A i \in DOMAIN heap : h[i] = heap[i]
  <2> HIDE DEF old
  <2> QED BY <1>1, <1>2, <1>5, AppendProperties, LenProperties
<1>7. \A i \in DOMAIN heap : i \in DOMAIN h /\ h[i] = heap[i]
  BY <1>2, <1>6
<1>8. /\ inherited \in [Slots -> DOMAIN h]
      /\ \A s \in Slots : inherited[s] = IF s = slot THEN Len(heap) + 1
                                                     ELSE nodes[n].inherited[s]
  <2>1. Len(heap) + 1 \in DOMAIN h /\ Len(h) = Len(heap) + 1
    BY <1>2, <1>6
  <2> HIDE DEF h
  <2> QED BY <2>1, <1>2, <1>7
<1>9. /\ wrote \in [Slots -> Middleware]
      /\ \A s \in Slots : wrote[s] = IF s = slot THEN Append(nodes[n].wrote[slot], mw)
                                                 ELSE nodes[n].wrote[s]
  <2>1. Append(nodes[n].wrote[slot], mw) \in Middleware
    BY <1>2, AppendProperties DEF Middleware
  <2> QED BY <2>1, <1>2
<1>10. \A s \in Slots : nodes[n].wrote[s] = heap[nodes[n].inherited[s]]
  <2> SUFFICES ASSUME NEW s \in Slots
               PROVE  nodes[n].wrote[s] = heap[nodes[n].inherited[s]]
    OBVIOUS
  <2>1. nodes[n].wrote[s] = heap[nodes[n].inherited[s]] \o <<>>
    BY <1>1 DEF BuilderInv, BuiltAsWritten
  <2>2. heap[nodes[n].inherited[s]] \in Seq(1 .. MaxMiddleware)
    BY <1>2
  <2> QED BY <2>1, <2>2, ConcatEmptySeq
<1> HIDE DEF h, inherited, wrote
<1>11. \A s \in Slots : wrote[s] = h[inherited[s]]
  <2> SUFFICES ASSUME NEW s \in Slots PROVE wrote[s] = h[inherited[s]]
    OBVIOUS
  <2>1. CASE s = slot
    BY <2>1, <1>6, <1>8, <1>9, <1>10
  <2>2. CASE s # slot
    <3>1. nodes[n].inherited[s] \in DOMAIN heap
      BY <1>2
    <3> QED BY <2>2, <3>1, <1>7, <1>8, <1>9, <1>10
  <2> QED BY <2>1, <2>2
<1>12. \A m \in DOMAIN nodes, q, s \in Slots :
         ~IsRouter(m) => nodes[m].extra[q] # inherited[s]
  <2> SUFFICES ASSUME NEW m \in DOMAIN nodes, NEW q \in Slots, NEW s \in Slots, ~IsRouter(m)
               PROVE  nodes[m].extra[q] # inherited[s]
    OBVIOUS
  <2>1. nodes[m].extra[q] \in DOMAIN heap
    <3>1. nodes[m] \in NodeType
      BY ElementOfSeq DEF BuilderInv, BuilderType
    <3> QED BY <3>1 DEF NodeType
  <2>2. nodes[m].extra[q] # nodes[n].inherited[s]
    BY DEF BuilderInv, OwnArrays
  <2>3. Len(heap) + 1 \notin DOMAIN heap
    BY <1>2
  <2> QED BY <2>1, <2>2, <2>3, <1>8
<1>13. /\ h \in Seq(Middleware) /\ inherited \in [Slots -> DOMAIN h]
       /\ wrote \in [Slots -> Middleware]
  BY <1>6, <1>8, <1>9
<1> QED BY <1>1, <1>2, <1>4, <1>7, <1>11, <1>12, <1>13, NewNodeKeeps, ZenonT(30)

LEMMA HandlerKeeps ==
  ASSUME BuilderInv, NEW n \in DOMAIN nodes, Handler(n)
  PROVE  BuilderInv'
<1> DEFINE node == nodes[n]
           both(s) == Joined(node.inherited, node.extra, s)
           new == <<both("use"), both("useAfter")>>
           tree == [l \in {<<>>} |-> [middleware |-> Fresh(heap), path |-> node.path,
                                     wrote |-> node.wrote]]
<1>1. /\ heap' = heap \o new /\ trees' = Append(trees, tree) /\ nodes' = nodes
      /\ ~IsRouter(n) /\ node \in NodeType /\ heap \in Seq(Middleware)
  BY ElementOfSeq DEF Handler, BuilderInv, BuilderType
<1>2. /\ node.inherited \in [Slots -> DOMAIN heap] /\ node.extra \in [Slots -> DOMAIN heap]
      /\ node.wrote \in [Slots -> Middleware] /\ node.path \in Names
  BY <1>1, PathNames DEF NodeType
<1>3. \A s \in Slots : both(s) \in Middleware /\ both(s) = node.wrote[s]
  <2> SUFFICES ASSUME NEW s \in Slots PROVE both(s) \in Middleware /\ both(s) = node.wrote[s]
    OBVIOUS
  <2>1. both(s) = node.wrote[s]
    BY <1>1 DEF Joined, BuilderInv, BuiltAsWritten
  <2> QED BY <2>1, <1>2
<1> HIDE DEF both
<1>4. /\ new \in Seq(Middleware) /\ Len(new) = 2
      /\ new[1] = node.wrote["use"] /\ new[2] = node.wrote["useAfter"]
  BY <1>3 DEF Slots
<1> HIDE DEF new
<1>5. /\ HeapGrows /\ heap' \in Seq(Middleware) /\ Len(heap) \in Nat
      /\ Len(heap') = Len(heap) + 2
      /\ DOMAIN heap = 1 .. Len(heap) /\ DOMAIN heap' = 1 .. Len(heap')
      /\ heap'[Len(heap) + 1] = new[1] /\ heap'[Len(heap) + 2] = new[2]
  <2>1. /\ HeapGrows /\ heap' \in Seq(Middleware) /\ Len(heap) \in Nat
        /\ Len(heap') = Len(heap) + Len(new)
        /\ DOMAIN heap = 1 .. Len(heap) /\ DOMAIN heap' = 1 .. Len(heap')
        /\ \A i \in 1 .. Len(new) : heap'[Len(heap) + i] = new[i]
    BY <1>1, <1>4, HeapExtended
  <2> QED BY <2>1, <1>4
<1>6. /\ Len(heap) + 1 \in DOMAIN heap' /\ Len(heap) + 2 \in DOMAIN heap'
      /\ Len(heap) + 1 \notin DOMAIN heap /\ Len(heap) + 2 \notin DOMAIN heap
  BY <1>5
<1>7. \A s \in Slots : /\ Fresh(heap)[s] \in DOMAIN heap' /\ Fresh(heap)[s] \notin DOMAIN heap
                       /\ node.wrote[s] = heap'[Fresh(heap)[s]]
  BY <1>4, <1>5, <1>6 DEF Fresh, Slots
<1>8. Fresh(heap) \in [Slots -> DOMAIN heap']
  BY <1>7 DEF Fresh
<1>9. tree \in TreeType'
  <2>1. tree \in [{<<>>} -> LeafType']
    BY <1>2, <1>8 DEF LeafType
  <2>2. {<<>>} \in SUBSET Names
    BY DEF Names
  <2> QED BY <2>1, <2>2 DEF TreeType
<1>10. \A l \in DOMAIN tree, s \in Slots :
         /\ tree[l].middleware[s] \notin DOMAIN heap
         /\ tree[l].wrote[s] = heap'[tree[l].middleware[s]]
  BY <1>7
<1>11. Findable(tree)
  BY DEF Findable
<1> HIDE DEF tree
<1> QED BY <1>1, <1>5, <1>9, <1>10, <1>11, TreeAdded, Zenon

\* The leaves given to router() are those of trees built before.
LEMMA GivenLeaf ==
  ASSUME BuilderInv, NEW path, NEW impl \in GivenTo(path),
         NEW l \in DOMAIN GivenTree(impl)
  PROVE  /\ GivenTree(impl)[l] \in LeafType
         /\ \A s \in Slots :
              GivenTree(impl)[l].wrote[s] = heap[GivenTree(impl)[l].middleware[s]]
<1>1. trees \in Seq(TreeType)
  BY DEF BuilderInv, BuilderType
<1>2. l \in GivenLeaves(impl) /\ GivenTree(impl)[l] = trees[impl[Head(l)]][Tail(l)]
  BY DEF GivenTree
<1>3. PICK k \in DOMAIN impl : l \in {<<k>> \o m : m \in DOMAIN trees[impl[k]]}
  BY <1>2 DEF GivenLeaves
<1>4. PICK m \in DOMAIN trees[impl[k]] : l = <<k>> \o m
  BY <1>3
<1>5. impl[k] \in DOMAIN trees
  BY DEF GivenTo
<1>6. trees[impl[k]] \in TreeType
  BY <1>1, <1>5, ElementOfSeq
<1>7. m \in Seq(STRING) /\ trees[impl[k]][m] \in LeafType
  BY <1>6 DEF TreeType, Names
<1>8. Head(l) = k /\ Tail(l) = m
  <2>1. m \in Seq(STRING \cup {k}) /\ <<k>> \in Seq(STRING \cup {k})
    <3>1. \A i \in DOMAIN m : m[i] \in STRING \cup {k}
      BY <1>7, ElementOfSeq, LenProperties
    <3> QED BY <1>7, <3>1, SeqOver
  <2>2. /\ l \in Seq(STRING \cup {k}) /\ Len(l) = 1 + Len(m) /\ Len(m) \in Nat
        /\ l[1] = k /\ \A i \in 1 .. Len(m) : l[i + 1] = m[i]
    <3>1. /\ l \in Seq(STRING \cup {k}) /\ Len(l) = 1 + Len(m) /\ Len(m) \in Nat
          /\ \A i \in 1 .. 1 + Len(m) : l[i] = IF i <= 1 THEN k ELSE m[i - 1]
      BY <2>1, <1>4, ConcatProperties, LenProperties
    <3>2. \A i \in 1 .. Len(m) : i + 1 \in 1 .. 1 + Len(m) /\ ~(i + 1 <= 1) /\ (i + 1) - 1 = i
      BY <3>1
    <3>3. 1 \in 1 .. 1 + Len(m)
      BY <3>1
    <3> QED BY <3>1, <3>2, <3>3
  <2>3. l # <<>>
    BY <2>2, EmptySeq
  <2>4. /\ Head(l) = l[1] /\ Tail(l) \in Seq(STRING \cup {k})
        /\ Len(Tail(l)) = Len(l) - 1
        /\ \A i \in 1 .. Len(l) - 1 : Tail(l)[i] = l[i + 1]
    BY <2>2, <2>3, HeadTailProperties
  <2>5. Len(Tail(l)) = Len(m) /\ \A i \in 1 .. Len(m) : Tail(l)[i] = m[i]
    BY <2>2, <2>4
  <2>6. Len(m) = Len(Tail(l)) /\ \A i \in 1 .. Len(m) : m[i] = Tail(l)[i]
    BY <2>5
  <2>7. m = Tail(l)
    BY <2>1, <2>4, <2>6, SeqEqual
  <2> QED BY <2>2, <2>4, <2>7
<1>9. \A s \in Slots : trees[impl[k]][m].wrote[s] = heap[trees[impl[k]][m].middleware[s]]
  BY <1>5 DEF BuilderInv, BuiltAsWritten
<1> QED BY <1>2, <1>7, <1>8, <1>9

LEMMA RouterKeeps ==
  ASSUME BuilderInv, NEW n \in DOMAIN nodes, Router(n)
  PROVE  BuilderInv'
<1>1. PICK impl \in GivenTo(nodes[n].path) :
        /\ Complete(nodes[n].path, GivenTree(impl))
        /\ heap' = Inherit(nodes[n], GivenTree(impl)).heap
        /\ trees' = Append(trees, Inherit(nodes[n], GivenTree(impl)).tree)
  BY DEF Router
<1>2. /\ nodes' = nodes /\ IsRouter(n) /\ nodes[n] \in NodeType /\ heap \in Seq(Middleware)
  BY ElementOfSeq DEF Router, BuilderInv, BuilderType
<1> DEFINE node == nodes[n]
           given == GivenTree(impl)
           leaves == SetToSeq(DOMAIN given)
           at(l) == CHOOSE i \in DOMAIN leaves : leaves[i] = l
           joined(l, s) == Joined(node.inherited, given[l].middleware, s)
           copies(s) == [i \in DOMAIN leaves |-> joined(leaves[i], s)]
           slots(l) == [s \in Slots |-> Len(heap) + at(l)
                                          + (IF s = "use" THEN 0 ELSE Len(leaves))]
           wrote(l) == [s \in Slots |-> node.wrote[s] \o given[l].wrote[s]]
           tree == [l \in DOMAIN given |->
                      [middleware |-> slots(l), path |-> node.path \o l, wrote |-> wrote(l)]]
<1>3. /\ heap' = heap \o copies("use") \o copies("useAfter")
      /\ trees' = Append(trees, tree)
  BY <1>1 DEF Inherit
<1>4. DOMAIN given = Below(node.path)
  BY <1>1 DEF Complete
<1>5. /\ node.path \in Names /\ node.path \in Routers
      /\ node.inherited \in [Slots -> DOMAIN heap] /\ node.wrote \in [Slots -> Middleware]
  BY <1>2, PathNames DEF NodeType, IsRouter
<1>6. IsFiniteSet(DOMAIN given) /\ DOMAIN given \subseteq Names
  BY <1>4, <1>5, BelowFinite
<1>7. \A l \in DOMAIN given : /\ given[l] \in LeafType
                              /\ \A s \in Slots : given[l].wrote[s] = heap[given[l].middleware[s]]
  BY <1>1, GivenLeaf
<1> HIDE DEF given
<1>8. /\ leaves \in Seq(DOMAIN given) /\ Len(leaves) \in Nat /\ DOMAIN leaves = 1 .. Len(leaves)
      /\ \A l \in DOMAIN given : \E i \in DOMAIN leaves : leaves[i] = l
  BY <1>6, SetToSeqLists, LenProperties
<1> HIDE DEF leaves
<1>9. \A l \in DOMAIN given : at(l) \in 1 .. Len(leaves) /\ leaves[at(l)] = l
  BY <1>8
<1>10. \A i \in DOMAIN leaves : leaves[i] \in DOMAIN given
  BY <1>8, ElementOfSeq
<1> HIDE DEF at
<1>11. \A l \in DOMAIN given, s \in Slots :
         joined(l, s) = node.wrote[s] \o given[l].wrote[s] /\ joined(l, s) \in Middleware
  <2> SUFFICES ASSUME NEW l \in DOMAIN given, NEW s \in Slots
               PROVE  /\ joined(l, s) = node.wrote[s] \o given[l].wrote[s]
                      /\ joined(l, s) \in Middleware
    OBVIOUS
  <2>1. /\ node.wrote[s] \in Seq(1 .. MaxMiddleware)
        /\ given[l].wrote[s] \in Seq(1 .. MaxMiddleware)
        /\ heap[node.inherited[s]] \in Seq(1 .. MaxMiddleware)
    BY <1>2, <1>5, <1>7, ElementOfSeq DEF LeafType, Middleware
  <2>2. node.wrote[s] = heap[node.inherited[s]] \o <<>>
    BY <1>2 DEF BuilderInv, BuiltAsWritten
  <2>3. node.wrote[s] = heap[node.inherited[s]]
    BY <2>1, <2>2, ConcatEmptySeq
  <2>4. joined(l, s) = node.wrote[s] \o given[l].wrote[s]
    BY <2>3, <1>7 DEF Joined
  <2>5. node.wrote[s] \o given[l].wrote[s] \in Seq(1 .. MaxMiddleware)
    BY <2>1, ConcatProperties
  <2> QED BY <2>4, <2>5 DEF Middleware
<1> HIDE DEF joined
<1>12. \A s \in Slots : /\ copies(s) \in Seq(Middleware) /\ Len(copies(s)) = Len(leaves)
                        /\ \A i \in 1 .. Len(leaves) : copies(s)[i] = joined(leaves[i], s)
  <2> SUFFICES ASSUME NEW s \in Slots
               PROVE  /\ copies(s) \in Seq(Middleware) /\ Len(copies(s)) = Len(leaves)
                      /\ \A i \in 1 .. Len(leaves) : copies(s)[i] = joined(leaves[i], s)
    OBVIOUS
  <2>1. \A i \in 1 .. Len(leaves) : joined(leaves[i], s) \in Middleware
    BY <1>8, <1>10, <1>11
  <2>2. copies(s) = [i \in 1 .. Len(leaves) |-> joined(leaves[i], s)]
    BY <1>8
  <2> HIDE DEF copies
  <2>3. copies(s) \in Seq(Middleware) /\ DOMAIN copies(s) = 1 .. Len(leaves)
        /\ \A i \in 1 .. Len(leaves) : copies(s)[i] = joined(leaves[i], s)
    BY <1>8, <2>1, <2>2, IsASeq
  <2> QED BY <1>8, <2>3, LenProperties
<1> HIDE DEF copies
<1>13. PICK u \in Seq(Middleware), v \in Seq(Middleware) :
         u = copies("use") /\ v = copies("useAfter")
  BY <1>12 DEF Slots
<1>14. /\ Len(u) = Len(leaves) /\ Len(v) = Len(leaves)
       /\ \A i \in 1 .. Len(leaves) : /\ u[i] = joined(leaves[i], "use")
                                      /\ v[i] = joined(leaves[i], "useAfter")
  BY <1>12, <1>13 DEF Slots
<1> DEFINE new == u \o v
<1>15. heap' = heap \o new /\ new \in Seq(Middleware)
  BY <1>2, <1>3, <1>13, ConcatAssociative, ConcatProperties
<1>16. /\ Len(new) = Len(leaves) + Len(leaves)
       /\ \A i \in 1 .. Len(leaves) : new[i] = u[i] /\ new[Len(leaves) + i] = v[i]
  <2>0. /\ Len(new) = Len(u) + Len(v)
        /\ \A i \in 1 .. Len(u) + Len(v) :
             new[i] = IF i <= Len(u) THEN u[i] ELSE v[i - Len(u)]
    BY ConcatProperties
  <2>1. /\ Len(new) = Len(leaves) + Len(leaves)
        /\ \A i \in 1 .. Len(leaves) + Len(leaves) :
             new[i] = IF i <= Len(leaves) THEN u[i] ELSE v[i - Len(leaves)]
    <3> HIDE DEF new
    <3> QED BY <2>0, <1>14
  <2> HIDE DEF new
  <2>2. \A i \in 1 .. Len(leaves) :
          /\ i \in 1 .. Len(leaves) + Len(leaves) /\ i <= Len(leaves)
          /\ Len(leaves) + i \in 1 .. Len(leaves) + Len(leaves)
          /\ ~(Len(leaves) + i <= Len(leaves)) /\ (Len(leaves) + i) - Len(leaves) = i
    BY <1>8
  <2>3. ASSUME NEW i \in 1 .. Len(leaves)
        PROVE  new[i] = u[i] /\ new[Len(leaves) + i] = v[i]
    BY <2>1, <2>2
  <2> QED BY <2>1, <2>3
<1> HIDE DEF new
<1>17. /\ HeapGrows /\ heap' \in Seq(Middleware) /\ Len(heap) \in Nat
       /\ Len(heap') = Len(heap) + Len(new)
       /\ DOMAIN heap = 1 .. Len(heap) /\ DOMAIN heap' = 1 .. Len(heap')
       /\ \A i \in 1 .. Len(new) : heap'[Len(heap) + i] = new[i]
  BY <1>2, <1>15, HeapExtended
<1>18. ASSUME NEW l \in DOMAIN given, NEW s \in Slots
       PROVE  /\ slots(l)[s] \in DOMAIN heap' /\ slots(l)[s] \notin DOMAIN heap
              /\ heap'[slots(l)[s]] = node.wrote[s] \o given[l].wrote[s]
  <2>1. PICK i \in 1 .. Len(leaves) : i = at(l) /\ leaves[i] = l
    BY <1>9
  <2>2. CASE s = "use"
    <3>1. slots(l)[s] = Len(heap) + i
      <4>1. slots(l)[s] = Len(heap) + i + 0
        BY <2>1, <2>2
      <4> QED BY <4>1, <1>8, <1>17
    <3>2. i \in 1 .. Len(new) /\ Len(heap) + i \notin 1 .. Len(heap)
          /\ Len(heap) + i \in 1 .. Len(heap) + Len(new)
      BY <1>8, <1>16, <1>17
    <3>3. heap'[Len(heap) + i] = joined(l, s)
      BY <2>1, <2>2, <3>2, <1>14, <1>16, <1>17
    <3> QED BY <3>1, <3>2, <3>3, <1>11, <1>17
  <2>3. CASE s = "useAfter"
    <3>1. slots(l)[s] = Len(heap) + (Len(leaves) + i)
      <4>1. slots(l)[s] = Len(heap) + i + Len(leaves)
        BY <2>1, <2>3
      <4>2. Len(heap) + i + Len(leaves) = Len(heap) + (Len(leaves) + i)
        BY <1>8, <1>17
      <4> QED BY <4>1, <4>2
    <3>2. /\ Len(leaves) + i \in 1 .. Len(new)
          /\ Len(heap) + (Len(leaves) + i) \notin 1 .. Len(heap)
          /\ Len(heap) + (Len(leaves) + i) \in 1 .. Len(heap) + Len(new)
      BY <1>8, <1>16, <1>17
    <3>3. heap'[Len(heap) + (Len(leaves) + i)] = joined(l, s)
      BY <2>1, <2>3, <3>2, <1>14, <1>16, <1>17
    <3> QED BY <3>1, <3>2, <3>3, <1>11, <1>17
  <2> QED BY <2>2, <2>3 DEF Slots
<1>19. ASSUME NEW l \in DOMAIN given
       PROVE  /\ slots(l) \in [Slots -> DOMAIN heap'] /\ wrote(l) \in [Slots -> Middleware]
              /\ node.path \o l \in Names
  <2>1. \A s \in Slots : node.wrote[s] \o given[l].wrote[s] \in Middleware
    BY <1>11
  <2>2. node.path \o l \in Names
    BY <1>5, <1>6, ConcatProperties DEF Names
  <2>3. \A s \in Slots : slots(l)[s] \in DOMAIN heap'
    BY <1>18
  <2>4. slots(l) = [s \in Slots |-> slots(l)[s]]
    OBVIOUS
  <2> HIDE DEF slots
  <2> QED BY <2>1, <2>2, <2>3, <2>4
<1>20. tree \in TreeType'
  <2>1. \A l \in DOMAIN given :
          [middleware |-> slots(l), path |-> node.path \o l, wrote |-> wrote(l)] \in LeafType'
    <3> HIDE DEF slots, wrote
    <3> QED BY <1>19 DEF LeafType
  <2>2. tree \in [DOMAIN given -> LeafType']
    <3> HIDE DEF slots, wrote
    <3> QED BY <2>1
  <2> QED BY <2>2, <1>6 DEF TreeType
<1>21. \A l \in DOMAIN tree, s \in Slots :
         /\ tree[l].middleware[s] \notin DOMAIN heap
         /\ tree[l].wrote[s] = heap'[tree[l].middleware[s]]
  <2>1. ASSUME NEW l \in DOMAIN given, NEW s \in Slots
        PROVE  /\ tree[l].middleware[s] = slots(l)[s]
               /\ tree[l].wrote[s] = node.wrote[s] \o given[l].wrote[s]
    <3> HIDE DEF slots
    <3> QED OBVIOUS
  <2>2. DOMAIN tree = DOMAIN given
    OBVIOUS
  <2>3. ASSUME NEW l \in DOMAIN given, NEW s \in Slots
        PROVE  /\ tree[l].middleware[s] \notin DOMAIN heap
               /\ tree[l].wrote[s] = heap'[tree[l].middleware[s]]
    <3>1. PICK ref : ref = slots(l)[s]
      OBVIOUS
    <3>2. /\ ref \notin DOMAIN heap
          /\ heap'[ref] = node.wrote[s] \o given[l].wrote[s]
      BY <3>1, <1>18
    <3>3. /\ tree[l].middleware[s] = ref
          /\ tree[l].wrote[s] = node.wrote[s] \o given[l].wrote[s]
      BY <3>1, <2>1
    <3> HIDE DEF tree
    <3> QED BY <3>2, <3>3
  <2> HIDE DEF tree
  <2> QED BY <2>2, <2>3
<1>22. \A l \in Below(node.path) : Lookup(tree, l) /\ tree[l].path = node.path \o l
  <2> HIDE DEF slots, wrote
  <2> QED BY <1>4 DEF Lookup
<1>23. node.path \in Routers /\ UNCHANGED nodes
  BY <1>2, <1>5
<1> HIDE DEF tree, node
<1>24. Findable(tree)
  BY <1>22, <1>23 DEF Findable
<1> QED BY <1>3, <1>17, <1>20, <1>21, <1>23, <1>24, TreeAdded, Zenon

LEMMA BuilderStarts == ImplementerInit => BuilderInv
<1> SUFFICES ASSUME ImplementerInit PROVE BuilderInv
  OBVIOUS
<1> DEFINE top == [path |-> <<>>, inherited |-> Fresh(<<>>), extra |-> Fresh(<<>>),
                   wrote |-> Nothing]
<1>1. heap = <<<<>>, <<>>>> /\ nodes = <<top>> /\ trees = <<>>
  BY DEF ImplementerInit
<1>2. <<>> \in Routers
  BY DEF Routers
<1>3. heap \in Seq(Middleware) /\ DOMAIN heap = 1 .. 2 /\ heap[1] = <<>> /\ heap[2] = <<>>
  BY <1>1, NoMiddleware
<1>4. Fresh(<<>>) \in [Slots -> 1 .. 2] /\ Nothing \in [Slots -> Middleware]
  BY NoMiddleware DEF Fresh, Nothing, Slots
<1>5. top \in NodeType
  BY <1>2, <1>3, <1>4 DEF NodeType
<1>6. nodes \in Seq(NodeType) /\ DOMAIN nodes = {1} /\ nodes[1] = top
  <2> HIDE DEF top
  <2> QED BY <1>1, <1>5
<1>7. trees \in Seq(TreeType) /\ DOMAIN trees = {}
  BY <1>1
<1>8. IsRouter(1) /\ \A n \in DOMAIN nodes : IsRouter(n)
  BY <1>2, <1>6 DEF IsRouter
<1>9. \A s \in Slots : /\ nodes[1].wrote[s] = <<>> /\ heap[nodes[1].inherited[s]] = <<>>
  BY <1>3, <1>4, <1>6 DEF Nothing
<1>10. <<>> \o <<>> = <<>>
  BY <1>3, ConcatEmptySeq
<1>11. BuiltAsWritten
  BY <1>6, <1>7, <1>8, <1>9, <1>10 DEF BuiltAsWritten
<1>12. OwnArrays
  BY <1>8 DEF OwnArrays
<1> QED BY <1>3, <1>6, <1>7, <1>11, <1>12 DEF BuilderInv, BuilderType

LEMMA BuilderKept == BuilderInv /\ [ImplementerNext]_implementerVars => BuilderInv'
<1> SUFFICES ASSUME BuilderInv, [ImplementerNext]_implementerVars
             PROVE  BuilderInv'
  OBVIOUS
<1>1. ASSUME NEW n \in DOMAIN nodes, NEW key \in Keys, Access(n, key) PROVE BuilderInv'
  BY <1>1, AccessKeeps
<1>2. ASSUME NEW n \in DOMAIN nodes, NEW slot \in Slots, UseOnRouter(n, slot)
      PROVE  BuilderInv'
  BY <1>2, UseOnRouterKeeps
<1>3. ASSUME NEW n \in DOMAIN nodes, NEW slot \in Slots, UseOnProcedure(n, slot)
      PROVE  BuilderInv'
  BY <1>3, PushKeeps
<1>4. ASSUME NEW n \in DOMAIN nodes, Handler(n) PROVE BuilderInv'
  BY <1>4, HandlerKeeps
<1>5. ASSUME NEW n \in DOMAIN nodes, Router(n) PROVE BuilderInv'
  BY <1>5, RouterKeeps
<1>6. CASE UNCHANGED implementerVars
  <2>1. heap' = heap /\ nodes' = nodes /\ trees' = trees
    BY <1>6 DEF implementerVars
  <2>2. BuilderType'
    BY <2>1 DEF BuilderInv, BuilderType, NodeType, TreeType, LeafType
  <2>3. \A n : IsRouter(n)' = IsRouter(n)
    BY <2>1 DEF IsRouter
  <2>4. OwnArrays'
    BY <2>1, <2>3 DEF BuilderInv, OwnArrays
  <2>5. BuiltAsWritten'
    BY <2>1, <2>3 DEF BuilderInv, BuiltAsWritten
  <2> QED BY <2>2, <2>4, <2>5 DEF BuilderInv
<1> QED BY <1>1, <1>2, <1>3, <1>4, <1>5, <1>6 DEF ImplementerNext

\* Every contract, node, handler and router, whatever the order of calls: what
\* runs is what was written.
THEOREM BuilderTheorem == ImplementerSpec => []BuiltAsWritten
<1>1. ImplementerSpec => []BuilderInv
  BY BuilderStarts, BuilderKept, PTL DEF ImplementerSpec
<1>2. BuilderInv => BuiltAsWritten
  BY DEF BuilderInv
<1> QED BY <1>1, <1>2, PTL

-----------------------------------------------------------------------------
(* ToolCall: each property is about one call, or about the clients of two. *)
(* Fits says what a call can have come to in each of its phases,           *)
(* OwnClients that the factory's keys and clients match one to one.        *)

CallType ==
  [phase : {"listing", "challenge", "resolve", "context", "input", "running",
            "output", "failing", "report", "value", "error", "hidden", "refused",
            "rejected"},
   tool : {spec.name : spec \in ToolSpecs}, sdk : BOOLEAN, verified : BOOLEAN,
   token : Tokens, info : Calls, shownTo : SUBSET {"challenge", "call"},
   error : ToolErrors \cup {"none"},
   text : {"none", "issues", "INTERNAL", "mapped", "DECLARED"},
   told : Seq(ToolErrors), input : {"none", "model", "injected", "mapped"},
   ran : BOOLEAN, used : SUBSET Nat]

\* The text of an error shows no more than that error allows.
Shows(text, e) ==
  /\ text = "INTERNAL" <=> e \in {"unknown", "INTERNAL"}
  /\ text = "issues" <=> e = "VALIDATION"

\* Which predicates have shown a call its tool, and which scopes it holds.
Shown(k) ==
  /\ k.phase \in {"listing", "challenge", "resolve"} => "call" \notin k.shownTo /\ ~k.ran
  /\ k.phase \in {"listing", "challenge"} => k.shownTo = {}
  /\ k.phase = "refused" => "challenge" \in k.shownTo /\ ~k.ran
  /\ k.phase # "refused" /\ k.verified /\ "challenge" \in k.shownTo
       => SpecOf(k.tool).scopes \subseteq k.token
  /\ k.phase \in {"context", "input", "running"} => "call" \in k.shownTo /\ ~k.ran
  /\ k.ran => "call" \in k.shownTo

\* What a call ran on, and who was told of its error.
Answered(k) ==
  /\ k.phase \in {"output", "value"} => k.ran
  /\ k.phase = "running" \/ k.ran => k.input = InputFor(SpecOf(k.tool).mode)
  /\ k.phase \notin {"error", "rejected"} => k.told = <<>>
  /\ k.phase \in {"failing", "report"} => k.error \in ToolErrors
  /\ k.phase = "report" => Shows(k.text, k.error)
  /\ k.phase = "error" => \E e \in ToolErrors : k.told = <<e>> /\ Shows(k.text, e)

Fits(k) == Shown(k) /\ Answered(k)

\* A client is made for one key, and a call uses that of its own.
OwnClients ==
  /\ clients \in Nat /\ perCall \in [Calls -> Nat]
  /\ \A c \in Calls : perCall[c] <= clients
  /\ \A c, d \in Calls : perCall[c] # 0 /\ perCall[c] = perCall[d] => c = d
  /\ \A c \in Calls : Came(c) => calls[c].used \subseteq {perCall[c]} \ {0}

ToolInv ==
  /\ calls \in [Calls -> CallType \cup {NoCall}]
  /\ \A c \in Calls : Came(c) => Fits(calls[c])
  /\ OwnClients

-----------------------------------------------------------------------------
LEMMA CameByPhase ==
  ASSUME ToolInv, NEW c \in Calls, calls[c].phase # "none"
  PROVE  Came(c) /\ calls[c] \in CallType /\ Fits(calls[c])
BY DEF ToolInv, Came, NoCall

\* A call moves on, and uses the clients it used before.
LEMMA MoveInv ==
  ASSUME ToolInv, NEW c \in Calls, calls[c].phase # "none", NEW k \in CallType, Fits(k),
         calls' = [calls EXCEPT ![c] = k], k.used = calls[c].used,
         UNCHANGED <<perCall, clients>>
  PROVE  ToolInv'
<1>1. Came(c)
  BY CameByPhase
<1>2. k # NoCall
  BY DEF CallType, NoCall
<1>3. calls' \in [Calls -> CallType \cup {NoCall}] /\ calls'[c] = k
      /\ \A d \in Calls : d # c => calls'[d] = calls[d]
  BY DEF ToolInv
<1>4. \A d \in Calls : Came(d)' => Fits(calls'[d])
  BY <1>3 DEF ToolInv, Came
<1>5. \A d \in Calls : (Came(d)' <=> Came(d)) /\ (Came(d) => calls'[d].used = calls[d].used)
  BY <1>1, <1>2, <1>3 DEF Came
<1>6. OwnClients'
  BY <1>5 DEF ToolInv, OwnClients
<1> QED BY <1>3, <1>4, <1>6 DEF ToolInv, Fits, Shown, Answered, Shows

\* A call moves on with the client of its key.
LEMMA ClientInv ==
  ASSUME ToolInv, NEW c \in Calls, calls[c].phase # "none", NEW k \in CallType, Fits(k),
         k.used = calls[c].used, NEW next, next = [calls EXCEPT ![c] = k],
         WithClient(c, next)
  PROVE  ToolInv'
<1>1. CASE executor # "factory"
  BY <1>1, MoveInv DEF WithClient
<1>2. CASE executor = "factory"
  <2> DEFINE made == IF perCall[c] = 0 THEN clients + 1 ELSE clients
             client == IF perCall[c] = 0 THEN made ELSE perCall[c]
             kk == [k EXCEPT !.used = @ \cup {client}]
  <2>1. /\ clients' = made /\ perCall' = [perCall EXCEPT ![c] = client]
        /\ calls' = [next EXCEPT ![c].used = @ \cup {client}]
    BY <1>2 DEF WithClient, ClientKey
  <2>2. /\ clients \in Nat /\ perCall \in [Calls -> Nat] /\ perCall[c] <= clients
        /\ calls \in [Calls -> CallType \cup {NoCall}]
    BY DEF ToolInv, OwnClients
  <2>3. /\ client \in Nat /\ client > 0 /\ made \in Nat /\ clients <= made
        /\ client <= made /\ (perCall[c] # 0 => client = perCall[c])
        /\ (perCall[c] = 0 => client = clients + 1)
    BY <2>2
  <2> HIDE DEF made, client
  <2>4. kk \in CallType /\ kk.used = k.used \cup {client} /\ kk # NoCall
    BY <2>3 DEF CallType, NoCall
  <2>5. Fits(kk)
    BY DEF Fits, Shown, Answered, CallType
  <2>6. /\ calls' \in [Calls -> CallType \cup {NoCall}] /\ calls'[c] = kk
        /\ \A d \in Calls : d # c => calls'[d] = calls[d]
    BY <2>1, <2>2, <2>4
  <2>7. \A d \in Calls : Came(d)' => Fits(calls'[d])
    BY <2>5, <2>6 DEF ToolInv, Came
  <2>8. /\ perCall' \in [Calls -> Nat] /\ perCall'[c] = client
        /\ \A d \in Calls : d # c => perCall'[d] = perCall[d]
    BY <2>1, <2>2, <2>3
  <2>9. \A d \in Calls : perCall'[d] <= clients'
    BY <2>1, <2>2, <2>3, <2>8 DEF ToolInv, OwnClients
  <2>10. \A d \in Calls : d # c => perCall[d] # client
    <3> SUFFICES ASSUME NEW d \in Calls, d # c, perCall[d] = client PROVE FALSE
      OBVIOUS
    <3>1. perCall[d] <= clients /\ perCall[d] \in Nat
      BY DEF ToolInv, OwnClients
    <3>2. perCall[c] # 0
      BY <2>2, <2>3, <3>1
    <3> QED BY <2>3, <3>2 DEF ToolInv, OwnClients
  <2>11. \A d, e \in Calls : perCall'[d] # 0 /\ perCall'[d] = perCall'[e] => d = e
    BY <2>8, <2>10 DEF ToolInv, OwnClients
  <2>12. k.used \subseteq {client}
    BY <2>3, CameByPhase DEF ToolInv, OwnClients
  <2>13. \A d \in Calls : Came(d)' => calls'[d].used \subseteq {perCall'[d]} \ {0}
    <3>1. calls'[c].used \subseteq {perCall'[c]} \ {0}
      BY <2>3, <2>4, <2>6, <2>8, <2>12
    <3>2. \A d \in Calls : d # c /\ Came(d)' => calls'[d].used \subseteq {perCall'[d]} \ {0}
      BY <2>6, <2>8 DEF ToolInv, OwnClients, Came
    <3> QED BY <3>1, <3>2
  <2>14. OwnClients'
    BY <2>1, <2>3, <2>8, <2>9, <2>11, <2>13 DEF OwnClients
  <2> QED BY <2>6, <2>7, <2>14 DEF ToolInv, Fits, Shown, Answered, Shows
<1> QED BY <1>1, <1>2

LEMMA ArriveInv ==
  ASSUME ToolInv, NEW c \in Calls, Arrive(c)
  PROVE  ToolInv'
<1>1. PICK spec \in ToolSpecs, sdk \in BOOLEAN, verified \in BOOLEAN, token \in Tokens,
           info \in 1 .. c :
        /\ ~verified => token = {}
        /\ sdk => c \in SdkCalls
        /\ ~sdk => ~verified
        /\ info # c => ~sdk /\ calls[info].info = info /\ ~calls[info].sdk
        /\ calls' = [calls EXCEPT ![c] =
          [phase |-> IF sdk THEN "listing" ELSE "resolve", tool |-> spec.name,
           sdk |-> sdk, verified |-> verified, token |-> token, info |-> info,
           shownTo |-> {}, error |-> "none", text |-> "none",
           told |-> <<>>, input |-> "none", ran |-> FALSE, used |-> {}]]
  BY DEF Arrive
<1> DEFINE k == [phase |-> IF sdk THEN "listing" ELSE "resolve", tool |-> spec.name,
                 sdk |-> sdk, verified |-> verified, token |-> token, info |-> info,
                 shownTo |-> {}, error |-> "none", text |-> "none",
                 told |-> <<>>, input |-> "none", ran |-> FALSE, used |-> {}]
<1>2. k \in CallType /\ Fits(k) /\ k.used = {}
  <2>1. info \in Calls /\ <<>> \in Seq(ToolErrors)
    BY MaxCallsAssumption, EmptySeq DEF Calls
  <2>2. spec.name \in {s.name : s \in ToolSpecs}
    OBVIOUS
  <2>3. k \in CallType
    BY <2>1, <2>2 DEF CallType
  <2>4. Shown(k) /\ Answered(k)
    BY DEF Shown, Answered
  <2> QED BY <2>3, <2>4 DEF Fits
<1>3. calls' = [calls EXCEPT ![c] = k] /\ UNCHANGED <<perCall, clients>>
  BY <1>1 DEF Arrive
<1> HIDE DEF k
<1>4. calls' \in [Calls -> CallType \cup {NoCall}] /\ calls'[c] = k
      /\ \A d \in Calls : d # c => calls'[d] = calls[d]
  BY <1>2, <1>3 DEF ToolInv
<1>5. \A d \in Calls : Came(d)' => Fits(calls'[d])
  BY <1>2, <1>4 DEF ToolInv, Came
<1>6. \A d \in Calls : Came(d)' => calls'[d].used \subseteq {perCall[d]} \ {0}
  BY <1>2, <1>4 DEF ToolInv, OwnClients, Came
<1>7. OwnClients'
  BY <1>3, <1>6 DEF ToolInv, OwnClients
<1> QED BY <1>4, <1>5, <1>7 DEF ToolInv, Fits, Shown, Answered, Shows

\* The call hides, is refused or rejected, or waits for another step.
LEMMA BecomeInv ==
  ASSUME ToolInv, NEW c \in Calls, NEW p, Become(c, p), UNCHANGED <<perCall, clients>>,
         \/ /\ p \in {"hidden", "rejected"}
            /\ calls[c].phase \in {"listing", "challenge", "resolve", "failing"}
         \/ calls[c].phase = "listing" /\ p = "challenge"
         \/ calls[c].phase = "challenge" /\ p = "resolve"
         \/ calls[c].phase = "output" /\ p = "value"
  PROVE  ToolInv'
<1>1. calls[c].phase # "none"
  OBVIOUS
<1>2. calls[c] \in CallType /\ Fits(calls[c])
  BY <1>1, CameByPhase
<1> DEFINE k == [calls[c] EXCEPT !.phase = p]
<1>3. k \in CallType /\ k.used = calls[c].used
  BY <1>2 DEF CallType
<1>4. Fits(k)
  <2>1. Shown(k)
    BY <1>2 DEF Fits, Shown, CallType
  <2>2. Answered(k)
    BY <1>2 DEF Fits, Answered, CallType
  <2> QED BY <2>1, <2>2 DEF Fits
<1>5. calls' = [calls EXCEPT ![c] = k]
  BY DEF Become
<1> QED BY <1>1, <1>3, <1>4, <1>5, MoveInv

LEMMA ThrowInv ==
  ASSUME ToolInv, NEW c \in Calls, NEW e \in ToolErrors, Throw(c, e),
         UNCHANGED <<perCall, clients>>,
         calls[c].phase \in {"context", "input", "running", "output"}
  PROVE  ToolInv'
<1>1. calls[c] \in CallType /\ Fits(calls[c])
  BY CameByPhase
<1> DEFINE k == [calls[c] EXCEPT !.phase = "failing", !.error = e]
<1>2. k \in CallType /\ k.used = calls[c].used
  BY <1>1 DEF CallType
<1>3. Shown(k)
  BY <1>1 DEF Fits, Shown, CallType
<1>4. Answered(k)
  BY <1>1 DEF Fits, Answered, CallType
<1>5. calls' = [calls EXCEPT ![c] = k]
  BY DEF Throw
<1> QED BY <1>2, <1>3, <1>4, <1>5, MoveInv DEF Fits

\* Who may see the tool.
LEMMA ViewInv ==
  ASSUME ToolInv, NEW c \in Calls, Listing(c) \/ ScopeChallenge(c) \/ ResolveView(c)
  PROVE  ToolInv'
<1>1. CASE Listing(c)
  <2>1. UNCHANGED <<perCall, clients>> /\ calls[c].phase = "listing"
    BY <1>1 DEF Listing, Phase
  <2>2. \E p \in {"challenge", "hidden", "rejected"} : Become(c, p)
    BY <1>1 DEF Listing
  <2> QED BY <2>1, <2>2, BecomeInv
<1>2. CASE ScopeChallenge(c)
  <2>1. UNCHANGED <<perCall, clients>> /\ calls[c].phase = "challenge"
    BY <1>2 DEF ScopeChallenge, Phase
  <2>2. CASE Become(c, "resolve") \/ Become(c, "rejected")
    BY <2>1, <2>2, BecomeInv
  <2>3. ASSUME NEW shown,
               calls[c].verified,
               LET required == IF calls[c].tool \in shown THEN SpecOf(calls[c].tool).scopes
                               ELSE {}
               IN  calls' = [calls EXCEPT
                     ![c].phase = IF required \subseteq calls[c].token THEN "resolve"
                                  ELSE "refused",
                     ![c].shownTo = IF calls[c].tool \in shown THEN @ \cup {"challenge"}
                                    ELSE @]
        PROVE  ToolInv'
    <3>1. calls[c] \in CallType /\ Fits(calls[c])
      BY <2>1, CameByPhase
    <3> DEFINE scopes == SpecOf(calls[c].tool).scopes
               phase == IF calls[c].tool \in shown /\ ~(scopes \subseteq calls[c].token)
                        THEN "refused" ELSE "resolve"
               shownTo == IF calls[c].tool \in shown
                          THEN calls[c].shownTo \cup {"challenge"} ELSE calls[c].shownTo
               k == [calls[c] EXCEPT !.phase = phase, !.shownTo = shownTo]
    <3>2. phase = IF (IF calls[c].tool \in shown THEN scopes ELSE {}) \subseteq calls[c].token
                  THEN "resolve" ELSE "refused"
      OBVIOUS
    <3>3. calls' = [calls EXCEPT ![c] = k]
      BY <2>3, <3>2
    <3>4. calls[c].shownTo = {}
      BY <2>1, <3>1 DEF Fits, Shown
    <3>5. /\ phase \in {"refused", "resolve"}
          /\ shownTo \in {{}, {"challenge"}}
          /\ phase = "refused" => "challenge" \in shownTo
          /\ phase = "resolve" /\ "challenge" \in shownTo => scopes \subseteq calls[c].token
      BY <3>4
    <3> HIDE DEF phase, shownTo
    <3>6. k \in CallType /\ k.used = calls[c].used
      BY <3>1, <3>5 DEF CallType
    <3>7. Shown(k)
      BY <2>1, <3>1, <3>5 DEF Fits, Shown, CallType
    <3>8. Answered(k)
      BY <2>1, <3>1, <3>5 DEF Fits, Answered, CallType
    <3> QED BY <2>1, <3>3, <3>6, <3>7, <3>8, MoveInv DEF Fits
  <2> QED BY <1>2, <2>2, <2>3 DEF ScopeChallenge
<1>3. CASE ResolveView(c)
  <2>1. UNCHANGED <<perCall, clients>> /\ calls[c].phase = "resolve"
    BY <1>3 DEF ResolveView, Phase
  <2>2. CASE Become(c, "rejected")
    BY <2>1, <2>2, BecomeInv
  <2>3. ASSUME NEW shown, ResolvedTo(c, shown) PROVE ToolInv'
    <3>1. calls[c] \in CallType /\ Fits(calls[c])
      BY <2>1, CameByPhase
    <3> DEFINE k == [calls[c] EXCEPT
                 !.phase = IF calls[c].tool \in shown THEN "context" ELSE "hidden",
                 !.shownTo = IF calls[c].tool \in shown THEN @ \cup {"call"} ELSE @]
    <3>2. calls' = [calls EXCEPT ![c] = k]
      BY <2>3 DEF ResolvedTo
    <3>3. k \in CallType /\ k.used = calls[c].used
      BY <3>1 DEF CallType
    <3>4. Shown(k)
      BY <2>1, <3>1 DEF Fits, Shown, CallType
    <3>5. Answered(k)
      BY <2>1, <3>1 DEF Fits, Answered, CallType
    <3> QED BY <2>1, <3>2, <3>3, <3>4, <3>5, MoveInv DEF Fits
  <2> QED BY <1>3, <2>2, <2>3 DEF ResolveView
<1> QED BY <1>1, <1>2, <1>3

\* callTool up to the value, or the error.
LEMMA CallInv ==
  ASSUME ToolInv, NEW c \in Calls,
         Context(c) \/ ProcedureInput(c) \/ RunTool(c) \/ MapOutput(c)
  PROVE  ToolInv'
<1>0. {"unknown", "DECLARED", "VALIDATION", "INTERNAL"} \subseteq ToolErrors
  BY DEF ToolErrors
<1>1. CASE Context(c)
  <2>1. calls[c].phase = "context" /\ calls[c] \in CallType /\ Fits(calls[c])
    BY <1>1, CameByPhase DEF Context, Phase
  <2>2. CASE WithClient(c, [calls EXCEPT ![c].phase = "input"])
    <3> DEFINE k == [calls[c] EXCEPT !.phase = "input"]
    <3>1. k \in CallType /\ k.used = calls[c].used
      BY <2>1 DEF CallType
    <3>2. Shown(k) /\ Answered(k)
      BY <2>1 DEF Fits, Shown, Answered, CallType
    <3>3. [calls EXCEPT ![c].phase = "input"] = [calls EXCEPT ![c] = k]
      OBVIOUS
    <3> HIDE DEF k
    <3> QED BY <2>1, <2>2, <3>1, <3>2, <3>3, ClientInv DEF Fits
  <2> QED BY <1>0, <1>1, <2>1, <2>2, ThrowInv DEF Context
<1>2. CASE ProcedureInput(c)
  <2>1. /\ calls[c].phase = "input" /\ calls[c] \in CallType /\ Fits(calls[c])
        /\ UNCHANGED <<perCall, clients>>
    BY <1>2, CameByPhase DEF ProcedureInput, Phase
  <2>2. CASE calls' = [calls EXCEPT ![c].phase = "running",
                                    ![c].input = InputFor(SpecOf(calls[c].tool).mode)]
    <3> DEFINE input == InputFor(SpecOf(calls[c].tool).mode)
               k == [calls[c] EXCEPT !.phase = "running", !.input = input]
    <3>1. input \in {"mapped", "injected", "model"}
      BY DEF InputFor
    <3>2. calls' = [calls EXCEPT ![c] = k]
      BY <2>2
    <3>3. k \in CallType /\ k.used = calls[c].used
      BY <2>1, <3>1 DEF CallType
    <3>4. Shown(k) /\ Answered(k)
      BY <2>1 DEF Fits, Shown, Answered, CallType
    <3> QED BY <2>1, <3>2, <3>3, <3>4, MoveInv DEF Fits
  <2> QED BY <1>0, <1>2, <2>1, <2>2, ThrowInv DEF ProcedureInput
<1>3. CASE RunTool(c)
  <2>1. calls[c].phase = "running" /\ calls[c] \in CallType /\ Fits(calls[c])
    BY <1>3, CameByPhase DEF RunTool, Phase
  <2>2. CASE WithClient(c, [calls EXCEPT ![c].phase = "output", ![c].ran = TRUE])
    <3> DEFINE k == [calls[c] EXCEPT !.phase = "output", !.ran = TRUE]
    <3>1. k \in CallType /\ k.used = calls[c].used
      BY <2>1 DEF CallType
    <3>2. Shown(k) /\ Answered(k)
      BY <2>1 DEF Fits, Shown, Answered, CallType
    <3>3. [calls EXCEPT ![c].phase = "output", ![c].ran = TRUE] = [calls EXCEPT ![c] = k]
      OBVIOUS
    <3> HIDE DEF k
    <3> QED BY <2>1, <2>2, <3>1, <3>2, <3>3, ClientInv DEF Fits
  <2>3. ASSUME NEW e \in ToolErrors,
               WithClient(c, [calls EXCEPT ![c].phase = "failing", ![c].error = e,
                                           ![c].ran = TRUE])
        PROVE  ToolInv'
    <3> DEFINE k == [calls[c] EXCEPT !.phase = "failing", !.error = e, !.ran = TRUE]
    <3>1. k \in CallType /\ k.used = calls[c].used
      BY <2>1 DEF CallType
    <3>2. Shown(k) /\ Answered(k)
      BY <2>1 DEF Fits, Shown, Answered, CallType
    <3>3. [calls EXCEPT ![c].phase = "failing", ![c].error = e, ![c].ran = TRUE]
            = [calls EXCEPT ![c] = k]
      OBVIOUS
    <3> HIDE DEF k
    <3> QED BY <2>1, <2>3, <3>1, <3>2, <3>3, ClientInv DEF Fits
  <2> QED BY <1>3, <2>2, <2>3 DEF RunTool
<1>4. CASE MapOutput(c)
  <2>1. calls[c].phase = "output" /\ UNCHANGED <<perCall, clients>>
    BY <1>4 DEF MapOutput, Phase
  <2> QED BY <1>0, <1>4, <2>1, BecomeInv, ThrowInv DEF MapOutput
<1> QED BY <1>1, <1>2, <1>3, <1>4

\* The text of the error, and who is told.
LEMMA ErrorInv ==
  ASSUME ToolInv, NEW c \in Calls, TextOfError(c) \/ ReportError(c)
  PROVE  ToolInv'
<1>1. CASE TextOfError(c)
  <2>1. /\ calls[c].phase = "failing" /\ calls[c] \in CallType /\ Fits(calls[c])
        /\ UNCHANGED <<perCall, clients>>
    BY <1>1, CameByPhase DEF TextOfError, Phase
  <2>2. ASSUME NEW e \in ToolErrors, NEW mapped, ErrorText(c, e, mapped) PROVE ToolInv'
    <3> DEFINE text == IF e = "VALIDATION" THEN "issues"
                       ELSE IF e # "DECLARED" THEN "INTERNAL"
                       ELSE IF mapped THEN "mapped" ELSE "DECLARED"
               k == [calls[c] EXCEPT !.phase = "report", !.error = e, !.text = text]
    <3>1. text \in {"issues", "INTERNAL", "mapped", "DECLARED"} /\ Shows(text, e)
      BY DEF Shows, ToolErrors
    <3>2. calls' = [calls EXCEPT ![c] = k]
      BY <2>2 DEF ErrorText
    <3> HIDE DEF text
    <3>3. k \in CallType /\ k.used = calls[c].used
      BY <2>1, <3>1 DEF CallType
    <3>4. Shown(k) /\ Answered(k)
      BY <2>1, <3>1 DEF Fits, Shown, Answered, CallType
    <3> QED BY <2>1, <3>2, <3>3, <3>4, MoveInv DEF Fits
  <2>3. calls[c].error \in ToolErrors
    BY <2>1 DEF Fits, Answered
  <2> QED BY <1>1, <2>1, <2>2, <2>3, BecomeInv DEF TextOfError
<1>2. CASE ReportError(c)
  <2>1. /\ calls[c].phase = "report" /\ calls[c] \in CallType /\ Fits(calls[c])
        /\ UNCHANGED <<perCall, clients>>
    BY <1>2, CameByPhase DEF ReportError, Phase
  <2>2. PICK p \in {"error", "rejected"} :
          calls' = [calls EXCEPT ![c].phase = p, ![c].told = Append(@, calls[c].error),
                                ![c].error = "none"]
    BY <1>2 DEF ReportError
  <2>3. /\ calls[c].told = <<>> /\ calls[c].error \in ToolErrors
        /\ Shows(calls[c].text, calls[c].error)
    BY <2>1 DEF Fits, Answered
  <2> DEFINE told == <<calls[c].error>>
             k == [calls[c] EXCEPT !.phase = p, !.told = told, !.error = "none"]
  <2>4. told \in Seq(ToolErrors) /\ Append(calls[c].told, calls[c].error) = told
    BY <2>3
  <2>5. calls' = [calls EXCEPT ![c] = k]
    BY <2>2, <2>4
  <2>6. \E e \in ToolErrors : told = <<e>> /\ Shows(calls[c].text, e)
    BY <2>3
  <2> HIDE DEF told
  <2>7. k \in CallType /\ k.used = calls[c].used
    BY <2>1, <2>4 DEF CallType
  <2>8. Shown(k)
    BY <2>1 DEF Fits, Shown, CallType
  <2>9. Answered(k)
    BY <2>1, <2>6 DEF Fits, Answered, CallType
  <2> QED BY <2>1, <2>5, <2>7, <2>8, <2>9, MoveInv DEF Fits
<1> QED BY <1>1, <1>2

LEMMA ToolInitInv ==
  ASSUME ToolInit
  PROVE  ToolInv
<1>1. \A c \in Calls : ~Came(c)
  BY DEF ToolInit, Came
<1>2. clients = 0 /\ perCall \in [Calls -> Nat] /\ \A c \in Calls : perCall[c] = 0
  BY DEF ToolInit
<1>3. calls \in [Calls -> CallType \cup {NoCall}]
  BY DEF ToolInit
<1> QED BY <1>1, <1>2, <1>3 DEF ToolInv, OwnClients

LEMMA ToolSame ==
  ASSUME ToolInv, UNCHANGED toolVars
  PROVE  ToolInv'
<1>1. UNCHANGED <<calls, perCall, clients>>
  BY DEF toolVars
<1> QED BY <1>1 DEF ToolInv, OwnClients, Came, Fits, Shown, Answered, Shows

LEMMA ToolFollows ==
  ASSUME ToolInv
  PROVE  HiddenIsUnknown /\ ClientPerCall /\ ResultsAreHonest
<1>1. \A c \in Calls : Came(c) => Fits(calls[c]) /\ calls[c] \in CallType
  BY DEF ToolInv, Came
<1>2. HiddenIsUnknown
  BY <1>1 DEF HiddenIsUnknown, Fits, Shown, Phase
<1>3. ClientPerCall
  <2> SUFFICES ASSUME NEW c \in Calls, Came(c)
               PROVE  /\ Cardinality(calls[c].used) <= 1
                      /\ \A d \in Calls : Came(d) /\ d # c
                           => calls[c].used \cap calls[d].used = {}
    BY DEF ClientPerCall
  <2>1. calls[c].used \subseteq {perCall[c]} /\ perCall[c] \in Nat
    BY DEF ToolInv, OwnClients
  <2>2. Cardinality(calls[c].used) <= 1
    <3>1. calls[c].used = {} \/ calls[c].used = {perCall[c]}
      BY <2>1
    <3>2. Cardinality({}) = 0 /\ Cardinality({perCall[c]}) = 1
      BY FS_EmptySet, FS_Singleton
    <3> QED BY <3>1, <3>2
  <2>3. \A d \in Calls : Came(d) /\ d # c => calls[c].used \cap calls[d].used = {}
    BY DEF ToolInv, OwnClients
  <2> QED BY <2>2, <2>3
<1>4. ResultsAreHonest
  <2> SUFFICES ASSUME NEW c \in Calls, Came(c)
               PROVE  /\ Phase(c, "error") =>
                           /\ Len(calls[c].told) = 1
                           /\ calls[c].text = "INTERNAL"
                                <=> calls[c].told[1] \in {"unknown", "INTERNAL"}
                           /\ calls[c].text = "issues" <=> calls[c].told[1] = "VALIDATION"
                      /\ Phase(c, "value") => calls[c].told = <<>> /\ calls[c].ran
                      /\ calls[c].ran /\ SpecOf(calls[c].tool).mode = "inject"
                           => calls[c].input # "model"
    BY DEF ResultsAreHonest
  <2>1. Answered(calls[c])
    BY <1>1 DEF Fits
  <2>2. ASSUME Phase(c, "error")
        PROVE  /\ Len(calls[c].told) = 1
               /\ calls[c].text = "INTERNAL"
                    <=> calls[c].told[1] \in {"unknown", "INTERNAL"}
               /\ calls[c].text = "issues" <=> calls[c].told[1] = "VALIDATION"
    <3>1. PICK e \in ToolErrors : calls[c].told = <<e>> /\ Shows(calls[c].text, e)
      BY <2>1, <2>2 DEF Answered, Phase
    <3>2. Len(calls[c].told) = 1 /\ calls[c].told[1] = e
      BY <3>1
    <3> QED BY <3>1, <3>2 DEF Shows
  <2>3. calls[c].ran /\ SpecOf(calls[c].tool).mode = "inject" => calls[c].input # "model"
    BY <2>1 DEF Answered, InputFor
  <2> QED BY <2>1, <2>2, <2>3 DEF Answered, Phase
<1> QED BY <1>2, <1>3, <1>4

\* ToolCall: where a call can be, whom it was shown to and what it used.
THEOREM ToolInvariant == ToolCallSpec => []ToolInv
<1>1. ToolInit => ToolInv
  BY ToolInitInv
<1>2. ToolInv /\ [ToolNext]_toolVars => ToolInv'
  BY ArriveInv, ViewInv, CallInv, ErrorInv, ToolSame DEF ToolNext
<1> QED BY <1>1, <1>2, PTL DEF ToolCallSpec

\* bind.ts and host.ts: a hidden tool does not run and no challenge names its
\* scopes; a tool runs without a scope it asks for only if the challenge found it
\* hidden.
THEOREM HiddenTheorem == ToolCallSpec => []HiddenIsUnknown
<1>1. ToolInv => HiddenIsUnknown
  BY ToolFollows
<1> QED BY <1>1, ToolInvariant, PTL

\* executor.ts clientExecutor, keyed by the info object callTool makes: one client
\* per call, shared with no other.
THEOREM ClientTheorem == ToolCallSpec => []ClientPerCall
<1>1. ToolInv => ClientPerCall
  BY ToolFollows
<1> QED BY <1>1, ToolInvariant, PTL

\* call.ts: an error is reported once and its text shows no more than it allows;
\* a value was reported to nobody; an injected key is not the model's.
THEOREM ResultTheorem == ToolCallSpec => []ResultsAreHonest
<1>1. ToolInv => ResultsAreHonest
  BY ToolFollows
<1> QED BY <1>1, ToolInvariant, PTL
=============================================================================
