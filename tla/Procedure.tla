----------------------------- MODULE Procedure ------------------------------
(***************************************************************************)
(* runProcedure (server/src/runtime.ts) under its call interceptors        *)
(* (call-interceptor.ts, events.ts) and middleware (middleware.ts): one    *)
(* call down a chain.  A frame is one invocation of an entry of the chain; *)
(* a run is one Execution, made each time the innermost interceptor calls  *)
(* next().  Interceptors, middleware and the handler are the user's: they  *)
(* call next() when they like and settle as they like, except the four     *)
(* observers of events.ts.  A step is what runs between two awaits.        *)
(*                                                                         *)
(* An input says who supplied it, whether it satisfies the schema and      *)
(* which run parsed it.  A context is the set of those who contributed.    *)
(***************************************************************************)
EXTENDS Integers, Sequences, FiniteSets

CONSTANTS Chains,      \* the chains checked: sequences of kinds, see below
          Hedgers,     \* kinds that call next() while an earlier one is pending
          MaxFrames    \* bound of the model: invocations of one call

VARIABLES chain,    \* the chain of this procedure
          frames,   \* the invocations, in the order they started
          runs      \* the executions

procedureVars == <<chain, frames, runs>>

\* "input" is the check between .use() and .useAfter(); a chain without it is
\* one with validation.input false, or without an input schema.
Observers == {"onStart", "onSuccess", "onError", "onFinish"}
Interceptors == {"interceptor"} \cup Observers
Kinds == Interceptors \cup {"use", "input", "useAfter", "handler"}

\* Interceptors run around every execution; an execution is .use(), the check of
\* the input, .useAfter() and the handler, in this order.
Stage(kind) ==
  CASE kind \in Interceptors -> 1 [] kind = "use" -> 2 [] kind = "input" -> 3
    [] kind = "useAfter" -> 4 [] kind = "handler" -> 5

ASSUME ChainsAssumption ==
  \A ch \in Chains :
    /\ ch \in Seq(Kinds) /\ ch # <<>>
    /\ \A i \in DOMAIN ch : ch[i] = "handler" <=> i = Len(ch)
    /\ \A i, j \in DOMAIN ch : i < j =>
         Stage(ch[i]) <= Stage(ch[j]) /\ ~(ch[i] = "input" /\ ch[j] = "input")

ASSUME MaxFramesAssumption == MaxFrames \in Nat

Caller == 0    \* supplies the first input, context and signal

Input == [by : Nat, ok : BOOLEAN, parsed : Nat]

\* "bad" is a declared error whose data does not satisfy the declaration,
\* "error" any other that the user's code throws.
Results == [is : {"none", "value", "error", "bad", "validation", "internal"},
            by : Nat]
None == [is |-> "none", by |-> 0]
IsError(r) == r.is \notin {"none", "value"}

ProcedureTypeOK ==
  /\ chain \in Chains
  /\ frames \in Seq([at : Nat, parent : Nat, run : Nat, input : Input,
                     context : SUBSET Nat, signal : Nat, nexts : 0 .. 2,
                     checking : BOOLEAN, result : Results])
  /\ runs \in Seq([input : Input, context : SUBSET Nat, signal : Nat])

Kind(f) == chain[frames[f].at]
Running(f) == frames[f].result = None /\ ~frames[f].checking
Children(f) == {c \in DOMAIN frames : frames[c].parent = f}
Pending(f) == {c \in Children(f) : frames[c].result = None}

-----------------------------------------------------------------------------
(* Starting a frame *)

Frame(at, parent, run, input, context, signal) ==
  [at |-> at, parent |-> parent, run |-> run, input |-> input,
   context |-> context, signal |-> signal, nexts |-> 0,
   checking |-> chain[at] = "input", result |-> None]

\* runUse, runUseAfter and runHandler read the execution when they start.
Enter(fs, run, at, parent, n) ==
  Append(fs, Frame(at, parent, n, run.input, run.context, run.signal))

\* The execution: a copy of the context it starts from.
Execution(input, context, signal) ==
  [input |-> input, context |-> context, signal |-> signal]

\* Mutant of Start: the executions of a call share one record.
StartShared(fs, at, parent, input, context, signal) ==
  IF chain[at] \in Interceptors
  THEN /\ frames' = Append(fs, Frame(at, parent, 0, input, context, signal))
       /\ UNCHANGED runs
  ELSE LET run == Execution(input, context, signal)
       IN  /\ runs' = <<run>>
           /\ frames' = Enter(fs, run, at, parent, 1)

\* run(index, current) of runCallInterceptors: the next interceptor, or an
\* execution of its own.
Start(fs, at, parent, input, context, signal) ==
  IF chain[at] \in Interceptors
  THEN /\ frames' = Append(fs, Frame(at, parent, 0, input, context, signal))
       /\ UNCHANGED runs
  ELSE LET run == Execution(input, context, signal)
       IN  /\ runs' = Append(runs, run)
           /\ frames' = Enter(fs, run, at, parent, Len(runs) + 1)

ProcedureInit ==
  /\ chain \in Chains
  /\ LET input == [by |-> Caller, ok |-> TRUE, parsed |-> 0]
     IN  IF chain[1] \in Interceptors
         THEN /\ frames = <<Frame(1, 0, 0, input, {Caller}, Caller)>>
              /\ runs = <<>>
         ELSE /\ runs = <<Execution(input, {Caller}, Caller)>>
              /\ frames = Enter(<<>>, Execution(input, {Caller}, Caller), 1, 0, 1)

\* Whether f may call next() now.
MayCallNext(f) ==
  /\ Len(frames) < MaxFrames
  /\ Running(f)
  /\ frames[f].nexts < 2
  /\ Kind(f) \in Hedgers \/ Pending(f) = {}

Called(f) == [frames EXCEPT ![f].nexts = @ + 1]

\* What f may give next(): nothing, an input and a context of its own, or an
\* input that does not satisfy the schema.
Options == {"nothing", "own", "bad input"}
Passed(f, input, opts) ==
  IF opts = "nothing" THEN input ELSE [by |-> f, ok |-> opts = "own", parsed |-> 0]

\* next(opts) of an interceptor replaces input, context and signal.
InterceptorNext(f) ==
  /\ Kind(f) = "interceptor" /\ MayCallNext(f)
  /\ \E opts \in Options :
       Start(Called(f), frames[f].at + 1, f, Passed(f, frames[f].input, opts),
             IF opts = "own" THEN {f} ELSE frames[f].context,
             IF opts = "own" THEN f ELSE frames[f].signal)

\* applyNext: context merges into that of the execution, input replaces it.
ApplyNext(run, input, added) ==
  [run EXCEPT !.input = input, !.context = @ \cup added]

\* next(opts) of a .use() or .useAfter() middleware.
MiddlewareNext(f) ==
  /\ Kind(f) \in {"use", "useAfter"} /\ MayCallNext(f)
  /\ LET n == frames[f].run
     IN  \E opts \in Options :
           LET run == ApplyNext(runs[n], Passed(f, runs[n].input, opts),
                                IF opts = "own" THEN {f} ELSE {})
           IN  /\ runs' = [runs EXCEPT ![n] = run]
               /\ frames' = Enter(Called(f), run, frames[f].at + 1, f, n)

\* Mutant of Checked: what the schema made of the input is dropped.
CheckedOnly(f) ==
  /\ frames[f].checking
  /\ LET here == frames[f]
         run == runs[here.run]
     IN  frames' = [frames EXCEPT ![f] =
           IF here.input.ok
           THEN [Frame(here.at + 1, here.parent, here.run, run.input, run.context,
                       run.signal) EXCEPT !.nexts = here.nexts]
           ELSE [here EXCEPT !.checking = FALSE,
                             !.result = [is |-> "validation", by |-> f]]]
  /\ UNCHANGED runs

\* The input schema answers: the parsed value is the execution's input from
\* here on, and the chain goes on in the same turn.
Checked(f) ==
  /\ frames[f].checking
  /\ LET n == frames[f].run
         parsed == [frames[f].input EXCEPT !.parsed = n]
         run == [runs[n] EXCEPT !.input = parsed]
         here == frames[f]
     IN  IF frames[f].input.ok
         THEN /\ runs' = [runs EXCEPT ![n] = run]
              /\ frames' = [frames EXCEPT ![f] =
                   [Frame(here.at + 1, here.parent, n, parsed, run.context,
                          run.signal) EXCEPT !.nexts = here.nexts]]
         ELSE /\ frames' = [frames EXCEPT ![f].checking = FALSE,
                              ![f].result = [is |-> "validation", by |-> f]]
              /\ UNCHANGED runs

-----------------------------------------------------------------------------
(* Settling *)

\* finalizeDeclaredError
Finalize(r) == IF r.is = "bad" THEN [r EXCEPT !.is = "internal"] ELSE r

IsExecution(c) ==
  chain[frames[c].at] \notin Interceptors
    /\ (frames[c].parent = 0 \/ chain[frames[frames[c].parent].at] \in Interceptors)

\* Mutant of Answer: only what the handler throws is finalized.
AnswerOfHandler(c) ==
  IF chain[frames[c].at] = "handler" THEN Finalize(frames[c].result)
  ELSE frames[c].result

\* What next() answers for the frame it started; runExecution finalizes.
Answer(c) ==
  IF IsExecution(c) THEN Finalize(frames[c].result) ELSE frames[c].result

SettleWith(f, r) ==
  /\ frames' = [frames EXCEPT ![f].result = r]
  /\ UNCHANGED runs

\* A middleware or an interceptor answers with one of its answers or its own.
UserSettles(f) ==
  /\ Kind(f) \in {"interceptor", "use", "useAfter"} /\ Running(f)
  /\ Kind(f) \in Hedgers \/ Pending(f) = {}
  /\ \E r \in {Answer(c) : c \in Children(f) \ Pending(f)}
              \cup {[is |-> "bad", by |-> f]} :
       SettleWith(f, r)

\* runHandler; an output that does not satisfy its schema is an error, too.
HandlerSettles(f) ==
  /\ Kind(f) = "handler" /\ Running(f)
  /\ \E is \in {"value", "error", "bad"} :
       SettleWith(f, [is |-> is, by |-> f])

\* onStart: its hook, then next().
ObserverStarts(f) ==
  /\ Kind(f) \in Observers /\ Running(f)
  /\ frames[f].nexts = 0 /\ Len(frames) < MaxFrames
  /\ \/ Start(Called(f), frames[f].at + 1, f, frames[f].input,
              frames[f].context, frames[f].signal)
     \/ /\ Kind(f) = "onStart"
        /\ SettleWith(f, [is |-> "error", by |-> f])

\* A hook may throw: after a success the call fails with it, after an error
\* it is swallowed.
ObserverResult(kind, r, hook) ==
  IF kind \in {"onSuccess", "onFinish"} /\ ~IsError(r) THEN {r, hook} ELSE {r}

ObserverSettles(f) ==
  /\ Kind(f) \in Observers /\ Running(f)
  /\ \E c \in Children(f) \ Pending(f) :
       \E r \in ObserverResult(Kind(f), Answer(c), [is |-> "error", by |-> f]) :
         SettleWith(f, r)

ProcedureNext ==
  /\ \E f \in DOMAIN frames :
       \/ InterceptorNext(f) \/ MiddlewareNext(f) \/ Checked(f)
       \/ UserSettles(f) \/ HandlerSettles(f)
       \/ ObserverStarts(f) \/ ObserverSettles(f)
  /\ UNCHANGED chain

ProcedureSpec == ProcedureInit /\ [][ProcedureNext]_procedureVars

-----------------------------------------------------------------------------
\* The invocations above f, all of them earlier: what every set closed under
\* parents that has the parent of f contains.
Upward(S) == \A g \in S : frames[g].parent \in S \cup {0}
Ancestors(f) ==
  LET closed == {S \in SUBSET (1 .. f - 1) :
                   frames[f].parent \in S \cup {0} /\ Upward(S)}
  IN  {g \in 1 .. f - 1 : \A S \in closed : g \in S}

\* The call of next() of an interceptor, or of runProcedure, that led to f.
ExecutionOf(f) == {c \in Ancestors(f) \cup {f} : IsExecution(c)}

\* Interceptors that call next() several times, concurrently or not, do not
\* mix their executions: what an invocation sees comes from the caller, from
\* those above it and from middleware of its own execution.
RunsAreIsolated ==
  \A f \in DOMAIN frames :
    LET sources == {Caller} \cup Ancestors(f) \cup
                   {g \in DOMAIN frames : ExecutionOf(g) = ExecutionOf(f)}
    IN  /\ frames[f].input.by \in sources
        /\ frames[f].context \subseteq sources
        /\ frames[f].signal \in {Caller} \cup Ancestors(f)
        /\ frames[f].input.parsed \in {0, frames[f].run}

\* What comes after the check sees an input that passed it, except for one
\* that a .useAfter() supplied.
InputIsChecked ==
  \A f \in DOMAIN frames :
    /\ Kind(f) \in {"useAfter", "handler"}
    /\ \E i \in 1 .. frames[f].at : chain[i] = "input"
    => \/ frames[f].input.parsed = frames[f].run
       \/ frames[f].input.by # Caller /\ Kind(frames[f].input.by) = "useAfter"

\* ".useAfter() runs after input validation. It sees the typed, parsed input"
\* (docs/concepts.md:74), but for one that a .useAfter() replaced: an earlier
\* .use() that calls next() with another input while its first call still runs,
\* as a hedge or after a timeout, changes the input of the execution under it.
UseAfterSeesParsed ==
  \A f \in DOMAIN frames :
    /\ Kind(f) = "useAfter"
    /\ \E i \in 1 .. frames[f].at : chain[i] = "input"
    => \/ frames[f].input.parsed # 0
       \/ frames[f].input.by # Caller /\ Kind(frames[f].input.by) = "useAfter"

\* No interceptor sees declared data that does not satisfy its declaration,
\* and a hook that observes a failure does not change it.
ErrorsAreFinal ==
  \A f \in DOMAIN frames, c \in DOMAIN frames :
    frames[c].parent = f /\ Kind(f) \in Interceptors =>
      /\ Answer(c).is = "bad" => Kind(Answer(c).by) \in Interceptors
      /\ Kind(f) \in Observers /\ frames[f].result # None /\ IsError(Answer(c))
           => frames[f].result = Answer(c)
=============================================================================
