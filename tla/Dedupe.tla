------------------------------- MODULE Dedupe -------------------------------
(***************************************************************************)
(* The dedupe plugins (client/src/dedupe-plugin.ts and                     *)
(* server/src/dedupe-plugin.ts): passes through the interceptor that meet  *)
(* under one key share one execution of the rest of the chain, which is    *)
(* aborted when the last of them has left.  The two files hold one         *)
(* algorithm.  On the server a key stands for a pair of a context and a    *)
(* key, because each context has a map of its own.                         *)
(*                                                                         *)
(* An execution is named by the pass that opened it.  The rest of the      *)
(* chain is free: an execution settles when and how it likes, aborted or   *)
(* not.  One turn of the event loop is one step; the promise of an entry   *)
(* is settled by the turn after the one of its finally callback.           *)
(***************************************************************************)
EXTENDS Naturals, FiniteSets

CONSTANTS Callers,   \* callers, each with one abort signal or none
          Passes,    \* calls of the interceptor
          CallerOf,  \* the caller a pass belongs to
          Keys,      \* what the key function returns
          NoKey,     \* it returns undefined, or the input is an async iterable
          NoExec     \* no entry under a key, no execution joined

ASSUME CallerOfAssumption == CallerOf \in [Passes -> Callers]
ASSUME NoKeyAssumption == NoKey \notin Keys
ASSUME NoExecAssumption == NoExec \notin Passes

VARIABLES signal,   \* the callers' abort signals
          pass,     \* per pass: its phase, the execution it shares, what it settled with
          exec,     \* per execution: its state, key, abort flag and waiters, what it settles with
          inflight  \* the map from keys to entries

dedupeVars == <<signal, pass, exec, inflight>>

Results == {"value", "local", "remote"}   \* a local failure, any other error

PassType == [phase: {"idle", "waiting", "settled"},
             on: Passes \cup {NoExec},
             outcome: Results \cup {"none", "aborted"}]

\* "settled": the chain has settled; "reported": so has the promise of the entry.
ExecType == [state: {"unborn", "running", "settled", "reported"},
             key: Keys \cup {NoKey},
             aborted: BOOLEAN,
             waiters: SUBSET Passes,
             result: Results \cup {"none"}]

TypeOK ==
  /\ signal \in [Callers -> {"none", "live", "aborted"}]
  /\ pass \in [Passes -> PassType]
  /\ exec \in [Passes -> ExecType]
  /\ inflight \in [Keys -> Passes \cup {NoExec}]

Init ==
  /\ signal \in [Callers -> {"none", "live"}]
  /\ pass = [p \in Passes |-> [phase |-> "idle", on |-> NoExec, outcome |-> "none"]]
  /\ exec = [p \in Passes |-> [state |-> "unborn", key |-> NoKey, aborted |-> FALSE,
                               waiters |-> {}, result |-> "none"]]
  /\ inflight = [k \in Keys |-> NoExec]

Aborted(p) == signal[CallerOf[p]] = "aborted"

Rejected == [phase |-> "settled", on |-> NoExec, outcome |-> "aborted"]
WaitingOn(e) == [phase |-> "waiting", on |-> e, outcome |-> "none"]

-----------------------------------------------------------------------------
(* Aborts: what the abort listeners of a caller's signal do.               *)

\* The waiters of c leave; a pass without a key is no waiter.
Leaves(c, p) ==
  /\ CallerOf[p] = c
  /\ pass[p].phase = "waiting"
  /\ p \in exec[pass[p].on].waiters

Deserted(c, e) ==
  /\ \E p \in exec[e].waiters : Leaves(c, p)
  /\ \A p \in exec[e].waiters : Leaves(c, p)

\* The signal of a pass without a key is the signal of its execution.
OwnSignal(c, e) == exec[e].state # "unborn" /\ exec[e].key = NoKey /\ CallerOf[e] = c

\* Mutant of PassesWithout: the waiter leaves, its promise is not rejected.
PassesWithoutReject(c) == pass

PassesWithout(c) ==
  [p \in Passes |-> IF Leaves(c, p)
                    THEN [pass[p] EXCEPT !.phase = "settled", !.outcome = "aborted"]
                    ELSE pass[p]]

\* Mutant of ExecsWithout: the first waiter that leaves aborts the execution.
ExecsWithoutAny(c) ==
  [e \in Passes |->
     [exec[e] EXCEPT !.waiters = {p \in @ : ~Leaves(c, p)},
                     !.aborted = @ \/ (\E p \in exec[e].waiters : Leaves(c, p))
                                   \/ OwnSignal(c, e)]]

\* Mutant of ExecsWithout: an execution that everybody has left goes on.
ExecsWithoutAbort(c) ==
  [e \in Passes |-> [exec[e] EXCEPT !.waiters = {p \in @ : ~Leaves(c, p)},
                                    !.aborted = @ \/ OwnSignal(c, e)]]

ExecsWithout(c) ==
  [e \in Passes |->
     [exec[e] EXCEPT !.waiters = {p \in @ : ~Leaves(c, p)},
                     !.aborted = @ \/ Deserted(c, e) \/ OwnSignal(c, e)]]

\* inflight.get(key) === entry guards the deletion.
InflightWithout(c) ==
  [k \in Keys |-> IF inflight[k] # NoExec /\ Deserted(c, inflight[k])
                  THEN NoExec ELSE inflight[k]]

Abort(c) ==
  /\ signal[c] = "live"
  /\ signal' = [signal EXCEPT ![c] = "aborted"]
  /\ pass' = PassesWithout(c)
  /\ exec' = ExecsWithout(c)
  /\ inflight' = InflightWithout(c)

-----------------------------------------------------------------------------
(* Calls.                                                                  *)

NewExec(k, p, waiters) ==
  [state |-> "running", key |-> k, aborted |-> k = NoKey /\ Aborted(p),
   waiters |-> waiters, result |-> "none"]

\* No key: the pass is the rest of the chain, with the signal of its caller.
Bypass(p) ==
  /\ pass[p].phase = "idle"
  /\ pass' = [pass EXCEPT ![p] = WaitingOn(p)]
  /\ exec' = [exec EXCEPT ![p] = NewExec(NoKey, p, {})]
  /\ UNCHANGED <<signal, inflight>>

\* A caller that has aborted gets neither a share nor an execution.
Refuse(p) ==
  /\ pass[p].phase = "idle"
  /\ Aborted(p)
  /\ pass' = [pass EXCEPT ![p] = Rejected]
  /\ UNCHANGED <<signal, exec, inflight>>

Join(p, k) ==
  /\ pass[p].phase = "idle"
  /\ ~Aborted(p)
  /\ inflight[k] # NoExec
  /\ pass' = [pass EXCEPT ![p] = WaitingOn(inflight[k])]
  /\ exec' = [exec EXCEPT ![inflight[k]].waiters = @ \cup {p}]
  /\ UNCHANGED <<signal, inflight>>

Open(p, k) ==
  /\ pass[p].phase = "idle"
  /\ ~Aborted(p)
  /\ inflight[k] = NoExec
  /\ pass' = [pass EXCEPT ![p] = WaitingOn(p)]
  /\ exec' = [exec EXCEPT ![p] = NewExec(k, p, {p})]
  /\ inflight' = [inflight EXCEPT ![k] = p]
  /\ UNCHANGED signal

\* ctx.next() runs user code, which may abort the signal before the entry is
\* made: the execution then starts without a waiter and without an abort.
OpenAborting(p, k) ==
  LET c == CallerOf[p] IN
  /\ pass[p].phase = "idle"
  /\ signal[c] = "live"
  /\ inflight[k] = NoExec
  /\ signal' = [signal EXCEPT ![c] = "aborted"]
  /\ pass' = [PassesWithout(c) EXCEPT ![p] = Rejected]
  /\ exec' = [ExecsWithout(c) EXCEPT ![p] = NewExec(k, p, {})]
  /\ inflight' = [InflightWithout(c) EXCEPT ![k] = p]

Call(p, k) ==
  \/ k = NoKey /\ Bypass(p)
  \/ k \in Keys /\ (Refuse(p) \/ Join(p, k) \/ Open(p, k) \/ OpenAborting(p, k))

-----------------------------------------------------------------------------
(* Settling.                                                               *)

\* The rest of the chain settles.
Settle(e, r) ==
  /\ exec[e].state = "running"
  /\ exec' = [exec EXCEPT ![e].state = "settled", ![e].result = r]
  /\ UNCHANGED <<signal, pass, inflight>>

\* Mutant of Finally: it deletes whatever entry its key has by then.
FinallyByKey(e) ==
  /\ exec[e].state = "settled"
  /\ exec' = [exec EXCEPT ![e].state = "reported"]
  /\ inflight' = [k \in Keys |-> IF k = exec[e].key THEN NoExec ELSE inflight[k]]
  /\ UNCHANGED <<signal, pass>>

\* Mutant of Finally: the entry is never deleted.
FinallyKeepsEntry(e) ==
  /\ exec[e].state = "settled"
  /\ exec' = [exec EXCEPT ![e].state = "reported"]
  /\ UNCHANGED <<signal, pass, inflight>>

\* The finally callback of the entry: it deletes its own entry only.
Finally(e) ==
  /\ exec[e].state = "settled"
  /\ exec' = [exec EXCEPT ![e].state = "reported"]
  /\ inflight' = [k \in Keys |-> IF k = exec[e].key /\ inflight[k] = e
                                 THEN NoExec ELSE inflight[k]]
  /\ UNCHANGED <<signal, pass>>

\* A pass that is still waiting gets what its execution settled with.
React(p) ==
  LET e == pass[p].on IN
  /\ pass[p].phase = "waiting"
  /\ exec[e].state = "reported"
  /\ exec[e].key = NoKey \/ p \in exec[e].waiters
  /\ pass' = [pass EXCEPT ![p].phase = "settled", ![p].outcome = exec[e].result]
  /\ exec' = [exec EXCEPT ![e].waiters = @ \ {p}]
  /\ UNCHANGED <<signal, inflight>>

Next ==
  \/ \E c \in Callers : Abort(c)
  \/ \E p \in Passes, k \in Keys \cup {NoKey} : Call(p, k)
  \/ \E e \in Passes, r \in Results : Settle(e, r)
  \/ \E e \in Passes : Finally(e) \/ React(e)

Spec == Init /\ [][Next]_dedupeVars

-----------------------------------------------------------------------------
(* Properties.                                                             *)

Unaborted(e) == exec[e].state = "running" /\ ~exec[e].aborted

\* Work is shared: an execution under a key that runs and is not aborted is the
\* entry of its key, so that every later call meets it and there is at most one;
\* and a call never meets an execution that was aborted while it ran.
OneExecution ==
  /\ \A e \in Passes : Unaborted(e) /\ exec[e].key # NoKey => inflight[exec[e].key] = e
  /\ \A k \in Keys : inflight[k] # NoExec /\ exec[inflight[k]].state = "running"
                       => Unaborted(inflight[k])

\* The callers of one execution share its fate and nothing else: whoever waits
\* waits for an execution that is not aborted, whoever is done has its result
\* unless his own signal was aborted, and an execution that everybody has left
\* does not go on running for nobody.
SharedFate ==
  \A p \in Passes :
    LET e == pass[p].on IN
    /\ pass[p].phase = "waiting" /\ exec[e].key # NoKey => ~exec[e].aborted
    /\ pass[p].outcome = "aborted" => Aborted(p)
    /\ pass[p].outcome \in Results => pass[p].outcome = exec[e].result
    /\ pass[p].phase = "settled" /\ e # NoExec /\ Unaborted(e) => exec[e].waiters # {}
=============================================================================
