--------------------------- MODULE ClientPlugins ---------------------------
(***************************************************************************)
(* The client's plugins in the order client/README.md gives them: retry    *)
(* around dedupe around cache around the link (client/src/retry-plugin.ts, *)
(* dedupe-plugin.ts, cache-plugin.ts; the chain is call-interceptor.ts).   *)
(* An attempt of the retry plugin is a pass through Dedupe; an execution   *)
(* of Dedupe is a pass through the cache, answered from the store or by a  *)
(* call of the link.  The link is free but for one thing that FetchLink    *)
(* and DuplexLink do: a link call that was aborted answers with a failure. *)
(* The two plugins find the same key for a call, as their defaults do.     *)
(***************************************************************************)
EXTENDS Dedupe

CONSTANT Retries   \* options.retries

Attempts == Callers \X (0 .. Retries)

ASSUME CallersAssumption == IsFiniteSet(Callers)
ASSUME RetriesAssumption == Retries \in Nat
ASSUME PassesAssumption ==
  Passes = Attempts /\ CallerOf = [p \in Attempts |-> p[1]]

VARIABLES attempt,   \* per caller: the loop of the retry plugin
          store,     \* per key: the link call whose answer was stored last
          fresh,     \* per key: the stored answer has not expired
          answer,    \* per execution: the link call whose answer it returns
          order      \* history: the order in which the link was called, from 1

cacheVars == <<store, fresh, answer, order>>
vars == <<signal, pass, exec, inflight, attempt, store, fresh, answer, order>>

ChainInit ==
  /\ Init
  /\ attempt = [c \in Callers |-> [phase |-> "idle", n |-> 0, key |-> NoKey,
                                   streaming |-> FALSE, outcome |-> "none"]]
  /\ store = [k \in Keys |-> NoExec]
  /\ fresh = [k \in Keys |-> FALSE]
  /\ answer = [e \in Attempts |-> NoExec]
  /\ order = [e \in Attempts |-> 0]

-----------------------------------------------------------------------------
(* The cache plugin: what an execution of Dedupe runs.                     *)

LinkCalls == {e \in Attempts : order[e] > 0}

CallLink(e) ==
  /\ answer' = [answer EXCEPT ![e] = e]
  /\ order' = [order EXCEPT ![e] = Cardinality(LinkCalls) + 1]
  /\ UNCHANGED <<store, fresh>>

\* store.get(key): an expired entry is none, wherever it is deleted.
Lookup(e, k) ==
  IF fresh[k]
  THEN /\ answer' = [answer EXCEPT ![e] = store[k]]
       /\ UNCHANGED <<store, fresh, order>>
  ELSE CallLink(e)

\* A hit settles in the turns that follow the lookup.
CacheReturns(e) ==
  /\ answer[e] # e
  /\ Settle(e, "value")
  /\ UNCHANGED <<attempt, store, fresh, answer, order>>

\* Only a success is stored, and not one that is a stream.
Stores(e, r, stream) == r = "value" /\ ~stream /\ exec[e].key \in Keys

\* The link answers; store.set follows in the same turn.
LinkAnswers(e, r, stream) ==
  /\ answer[e] = e
  /\ exec[e].aborted => r # "value"
  /\ Settle(e, r)
  /\ store' = [k \in Keys |-> IF k = exec[e].key /\ Stores(e, r, stream)
                              THEN e ELSE store[k]]
  /\ fresh' = [k \in Keys |-> fresh[k] \/ (k = exec[e].key /\ Stores(e, r, stream))]
  /\ UNCHANGED <<attempt, answer, order>>

\* The time to live of an entry is over.
Expire(k) ==
  /\ fresh[k]
  /\ fresh' = [fresh EXCEPT ![k] = FALSE]
  /\ UNCHANGED <<signal, pass, exec, inflight, attempt, store, answer, order>>

-----------------------------------------------------------------------------
(* The chain below the retry plugin: dedupe, and the cache for a new       *)
(* execution.                                                              *)

Enter(p, k) ==
  \/ k = NoKey /\ Bypass(p) /\ CallLink(p)
  \/ k \in Keys /\ (Refuse(p) \/ Join(p, k)) /\ UNCHANGED cacheVars
  \/ k \in Keys /\ (Open(p, k) \/ OpenAborting(p, k)) /\ Lookup(p, k)

-----------------------------------------------------------------------------
(* The retry plugin.                                                       *)

Begin(c) ==
  /\ attempt[c].phase = "idle"
  /\ \E k \in Keys \cup {NoKey}, s \in BOOLEAN :
       /\ s => k = NoKey
       /\ Enter(<<c, 0>>, k)
       /\ attempt' = [attempt EXCEPT ![c].phase = "trying", ![c].key = k,
                                     ![c].streaming = s]

Tried(c) == pass[<<c, attempt[c].n>>]

\* options.retry is the default, isLocalFailure; aborts look local, too.
Retried(c) ==
  /\ Tried(c).outcome \in {"local", "aborted"}
  /\ signal[c] # "aborted"
  /\ attempt[c].n < Retries
  /\ ~attempt[c].streaming

\* await ctx.next() settles: return, throw, or wait for the next attempt.
AfterAttempt(c) ==
  /\ attempt[c].phase = "trying"
  /\ Tried(c).phase = "settled"
  /\ attempt' = IF Retried(c)
                THEN [attempt EXCEPT ![c].phase = "waiting", ![c].n = @ + 1]
                ELSE [attempt EXCEPT ![c].phase = "done",
                                     ![c].outcome = Tried(c).outcome]
  /\ UNCHANGED <<signal, pass, exec, inflight, store, fresh, answer, order>>

\* The wait ends, by its timer or by the abort.
WaitEnds(c) ==
  /\ attempt[c].phase = "waiting"
  /\ \/ /\ signal[c] = "aborted"
        /\ attempt' = [attempt EXCEPT ![c].phase = "done", ![c].outcome = "aborted"]
        /\ UNCHANGED <<signal, pass, exec, inflight, store, fresh, answer, order>>
     \/ /\ signal[c] # "aborted"
        /\ Enter(<<c, attempt[c].n>>, attempt[c].key)
        /\ attempt' = [attempt EXCEPT ![c].phase = "trying"]

-----------------------------------------------------------------------------

AbortCaller(c) ==
  Abort(c) /\ UNCHANGED <<attempt, store, fresh, answer, order>>

Resume(e) ==
  (Finally(e) \/ React(e)) /\ UNCHANGED <<attempt, store, fresh, answer, order>>

ChainNext ==
  \/ \E c \in Callers : Begin(c) \/ AfterAttempt(c) \/ WaitEnds(c) \/ AbortCaller(c)
  \/ \E e \in Attempts : CacheReturns(e) \/ Resume(e)
  \/ \E e \in Attempts, r \in Results, stream \in BOOLEAN : LinkAnswers(e, r, stream)
  \/ \E k \in Keys : Expire(k)

\* Settled promises and timers resume what awaits them; nothing is assumed of
\* the link.
Fairness ==
  /\ \A c \in Callers : WF_vars(AfterAttempt(c)) /\ WF_vars(WaitEnds(c))
  /\ \A e \in Attempts : WF_vars(Resume(e)) /\ WF_vars(CacheReturns(e))

ChainSpec == ChainInit /\ [][ChainNext]_vars /\ Fairness

-----------------------------------------------------------------------------
(* Properties.                                                             *)

\* A retry is a new attempt: the failure of a shared execution reaches its
\* callers after its entry is gone, so no caller spends a second attempt on an
\* execution that has already failed it.
RetryIsNew ==
  \A c \in Callers, i, j \in 0 .. Retries :
    i < j /\ pass[<<c, i>>].on # NoExec => pass[<<c, i>>].on # pass[<<c, j>>].on

\* The answer of an earlier link call never replaces that of a later one in
\* the store: dedupe lets a second call of a key start only when the first has
\* answered or was aborted, and what was aborted is not stored.
StoreInOrder ==
  [][\A k \in Keys : store[k] # NoExec => order[store[k]] <= order'[store'[k]]]_vars

\* A caller with a key who aborts is answered, whatever the link does and
\* whether he waits for an execution, for a shared one, or between two attempts.
AbortSettles ==
  \A c \in Callers :
    (signal[c] = "aborted" /\ attempt[c].phase # "idle" /\ attempt[c].key \in Keys)
      ~> attempt[c].phase = "done"
=============================================================================
