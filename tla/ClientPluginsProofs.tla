------------------------ MODULE ClientPluginsProofs ------------------------
(***************************************************************************)
(* Proofs about Dedupe and ClientPlugins for any passes, callers, keys and *)
(* number of retries.                                                      *)
(*                                                                         *)
(* Dedupe by itself first.  Neither of its properties is inductive.  What  *)
(* both need is that the two ways in which the code names an execution     *)
(* agree: the waiters an entry holds are the passes that wait for it       *)
(* (Booked), and the entry under a key is an execution of that key which   *)
(* nobody has aborted (Entered).                                           *)
(*                                                                         *)
(* Then the chain: it drives Dedupe only as Dedupe allows, so what holds   *)
(* of Dedupe holds in it; a retry never meets the execution it retries;    *)
(* and the store never goes back to an earlier answer.                     *)
(***************************************************************************)
EXTENDS ClientPlugins, FiniteSetTheorems, TLAPS


\* A pass that has not been called has opened and joined nothing.
Fresh ==
  \A p \in Passes :
    /\ pass[p].phase = "idle" => /\ exec[p].state = "unborn"
                                 /\ pass[p].on = NoExec
                                 /\ pass[p].outcome = "none"
    /\ exec[p].state = "unborn" => /\ exec[p].waiters = {}
                                   /\ exec[p].key = NoKey
                                   /\ ~exec[p].aborted

\* A waiting pass waits for an execution that was started.
Waiting ==
  \A p \in Passes :
    pass[p].phase = "waiting" => /\ pass[p].on \in Passes
                                 /\ pass[p].outcome = "none"
                                 /\ exec[pass[p].on].state # "unborn"

\* The waiters of an execution under a key are the passes that wait for it.
Booked ==
  \A p, e \in Passes :
    p \in exec[e].waiters <=> /\ pass[p].phase = "waiting"
                              /\ pass[p].on = e
                              /\ exec[e].key # NoKey

\* The map holds executions of its keys that are neither aborted nor over.
Entered ==
  \A k \in Keys :
    inflight[k] # NoExec => /\ exec[inflight[k]].key = k
                            /\ exec[inflight[k]].state \in {"running", "settled"}
                            /\ ~exec[inflight[k]].aborted

\* What runs for its key unaborted is in the map.
Found ==
  \A e \in Passes : Unaborted(e) /\ exec[e].key # NoKey => inflight[exec[e].key] = e

\* Nobody waits for an aborted execution under a key.
Ended ==
  \A e \in Passes : exec[e].aborted /\ exec[e].key # NoKey => exec[e].waiters = {}

\* What has settled has a result.
Answered ==
  \A e \in Passes : exec[e].state \in {"settled", "reported"} => exec[e].result \in Results

\* How a pass settles.
Decided ==
  \A p \in Passes : pass[p].phase = "settled" =>
    /\ pass[p].outcome # "none"
    /\ pass[p].outcome = "aborted" => /\ Aborted(p)
                                      /\ pass[p].on # NoExec => exec[pass[p].on].key # NoKey
    /\ pass[p].outcome \in Results => /\ pass[p].on \in Passes
                                      /\ exec[pass[p].on].state = "reported"
                                      /\ pass[p].outcome = exec[pass[p].on].result
    /\ pass[p].on # NoExec => exec[pass[p].on].state # "unborn"

\* An execution that somebody has left is aborted, over, or waited for.
Kept ==
  \A p \in Passes :
    pass[p].phase = "settled" /\ pass[p].on # NoExec /\ Unaborted(pass[p].on)
      => exec[pass[p].on].waiters # {}

Inv ==
  /\ TypeOK
  /\ Fresh
  /\ Waiting
  /\ Booked
  /\ Entered
  /\ Found
  /\ Ended
  /\ Answered
  /\ Decided
  /\ Kept

-----------------------------------------------------------------------------

\* The invariant implies the two properties.
LEMMA InvImplies == Inv => OneExecution /\ SharedFate
<1> SUFFICES ASSUME Inv PROVE OneExecution /\ SharedFate
  OBVIOUS
<1>1. OneExecution
  BY NoKeyAssumption DEF Inv, OneExecution, Found, Entered, Unaborted
<1>2. SharedFate
  <2> SUFFICES ASSUME NEW p \in Passes
               PROVE  /\ pass[p].phase = "waiting" /\ exec[pass[p].on].key # NoKey
                           => ~exec[pass[p].on].aborted
                      /\ pass[p].outcome = "aborted" => Aborted(p)
                      /\ pass[p].outcome \in Results
                           => pass[p].outcome = exec[pass[p].on].result
                      /\ pass[p].phase = "settled" /\ pass[p].on # NoExec
                           /\ Unaborted(pass[p].on) => exec[pass[p].on].waiters # {}
    BY DEF SharedFate
  <2>1. pass[p].phase = "waiting" /\ exec[pass[p].on].key # NoKey => ~exec[pass[p].on].aborted
    BY DEF Inv, Waiting, Booked, Ended
  <2>2. pass[p].phase # "settled" => pass[p].outcome = "none"
    BY DEF Inv, TypeOK, PassType, Fresh, Waiting
  <2>3. /\ pass[p].outcome = "aborted" => Aborted(p)
        /\ pass[p].outcome \in Results => pass[p].outcome = exec[pass[p].on].result
    BY <2>2 DEF Inv, Decided, Results
  <2> QED BY <2>1, <2>3 DEF Inv, Kept
<1> QED BY <1>1, <1>2

\* No pass has been called initially.
LEMMA InitInv == Init => Inv
<1> SUFFICES ASSUME Init PROVE Inv
  OBVIOUS
<1>1. TypeOK
  BY DEF Init, TypeOK, PassType, ExecType
<1>2. Fresh /\ Waiting /\ Booked /\ Entered
  BY DEF Init, Fresh, Waiting, Booked, Entered
<1>3. Found /\ Ended /\ Answered /\ Decided /\ Kept
  BY DEF Init, Found, Ended, Answered, Decided, Kept, Unaborted
<1> QED BY <1>1, <1>2, <1>3 DEF Inv

\* Who leaves when c aborts, from the callers' side.
LEMMA WhoLeaves ==
  ASSUME Inv, NEW c \in Callers
  PROVE  /\ \A p \in Passes : Leaves(c, p) <=> /\ CallerOf[p] = c
                                               /\ pass[p].phase = "waiting"
                                               /\ exec[pass[p].on].key # NoKey
         /\ \A e \in Passes : Deserted(c, e) => exec[e].key # NoKey
         /\ \A e \in Passes : Deserted(c, e) <=> /\ exec[e].waiters # {}
                                                 /\ \A p \in exec[e].waiters : Leaves(c, p)
<1>1. \A p \in Passes : Leaves(c, p) <=> /\ CallerOf[p] = c
                                         /\ pass[p].phase = "waiting"
                                         /\ exec[pass[p].on].key # NoKey
  BY DEF Inv, Waiting, Booked, Leaves
<1>2. \A e \in Passes : Deserted(c, e) <=> /\ exec[e].waiters # {}
                                           /\ \A p \in exec[e].waiters : Leaves(c, p)
  BY DEF Deserted
<1>3. \A e \in Passes : exec[e].waiters # {} => exec[e].key # NoKey
  BY DEF Inv, TypeOK, ExecType, Booked
<1> QED BY <1>1, <1>2, <1>3

\* What an abort does to each pass, execution and entry.
LEMMA Without ==
  ASSUME Inv, NEW c \in Callers
  PROVE  /\ PassesWithout(c) \in [Passes -> PassType]
         /\ \A p \in Passes : Leaves(c, p) =>
              /\ PassesWithout(c)[p].phase = "settled"
              /\ PassesWithout(c)[p].outcome = "aborted"
              /\ PassesWithout(c)[p].on = pass[p].on
         /\ \A p \in Passes : ~Leaves(c, p) => PassesWithout(c)[p] = pass[p]
         /\ ExecsWithout(c) \in [Passes -> ExecType]
         /\ \A e \in Passes :
              /\ ExecsWithout(c)[e].state = exec[e].state
              /\ ExecsWithout(c)[e].key = exec[e].key
              /\ ExecsWithout(c)[e].result = exec[e].result
              /\ ExecsWithout(c)[e].waiters = {p \in exec[e].waiters : ~Leaves(c, p)}
              /\ ExecsWithout(c)[e].aborted <=>
                   (exec[e].aborted \/ Deserted(c, e) \/ OwnSignal(c, e))
         /\ InflightWithout(c) \in [Keys -> Passes \cup {NoExec}]
         /\ \A k \in Keys : InflightWithout(c)[k] =
              IF inflight[k] # NoExec /\ Deserted(c, inflight[k])
              THEN NoExec ELSE inflight[k]
<1> USE DEF Inv, TypeOK
<1>1. \A p \in Passes :
        PassesWithout(c)[p] = IF Leaves(c, p)
                              THEN [pass[p] EXCEPT !.phase = "settled", !.outcome = "aborted"]
                              ELSE pass[p]
  BY DEF PassesWithout
<1>2. PassesWithout(c) \in [Passes -> PassType]
  BY DEF PassesWithout, PassType
<1>3. \A p \in Passes : Leaves(c, p) =>
        /\ PassesWithout(c)[p].phase = "settled"
        /\ PassesWithout(c)[p].outcome = "aborted"
        /\ PassesWithout(c)[p].on = pass[p].on
  BY <1>1 DEF PassType
<1>4. \A e \in Passes :
        ExecsWithout(c)[e] =
          [exec[e] EXCEPT !.waiters = {p \in @ : ~Leaves(c, p)},
                          !.aborted = @ \/ Deserted(c, e) \/ OwnSignal(c, e)]
  BY DEF ExecsWithout
<1>5. ASSUME NEW e \in Passes
      PROVE  /\ ExecsWithout(c)[e] \in ExecType
             /\ ExecsWithout(c)[e].state = exec[e].state
             /\ ExecsWithout(c)[e].key = exec[e].key
             /\ ExecsWithout(c)[e].result = exec[e].result
             /\ ExecsWithout(c)[e].waiters = {p \in exec[e].waiters : ~Leaves(c, p)}
             /\ ExecsWithout(c)[e].aborted <=>
                  (exec[e].aborted \/ Deserted(c, e) \/ OwnSignal(c, e))
  <2>1. exec[e] \in ExecType
    OBVIOUS
  <2>2. {p \in exec[e].waiters : ~Leaves(c, p)} \in SUBSET Passes
    BY <2>1 DEF ExecType
  <2>3. (exec[e].aborted \/ Deserted(c, e) \/ OwnSignal(c, e)) \in BOOLEAN
    OBVIOUS
  <2> DEFINE W == {p \in exec[e].waiters : ~Leaves(c, p)}
             A == exec[e].aborted \/ Deserted(c, e) \/ OwnSignal(c, e)
  <2>4. ExecsWithout(c)[e] = [exec[e] EXCEPT !.waiters = W, !.aborted = A]
    BY <1>4
  <2> HIDE DEF W, A
  <2>5. W \in SUBSET Passes /\ A \in BOOLEAN
    BY <2>2, <2>3 DEF W, A
  <2>6. /\ ExecsWithout(c)[e] \in ExecType
        /\ ExecsWithout(c)[e].state = exec[e].state
        /\ ExecsWithout(c)[e].key = exec[e].key
        /\ ExecsWithout(c)[e].result = exec[e].result
        /\ ExecsWithout(c)[e].waiters = W
        /\ ExecsWithout(c)[e].aborted = A
    BY <2>1, <2>4, <2>5 DEF ExecType
  <2> QED BY <2>6 DEF W, A
<1>6. ExecsWithout(c) \in [Passes -> ExecType]
  BY <1>5 DEF ExecsWithout
<1>7. InflightWithout(c) \in [Keys -> Passes \cup {NoExec}]
  BY DEF InflightWithout
<1>8. \A k \in Keys : InflightWithout(c)[k] =
        IF inflight[k] # NoExec /\ Deserted(c, inflight[k]) THEN NoExec ELSE inflight[k]
  BY DEF InflightWithout
<1> QED BY <1>1, <1>2, <1>3, <1>5, <1>6, <1>7, <1>8

\* An abort: its passes leave, what they leave empty is aborted and forgotten.
LEMMA AbortInv ==
  ASSUME Inv, NEW c \in Callers, Abort(c)
  PROVE  Inv'
<1>1. TypeOK'
  BY Without DEF Inv, TypeOK, Abort
<1>2. Fresh'
  BY Without, WhoLeaves DEF Inv, TypeOK, ExecType, Results, Fresh, Abort,
     OwnSignal
<1>3. Waiting'
  BY Without, WhoLeaves, SMTT(30) DEF Inv, TypeOK, ExecType, Fresh, Waiting, Decided,
     Abort
<1>4. Booked'
  BY Without, WhoLeaves DEF Inv, TypeOK, ExecType, Fresh, Booked, Abort
<1>5. Entered'
  BY Without, NoKeyAssumption DEF Inv, TypeOK, ExecType, Entered, Abort,
     OwnSignal
<1>6. Found'
  BY Without DEF Inv, TypeOK, ExecType, Found, Unaborted, Abort
<1>7. Ended'
  <2> SUFFICES ASSUME NEW e \in Passes, exec'[e].aborted, exec'[e].key # NoKey
               PROVE  exec'[e].waiters = {}
    BY DEF Ended
  <2>2. /\ exec[e].aborted \/ Deserted(c, e)
        /\ exec[e].key # NoKey
        /\ exec'[e].waiters = {p \in exec[e].waiters : ~Leaves(c, p)}
    BY Without DEF Abort, OwnSignal
  <2>3. CASE exec[e].aborted
    BY <2>2, <2>3 DEF Inv, Ended
  <2>4. CASE Deserted(c, e)
    BY <2>2, <2>4, WhoLeaves
  <2> QED BY <2>2, <2>3, <2>4
<1>8. Answered'
  BY Without DEF Inv, TypeOK, ExecType, Answered, Results, Abort
<1>9. Decided'
  <2> SUFFICES ASSUME NEW p \in Passes, pass'[p].phase = "settled"
               PROVE  /\ pass'[p].outcome # "none"
                      /\ pass'[p].outcome = "aborted" =>
                           /\ Aborted(p)'
                           /\ pass'[p].on # NoExec => exec'[pass'[p].on].key # NoKey
                      /\ pass'[p].outcome \in Results =>
                           /\ pass'[p].on \in Passes
                           /\ exec'[pass'[p].on].state = "reported"
                           /\ pass'[p].outcome = exec'[pass'[p].on].result
                      /\ pass'[p].on # NoExec => exec'[pass'[p].on].state # "unborn"
    BY DEF Decided
  <2>1. /\ pass' = PassesWithout(c)
        /\ \A e \in Passes : /\ exec'[e].state = exec[e].state
                              /\ exec'[e].key = exec[e].key
                              /\ exec'[e].result = exec[e].result
    BY Without DEF Abort
  <2>2. Aborted(p) => Aborted(p)'
    BY CallerOfAssumption DEF Inv, TypeOK, Aborted, Abort
  <2>3. CASE Leaves(c, p)
    <3>1. Aborted(p)'
      BY <2>3, CallerOfAssumption DEF Inv, TypeOK, Aborted, Abort, Leaves
    <3>2. /\ pass[p].on \in Passes
          /\ exec[pass[p].on].key # NoKey
          /\ exec[pass[p].on].state # "unborn"
      BY <2>3, WhoLeaves DEF Inv, Waiting
    <3> QED BY <2>1, <2>3, <3>1, <3>2, Without DEF Results
  <2>4. CASE ~Leaves(c, p)
    <3>1. pass'[p] = pass[p]
      BY <2>1, <2>4, Without
    <3>2. pass[p].on # NoExec => pass[p].on \in Passes
      BY DEF Inv, TypeOK, PassType
    <3> QED BY <2>1, <2>2, <3>1, <3>2 DEF Inv, Decided
  <2> QED BY <2>3, <2>4
<1>10. Kept'
  <2> SUFFICES ASSUME NEW p \in Passes, pass'[p].phase = "settled",
                      pass'[p].on # NoExec, exec'[pass'[p].on].state = "running",
                      ~exec'[pass'[p].on].aborted
               PROVE  exec'[pass'[p].on].waiters # {}
    BY DEF Kept, Unaborted
  <2> DEFINE e == pass[p].on
  <2>0. pass'[p].on = e /\ e \in Passes
    BY Without DEF Inv, TypeOK, PassType, Abort
  <2>2. pass'[p] = PassesWithout(c)[p] /\ exec'[e] = ExecsWithout(c)[e]
    BY DEF Abort
  <2>3. /\ exec[e].state = "running"
        /\ ~exec[e].aborted
        /\ ~Deserted(c, e)
        /\ exec'[e].waiters = {x \in exec[e].waiters : ~Leaves(c, x)}
    BY <2>0, <2>2, Without
  <2>4. CASE Leaves(c, p)
    BY <2>0, <2>3, <2>4, WhoLeaves DEF Leaves
  <2>5. CASE ~Leaves(c, p)
    <3>1. pass[p].phase = "settled" /\ e # NoExec
      BY <2>0, <2>2, <2>5, Without
    <3>2. exec[e].waiters # {}
      BY <2>3, <3>1 DEF Inv, Kept, Unaborted
    <3> QED BY <2>0, <2>3, <3>2, WhoLeaves
  <2> QED BY <2>4, <2>5
<1> QED BY <1>1, <1>2, <1>3, <1>4, <1>5, <1>6, <1>7, <1>8, <1>9, <1>10 DEF Inv

\* A pass without a key is an execution of its own.
LEMMA BypassInv ==
  ASSUME Inv, NEW q \in Passes, Bypass(q)
  PROVE  Inv'
<1>1. TypeOK'
  BY DEF Inv, TypeOK, PassType, ExecType, Bypass, WaitingOn, NewExec
<1>2. Fresh'
  BY DEF Inv, TypeOK, Fresh, Bypass, WaitingOn, NewExec
<1>3. Waiting'
  BY DEF Inv, TypeOK, Waiting, Bypass, WaitingOn, NewExec
<1>4. Booked'
  BY DEF Inv, TypeOK, Booked, Bypass, WaitingOn, NewExec
<1>5. Entered'
  BY DEF Inv, Fresh, Entered, Bypass, WaitingOn, NewExec
<1>6. Found'
  BY DEF Inv, Found, Unaborted, Bypass, WaitingOn, NewExec
<1>7. Ended'
  BY DEF Inv, Ended, Bypass, WaitingOn, NewExec
<1>8. Answered'
  BY DEF Inv, TypeOK, ExecType, Answered, Results, Bypass, NewExec
<1>9. Decided'
  BY DEF Inv, Fresh, Decided, Aborted, Bypass, WaitingOn, NewExec
<1>10. Kept'
  BY DEF Inv, Fresh, Unaborted, Decided, Kept, Bypass, WaitingOn, NewExec
<1> QED BY <1>1, <1>2, <1>3, <1>4, <1>5, <1>6, <1>7, <1>8, <1>9, <1>10 DEF Inv

\* A caller that has aborted changes nothing.
LEMMA RefuseInv ==
  ASSUME Inv, NEW q \in Passes, Refuse(q)
  PROVE  Inv'
<1>1. TypeOK'
  BY DEF Inv, TypeOK, PassType, Refuse, Rejected
<1>2. Fresh'
  BY DEF Inv, Fresh, Refuse, Rejected
<1>3. Waiting'
  BY DEF Inv, Waiting, Refuse, Rejected
<1>4. Booked'
  BY DEF Inv, Booked, Refuse, Rejected
<1>5. Entered'
  BY DEF Inv, Entered, Refuse, Rejected
<1>6. Found'
  BY DEF Inv, Found, Unaborted, Refuse, Rejected
<1>7. Ended'
  BY DEF Inv, Ended, Refuse, Rejected
<1>8. Answered'
  BY DEF Inv, TypeOK, ExecType, Answered, Results, Refuse
<1>9. Decided'
  BY DEF Inv, Results, Decided, Aborted, Refuse, Rejected
<1>10. Kept'
  BY DEF Inv, Unaborted, Kept, Refuse, Rejected
<1> QED BY <1>1, <1>2, <1>3, <1>4, <1>5, <1>6, <1>7, <1>8, <1>9, <1>10 DEF Inv

\* A joiner is booked on an entry that is not aborted.
LEMMA JoinInv ==
  ASSUME Inv, NEW q \in Passes, NEW h \in Keys, Join(q, h)
  PROVE  Inv'
<1>1. TypeOK'
  <2>1. /\ pass \in [Passes -> PassType] /\ exec \in [Passes -> ExecType]
        /\ inflight[h] \in Passes
    BY DEF Inv, TypeOK, Join
  <2>2. WaitingOn(inflight[h]) \in PassType
    BY <2>1 DEF WaitingOn, PassType
  <2>3. pass' \in [Passes -> PassType]
    BY <2>1, <2>2 DEF Join
  <2>4. [exec[inflight[h]] EXCEPT !.waiters = @ \cup {q}] \in ExecType
    BY <2>1 DEF ExecType
  <2>5. exec' \in [Passes -> ExecType]
    BY <2>1, <2>4 DEF Join
  <2> QED BY <2>3, <2>5 DEF Inv, TypeOK, Join
<1>2. Fresh'
  BY DEF Inv, Fresh, Entered, Join, WaitingOn
<1>3. Waiting'
  BY DEF Inv, TypeOK, Waiting, Entered, Join, WaitingOn
<1>4. Booked'
  BY NoKeyAssumption DEF Inv, TypeOK, Booked, Entered, Join, WaitingOn
<1>5. Entered'
  BY DEF Inv, Entered, Join, WaitingOn
<1>6. Found'
  BY DEF Inv, Found, Unaborted, Join, WaitingOn
<1>7. Ended'
  BY DEF Inv, Entered, Ended, Join, WaitingOn
<1>8. Answered'
  BY DEF Inv, TypeOK, ExecType, Answered, Results, Join
<1>9. Decided'
  BY DEF Inv, Decided, Aborted, Join, WaitingOn
<1>10. Kept'
  BY DEF Inv, TypeOK, Unaborted, Kept, Join, WaitingOn
<1> QED BY <1>1, <1>2, <1>3, <1>4, <1>5, <1>6, <1>7, <1>8, <1>9, <1>10 DEF Inv

\* A new execution is the entry of its key, with its opener as waiter.
LEMMA OpenInv ==
  ASSUME Inv, NEW q \in Passes, NEW h \in Keys, Open(q, h)
  PROVE  Inv'
<1>1. TypeOK'
  BY DEF Inv, TypeOK, PassType, ExecType, Open, WaitingOn, NewExec
<1>2. Fresh'
  BY DEF Inv, TypeOK, Fresh, Open, WaitingOn, NewExec
<1>3. Waiting'
  BY DEF Inv, TypeOK, Waiting, Open, WaitingOn, NewExec
<1>4. Booked'
  BY NoKeyAssumption DEF Inv, TypeOK, Fresh, Waiting, Booked, Open,
     WaitingOn, NewExec
<1>5. Entered'
  BY DEF Inv, TypeOK, ExecType, Fresh, Entered, Open, WaitingOn, NewExec
<1>6. Found'
  BY NoExecAssumption DEF Inv, TypeOK, Found, Unaborted, Open, WaitingOn,
     NewExec
<1>7. Ended'
  BY DEF Inv, TypeOK, Ended, Open, WaitingOn, NewExec
<1>8. Answered'
  BY DEF Inv, TypeOK, ExecType, Answered, Results, Open, NewExec
<1>9. Decided'
  BY DEF Inv, Fresh, Decided, Aborted, Open, WaitingOn, NewExec
<1>10. Kept'
  BY DEF Inv, Booked, Unaborted, Kept, Open, WaitingOn, NewExec
<1> QED BY <1>1, <1>2, <1>3, <1>4, <1>5, <1>6, <1>7, <1>8, <1>9, <1>10 DEF Inv

\* A new execution whose opener aborts meanwhile has no waiter; the rest of the
\* abort is as usual.
LEMMA OpenAbortingInv ==
  ASSUME Inv, NEW q \in Passes, NEW h \in Keys, OpenAborting(q, h)
  PROVE  Inv'
<1> DEFINE c == CallerOf[q]
<1>c. c \in Callers
  BY CallerOfAssumption
<1>1. TypeOK'
  BY <1>c, Without DEF Inv, TypeOK, PassType, ExecType, OpenAborting,
     Rejected, NewExec
<1>2. Fresh'
  BY <1>c, Without, WhoLeaves DEF Inv, TypeOK, PassType, ExecType, Fresh,
     Ended, Aborted, OpenAborting, Rejected, NewExec, OwnSignal
<1>3. Waiting'
  BY <1>c, Without DEF Inv, TypeOK, PassType, ExecType, Results, Fresh,
     Waiting, OpenAborting, Rejected, NewExec
<1>4. Booked'
  BY <1>c, Without, WhoLeaves, NoExecAssumption, NoKeyAssumption, SMTT(30)
     DEF Inv, TypeOK, PassType, ExecType, Fresh, Waiting, Booked,
     OpenAborting, Rejected, NewExec
<1>5. Entered'
  BY <1>c, Without, NoKeyAssumption DEF Inv, TypeOK, ExecType, Fresh,
     Entered, OpenAborting, Rejected, NewExec, OwnSignal
<1>6. Found'
  BY <1>c, Without, NoExecAssumption DEF Inv, TypeOK, ExecType, Found,
     Unaborted, OpenAborting, Rejected, NewExec
<1>7. Ended'
  <2> SUFFICES ASSUME NEW e \in Passes, exec'[e].aborted, exec'[e].key # NoKey
               PROVE  exec'[e].waiters = {}
    BY DEF Ended
  <2>1. e # q /\ exec'[e] = ExecsWithout(c)[e]
    BY <1>c, Without, NoKeyAssumption DEF Inv, TypeOK, OpenAborting, NewExec
  <2>2. /\ exec[e].aborted \/ Deserted(c, e)
        /\ exec[e].key # NoKey
        /\ exec'[e].waiters = {p \in exec[e].waiters : ~Leaves(c, p)}
    BY <1>c, <2>1, Without DEF OwnSignal
  <2>3. CASE exec[e].aborted
    BY <2>2, <2>3 DEF Inv, Ended
  <2>4. CASE Deserted(c, e)
    BY <1>c, <2>2, <2>4, WhoLeaves
  <2> QED BY <2>2, <2>3, <2>4
<1>8. Answered'
  BY <1>c, Without DEF Inv, TypeOK, ExecType, Answered, Results,
     OpenAborting, NewExec
<1>9. Decided'
  BY <1>c, Without, WhoLeaves, SMTT(30) DEF Inv, TypeOK, PassType, ExecType, Results,
     Fresh, Decided, Aborted, OpenAborting, Rejected, NewExec
<1>10. Kept'
  <2> SUFFICES ASSUME NEW p \in Passes, pass'[p].phase = "settled",
                      pass'[p].on # NoExec, exec'[pass'[p].on].state = "running",
                      ~exec'[pass'[p].on].aborted
               PROVE  exec'[pass'[p].on].waiters # {}
    BY DEF Kept, Unaborted
  <2> DEFINE e == pass[p].on
  <2>0. pass'[p].on = e /\ e \in Passes
    BY <1>c, Without DEF Inv, TypeOK, PassType, OpenAborting, Rejected
  <2>1. p # q /\ e # q
    <3>1. pass'[q].on = NoExec
      BY <1>c, Without DEF OpenAborting, Rejected
    <3>2. p # q /\ pass'[p] = PassesWithout(c)[p]
      BY <1>c, <3>1, Without DEF OpenAborting
    <3>3. pass[p].phase \in {"waiting", "settled"}
      BY <1>c, <3>2, Without DEF Leaves
    <3>4. exec[e].state # "unborn"
      BY <3>3, <2>0, NoExecAssumption DEF Inv, Waiting, Decided
    <3>5. exec[q].state = "unborn"
      BY DEF Inv, Fresh, OpenAborting
    <3> QED BY <3>2, <3>4, <3>5
  <2>2. pass'[p] = PassesWithout(c)[p] /\ exec'[e] = ExecsWithout(c)[e]
    BY <1>c, <2>1, Without DEF OpenAborting
  <2>3. /\ exec[e].state = "running"
        /\ ~exec[e].aborted
        /\ ~Deserted(c, e)
        /\ exec'[e].waiters = {x \in exec[e].waiters : ~Leaves(c, x)}
    BY <1>c, <2>0, <2>2, Without
  <2>4. CASE Leaves(c, p)
    BY <1>c, <2>0, <2>3, <2>4, WhoLeaves DEF Leaves
  <2>5. CASE ~Leaves(c, p)
    <3>1. pass[p].phase = "settled" /\ e # NoExec
      BY <1>c, <2>0, <2>2, <2>5, Without
    <3>2. exec[e].waiters # {}
      BY <2>3, <3>1 DEF Inv, Kept, Unaborted
    <3> QED BY <1>c, <2>0, <2>3, <3>2, WhoLeaves
  <2> QED BY <2>4, <2>5
<1> QED BY <1>1, <1>2, <1>3, <1>4, <1>5, <1>6, <1>7, <1>8, <1>9, <1>10 DEF Inv

\* The rest of the chain settles an execution; it stays in the map.
LEMMA SettleInv ==
  ASSUME Inv, NEW d \in Passes, NEW r \in Results, Settle(d, r)
  PROVE  Inv'
<1>1. TypeOK'
  <2>1. [exec[d] EXCEPT !.state = "settled", !.result = r] \in ExecType
    <3>1. exec[d] \in ExecType
      BY DEF Inv, TypeOK
    <3> QED BY <3>1 DEF ExecType
  <2>2. exec' \in [Passes -> ExecType]
    BY <2>1 DEF Inv, TypeOK, Settle
  <2> QED BY <2>2 DEF Inv, TypeOK, Settle
<1>2. Fresh'
  BY DEF Inv, TypeOK, Fresh, Settle
<1>3. Waiting'
  BY DEF Inv, TypeOK, Waiting, Settle
<1>4. Booked'
  BY DEF Inv, TypeOK, Booked, Settle
<1>5. Entered'
  BY DEF Inv, TypeOK, Entered, Settle
<1>6. Found'
  BY DEF Inv, TypeOK, Found, Unaborted, Settle
<1>7. Ended'
  BY DEF Inv, TypeOK, Ended, Settle
<1>8. Answered'
  BY DEF Inv, TypeOK, ExecType, Answered, Results, Settle
<1>9. Decided'
  BY DEF Inv, TypeOK, PassType, Decided, Aborted, Settle
<1>10. Kept'
  BY DEF Inv, TypeOK, PassType, Unaborted, Kept, Settle
<1> QED BY <1>1, <1>2, <1>3, <1>4, <1>5, <1>6, <1>7, <1>8, <1>9, <1>10 DEF Inv

\* A settled execution leaves the map.
LEMMA FinallyInv ==
  ASSUME Inv, NEW d \in Passes, Finally(d)
  PROVE  Inv'
<1>1. TypeOK'
  BY CallerOfAssumption, NoKeyAssumption, NoExecAssumption DEF Inv, TypeOK,
     PassType, ExecType, Fresh, Entered, Ended, Decided, Aborted, Kept,
     Finally
<1>2. Fresh'
  BY DEF Inv, Fresh, Finally
<1>3. Waiting'
  BY DEF Inv, Waiting, Finally
<1>4. Booked'
  BY DEF Inv, Booked, Finally
<1>5. Entered'
  BY DEF Inv, Entered, Finally
<1>6. Found'
  BY DEF Inv, TypeOK, ExecType, Found, Unaborted, Finally
<1>7. Ended'
  BY DEF Inv, Ended, Finally
<1>8. Answered'
  BY DEF Inv, TypeOK, ExecType, Answered, Results, Finally
<1>9. Decided'
  BY DEF Inv, Decided, Aborted, Finally
<1>10. Kept'
  BY DEF Inv, Unaborted, Kept, Finally
<1> QED BY <1>1, <1>2, <1>3, <1>4, <1>5, <1>6, <1>7, <1>8, <1>9, <1>10 DEF Inv

\* A pass gets the result of its execution, which is over.
LEMMA ReactInv ==
  ASSUME Inv, NEW q \in Passes, React(q)
  PROVE  Inv'
<1>1. TypeOK'
  <2>1. pass[q].on \in Passes /\ exec[pass[q].on].result \in Results
    BY DEF React, Inv, Waiting, Answered
  <2>2. [pass[q] EXCEPT !.phase = "settled", !.outcome = exec[pass[q].on].result] \in PassType
    BY <2>1, ZenonT(30) DEF Inv, TypeOK, PassType
  <2>3. pass' \in [Passes -> PassType]
    BY <2>2 DEF Inv, TypeOK, React
  <2>4. exec' \in [Passes -> ExecType]
    BY <2>1, SMTT(30) DEF Inv, TypeOK, ExecType, React
  <2> QED BY <2>3, <2>4 DEF Inv, TypeOK, React
<1>2. Fresh'
  BY DEF Inv, TypeOK, Fresh, React
<1>3. Waiting'
  BY DEF Inv, TypeOK, Waiting, React
<1>4. Booked'
  BY DEF Inv, TypeOK, Booked, React
<1>5. Entered'
  BY DEF Inv, Entered, React
<1>6. Found'
  BY DEF Inv, Found, Unaborted, React
<1>7. Ended'
  BY DEF Inv, Ended, React
<1>8. Answered'
  BY DEF Inv, TypeOK, ExecType, Answered, Results, React
<1>9. Decided'
  <2>1. pass[q].on \in Passes /\ exec[pass[q].on].result \in Results
    BY DEF React, Inv, Waiting, Answered
  <2>2. \A e \in Passes : /\ exec'[e].state = exec[e].state
                          /\ exec'[e].key = exec[e].key
                          /\ exec'[e].result = exec[e].result
    BY <2>1 DEF Inv, TypeOK, ExecType, React
  <2>3. \A p \in Passes : p # q => pass'[p] = pass[p]
    BY DEF Inv, TypeOK, React
  <2>4. /\ pass'[q].on = pass[q].on
        /\ pass'[q].outcome = exec[pass[q].on].result
    BY DEF Inv, TypeOK, PassType, React
  <2> SUFFICES ASSUME NEW p \in Passes, pass'[p].phase = "settled"
               PROVE  /\ pass'[p].outcome # "none"
                      /\ pass'[p].outcome = "aborted" =>
                           /\ Aborted(p)'
                           /\ pass'[p].on # NoExec => exec'[pass'[p].on].key # NoKey
                      /\ pass'[p].outcome \in Results =>
                           /\ pass'[p].on \in Passes
                           /\ exec'[pass'[p].on].state = "reported"
                           /\ pass'[p].outcome = exec'[pass'[p].on].result
                      /\ pass'[p].on # NoExec => exec'[pass'[p].on].state # "unborn"
    BY DEF Decided
  <2>5. CASE p = q
    BY <2>1, <2>2, <2>4, <2>5, SMTT(30) DEF React, Results
  <2>6. CASE p # q
    BY <2>2, <2>3, <2>6, SMTT(30) DEF Inv, TypeOK, PassType, Decided, React, Aborted, Results
  <2> QED BY <2>5, <2>6
<1>10. Kept'
  BY DEF Inv, TypeOK, PassType, Unaborted, Kept, React
<1> QED BY <1>1, <1>2, <1>3, <1>4, <1>5, <1>6, <1>7, <1>8, <1>9, <1>10 DEF Inv

-----------------------------------------------------------------------------

\* Every step keeps the invariant.
LEMMA InvStep == Inv /\ [Next]_dedupeVars => Inv'
<1> SUFFICES ASSUME Inv, [Next]_dedupeVars PROVE Inv'
  OBVIOUS
<1>1. CASE UNCHANGED dedupeVars
  BY <1>1 DEF dedupeVars, Inv, TypeOK, Fresh, Waiting, Booked, Entered, Found, Ended,
              Answered, Decided, Kept, Aborted, Unaborted
<1>2. ASSUME NEW c \in Callers, Abort(c) PROVE Inv'
  BY <1>2, AbortInv
<1>3. ASSUME NEW p \in Passes, NEW k \in Keys \cup {NoKey}, Call(p, k) PROVE Inv'
  BY <1>3, BypassInv, RefuseInv, JoinInv, OpenInv, OpenAbortingInv DEF Call
<1>4. ASSUME NEW e \in Passes, NEW r \in Results, Settle(e, r) PROVE Inv'
  BY <1>4, SettleInv
<1>5. ASSUME NEW e \in Passes, Finally(e) \/ React(e) PROVE Inv'
  BY <1>5, FinallyInv, ReactInv
<1> QED BY <1>1, <1>2, <1>3, <1>4, <1>5 DEF Next

\* The invariant holds in every reachable state.
THEOREM InvInvariant == Spec => []Inv
BY InitInv, InvStep, PTL DEF Spec

\* The state keeps its type.
THEOREM TypeTheorem == Spec => []TypeOK
<1>1. Inv => TypeOK
  BY DEF Inv
<1> QED BY <1>1, InvInvariant, PTL

\* At most one unaborted execution of a key runs, and every call meets it: for
\* any number of callers, passes and keys.
THEOREM OneExecutionTheorem == Spec => []OneExecution
<1>1. Inv => OneExecution
  BY InvImplies
<1> QED BY <1>1, InvInvariant, PTL

\* The callers of an execution share its result, and an abort is for the caller
\* who aborted, or for nobody left.
THEOREM SharedFateTheorem == Spec => []SharedFate
<1>1. Inv => SharedFate
  BY InvImplies
<1> QED BY <1>1, InvInvariant, PTL

-----------------------------------------------------------------------------
(* The chain of plugins *)


AttemptType == [phase: {"idle", "trying", "waiting", "done"},
                n: 0 .. Retries,
                key: Keys \cup {NoKey},
                streaming: BOOLEAN,
                outcome: Results \cup {"none", "aborted"}]

\* The passes of a caller are tried in order, one at a time.
Tries ==
  \A c \in Callers, i \in 0 .. Retries :
    /\ i > attempt[c].n => pass[<<c, i>>].phase = "idle"
    /\ i < attempt[c].n => pass[<<c, i>>].phase = "settled"
    /\ i = attempt[c].n /\ attempt[c].phase \in {"idle", "waiting"}
         => pass[<<c, i>>].phase = "idle"

\* A caller that has not called has made no attempt.
Begins == \A c \in Callers : attempt[c].phase = "idle" => attempt[c].n = 0

ChainInv == /\ Inv
            /\ attempt \in [Callers -> AttemptType]
            /\ Begins
            /\ Tries
            /\ RetryIsNew

\* The passes of the instance are the attempts.
LEMMA AttemptIsPass ==
  ASSUME NEW c \in Callers, NEW i \in 0 .. Retries
  PROVE  <<c, i>> \in Passes /\ CallerOf[<<c, i>>] = c
BY PassesAssumption DEF Attempts

-----------------------------------------------------------------------------
(* The chain implements Dedupe.                                            *)

LEMMA EnterIsCall ==
  ASSUME NEW p, NEW k, Enter(p, k)
  PROVE  Call(p, k)
BY DEF Enter, Call

\* Every step of the chain is a step of Dedupe, or leaves its state alone.
LEMMA ChainStep ==
  ASSUME attempt \in [Callers -> AttemptType], [ChainNext]_vars
  PROVE  [Next]_dedupeVars
<1>1. CASE UNCHANGED vars
  BY <1>1 DEF vars, dedupeVars
<1>2. ASSUME NEW c \in Callers, Begin(c) PROVE Next
  <2>1. PICK k \in Keys \cup {NoKey} : Enter(<<c, 0>>, k)
    BY <1>2 DEF Begin
  <2>2. <<c, 0>> \in Passes
    BY AttemptIsPass, RetriesAssumption
  <2> QED BY <2>1, <2>2, EnterIsCall DEF Next
<1>3. ASSUME NEW c \in Callers, AfterAttempt(c) PROVE UNCHANGED dedupeVars
  BY <1>3 DEF AfterAttempt, dedupeVars
<1>4. ASSUME NEW c \in Callers, WaitEnds(c) PROVE [Next]_dedupeVars
  <2>1. CASE signal[c] = "aborted"
    BY <1>4, <2>1 DEF WaitEnds, dedupeVars
  <2>2. CASE signal[c] # "aborted"
    <3>1. Enter(<<c, attempt[c].n>>, attempt[c].key)
      BY <1>4, <2>2 DEF WaitEnds
    <3>2. <<c, attempt[c].n>> \in Passes /\ attempt[c].key \in Keys \cup {NoKey}
      BY AttemptIsPass DEF AttemptType
    <3> QED BY <3>1, <3>2, EnterIsCall DEF Next
  <2> QED BY <2>1, <2>2
<1>5. ASSUME NEW c \in Callers, AbortCaller(c) PROVE Next
  BY <1>5 DEF AbortCaller, Next
<1>6. ASSUME NEW e \in Attempts, CacheReturns(e) \/ Resume(e) PROVE Next
  BY <1>6, PassesAssumption DEF CacheReturns, Resume, Next, Results
<1>7. ASSUME NEW e \in Attempts, NEW r \in Results, NEW stream \in BOOLEAN,
             LinkAnswers(e, r, stream)
      PROVE  Next
  BY <1>7, PassesAssumption DEF LinkAnswers, Next
<1>8. ASSUME NEW k \in Keys, Expire(k) PROVE UNCHANGED dedupeVars
  BY <1>8 DEF Expire, dedupeVars
<1> QED BY <1>1, <1>2, <1>3, <1>4, <1>5, <1>6, <1>7, <1>8 DEF ChainNext

-----------------------------------------------------------------------------
(* What the steps do to the passes.                                        *)

\* A step that is no call keeps what every pass shares, and moves none into or
\* out of "idle", nor out of "settled".
LEMMA PassesStay ==
  ASSUME Inv,
         \/ \E c \in Callers : Abort(c)
         \/ \E e \in Passes, r \in Results : Settle(e, r)
         \/ \E e \in Passes : Finally(e) \/ React(e)
  PROVE  \A p \in Passes : /\ pass'[p].on = pass[p].on
                           /\ pass'[p].phase = "idle" <=> pass[p].phase = "idle"
                           /\ pass[p].phase = "settled" => pass'[p].phase = "settled"
<1>1. ASSUME NEW c \in Callers, Abort(c)
      PROVE  \A p \in Passes : /\ pass'[p].on = pass[p].on
                               /\ pass'[p].phase = "idle" <=> pass[p].phase = "idle"
                               /\ pass[p].phase = "settled" => pass'[p].phase = "settled"
  BY <1>1, Without DEF Abort, Leaves
<1>2. ASSUME NEW e \in Passes, React(e)
      PROVE  \A p \in Passes : /\ pass'[p].on = pass[p].on
                               /\ pass'[p].phase = "idle" <=> pass[p].phase = "idle"
                               /\ pass[p].phase = "settled" => pass'[p].phase = "settled"
  BY <1>2, SMTT(30) DEF React, Inv, TypeOK, PassType
<1> QED BY <1>1, <1>2 DEF Settle, Finally

\* A call of q moves q out of "idle" and keeps the others as above; what q
\* shares then is nothing, an execution of its own, or the entry of a key.
LEMMA PassCalled ==
  ASSUME Inv, NEW q \in Passes, NEW k \in Keys \cup {NoKey}, Call(q, k)
  PROVE  /\ pass[q].phase = "idle"
         /\ pass'[q].phase # "idle"
         /\ pass'[q].on \in {NoExec, q} \/ \E h \in Keys : pass'[q].on = inflight[h]
         /\ \A p \in Passes : p # q =>
              /\ pass'[p].on = pass[p].on
              /\ pass'[p].phase = "idle" <=> pass[p].phase = "idle"
              /\ pass[p].phase = "settled" => pass'[p].phase = "settled"
<1>1. CASE OpenAborting(q, k)
  <2>1. CallerOf[q] \in Callers
    BY CallerOfAssumption
  <2> QED BY <1>1, <2>1, Without DEF OpenAborting, Rejected, Leaves
<1>2. CASE k \in Keys /\ Join(q, k)
  BY <1>2 DEF Inv, TypeOK, Join, WaitingOn
<1>3. CASE Bypass(q) \/ Refuse(q) \/ Open(q, k)
  BY <1>3 DEF Inv, TypeOK, Bypass, Refuse, Open, WaitingOn, Rejected
<1> QED BY <1>1, <1>2, <1>3 DEF Call

-----------------------------------------------------------------------------
(* A retry is new.                                                         *)

\* A step that calls no pass keeps the order of the passes, unless the retry
\* loop goes on.
LEMMA StayKeeps ==
  ASSUME ChainInv, attempt' = attempt,
         \A p \in Passes : /\ pass'[p].on = pass[p].on
                           /\ pass'[p].phase = "idle" <=> pass[p].phase = "idle"
                           /\ pass[p].phase = "settled" => pass'[p].phase = "settled"
  PROVE  (Tries /\ RetryIsNew)'
<1>1. Tries'
  BY AttemptIsPass DEF ChainInv, Tries
<1>2. RetryIsNew'
  BY AttemptIsPass DEF ChainInv, RetryIsNew
<1> QED BY <1>1, <1>2

\* A pass that is called while its signal is not aborted shares no execution
\* that an earlier, settled pass of the caller has shared.
LEMMA CallIsNew ==
  ASSUME Inv, NEW c \in Callers, NEW i \in 0 .. Retries, NEW j \in 0 .. Retries,
         NEW k \in Keys \cup {NoKey}, i # j,
         pass[<<c, i>>].phase = "settled", signal[c] # "aborted",
         Call(<<c, j>>, k), pass'[<<c, i>>].on # NoExec
  PROVE  pass'[<<c, i>>].on # pass'[<<c, j>>].on
<1> DEFINE p == <<c, i>>
           q == <<c, j>>
           e == pass[p].on
<1>1. /\ p \in Passes /\ q \in Passes /\ p # q
      /\ CallerOf[p] = c
  BY AttemptIsPass
<1> HIDE DEF p, q
<1>2. pass'[p].on = e /\ pass[q].phase = "idle"
  BY <1>1, PassCalled DEF q
<1>3. e \in Passes
  BY <1>1, <1>2 DEF Inv, TypeOK, PassType, p
<1>4. exec[e].state = "reported"
  <2>1. pass[p].outcome # "aborted"
    BY <1>1 DEF Inv, Decided, Aborted, p
  <2>2. pass[p].outcome \in Results
    BY <1>1, <2>1 DEF Inv, TypeOK, PassType, Decided, p
  <2> QED BY <1>1, <2>2 DEF Inv, Decided, p
<1>5. e # q
  BY <1>1, <1>2, <1>4 DEF Inv, Fresh
<1>6. \A h \in Keys : inflight[h] # e
  BY <1>3, <1>4, NoExecAssumption DEF Inv, Entered
<1>7. pass'[q].on \in {NoExec, q} \/ \E h \in Keys : pass'[q].on = inflight[h]
  BY <1>1, PassCalled DEF q
<1> QED BY <1>2, <1>3, <1>5, <1>6, <1>7, NoExecAssumption DEF p, q

\* The call of the current attempt of c, which is idle until then.
LEMMA EnterKeeps ==
  ASSUME ChainInv, NEW c \in Callers, NEW k \in Keys \cup {NoKey},
         attempt[c].phase \in {"idle", "waiting"},
         attempt[c].n > 0 => signal[c] # "aborted",
         Call(<<c, attempt[c].n>>, k),
         attempt' \in [Callers -> AttemptType],
         \A d \in Callers : attempt'[d].n = attempt[d].n,
         \A d \in Callers : d # c => attempt'[d] = attempt[d],
         attempt'[c].phase = "trying"
  PROVE  (Tries /\ RetryIsNew)'
<1> DEFINE j == attempt[c].n
<1>1. j \in 0 .. Retries
  BY DEF ChainInv, AttemptType
<1>2. \A p \in Passes : p # <<c, j>> =>
        /\ pass'[p].on = pass[p].on
        /\ pass'[p].phase = "idle" <=> pass[p].phase = "idle"
        /\ pass[p].phase = "settled" => pass'[p].phase = "settled"
  BY <1>1, AttemptIsPass, PassCalled DEF ChainInv
<1>3. Tries'
  <2> SUFFICES ASSUME NEW d \in Callers, NEW i \in 0 .. Retries
               PROVE  /\ i > attempt'[d].n => pass'[<<d, i>>].phase = "idle"
                      /\ i < attempt'[d].n => pass'[<<d, i>>].phase = "settled"
                      /\ i = attempt'[d].n /\ attempt'[d].phase \in {"idle", "waiting"}
                           => pass'[<<d, i>>].phase = "idle"
    BY DEF Tries
  <2>1. CASE <<d, i>> = <<c, j>>
    BY <2>1, <1>1
  <2>2. CASE <<d, i>> # <<c, j>>
    BY <2>2, <1>1, <1>2, AttemptIsPass DEF ChainInv, Tries
  <2> QED BY <2>1, <2>2
<1>4. RetryIsNew'
  <2> SUFFICES ASSUME NEW d \in Callers, NEW i \in 0 .. Retries, NEW l \in 0 .. Retries,
                      i < l, pass'[<<d, i>>].on # NoExec
               PROVE  pass'[<<d, i>>].on # pass'[<<d, l>>].on
    BY DEF RetryIsNew
  <2>1. CASE d = c /\ l = j
    <3>1. pass[<<c, i>>].phase = "settled" /\ j > 0 /\ i # j
      BY <2>1, <1>1 DEF ChainInv, Tries
    <3> QED BY <2>1, <3>1, CallIsNew DEF ChainInv
  <2>2. CASE d = c /\ i = j
    <3>1. pass[<<c, l>>].on = NoExec /\ pass'[<<c, l>>].on = pass[<<c, l>>].on
      BY <2>2, <1>1, <1>2, AttemptIsPass DEF ChainInv, Tries, Inv, Fresh
    <3> QED BY <2>2, <3>1
  <2>3. CASE <<d, i>> # <<c, j>> /\ <<d, l>> # <<c, j>>
    BY <2>3, <1>2, AttemptIsPass DEF ChainInv, RetryIsNew
  <2> QED BY <2>1, <2>2, <2>3
<1> QED BY <1>3, <1>4

LEMMA ChainInitInv == ChainInit => ChainInv
<1> SUFFICES ASSUME ChainInit PROVE ChainInv
  OBVIOUS
<1>1. Inv
  BY InitInv DEF ChainInit
<1>2. attempt \in [Callers -> AttemptType]
  BY RetriesAssumption DEF ChainInit, AttemptType
<1>3. \A p \in Passes : pass[p].phase = "idle" /\ pass[p].on = NoExec
  BY DEF ChainInit, Init
<1>4. Begins /\ Tries /\ RetryIsNew
  BY <1>3, AttemptIsPass, RetriesAssumption DEF ChainInit, Begins, Tries, RetryIsNew
<1> QED BY <1>1, <1>2, <1>4 DEF ChainInv

\* The first attempt of a call.
LEMMA BeginInv ==
  ASSUME ChainInv, NEW c \in Callers, Begin(c)
  PROVE  (attempt \in [Callers -> AttemptType] /\ Begins /\ Tries /\ RetryIsNew)'
<1>1. PICK k \in Keys \cup {NoKey}, b \in BOOLEAN :
        /\ Enter(<<c, 0>>, k)
        /\ attempt' = [attempt EXCEPT ![c].phase = "trying", ![c].key = k,
                                      ![c].streaming = b]
  BY DEF Begin
<1>2. attempt[c].phase = "idle" /\ attempt[c].n = 0
  BY DEF ChainInv, Begins, Begin
<1>3. attempt' = [attempt EXCEPT ![c] =
                    [attempt[c] EXCEPT !.phase = "trying", !.key = k, !.streaming = b]]
  BY <1>1 DEF ChainInv, AttemptType
<1>4. [attempt[c] EXCEPT !.phase = "trying", !.key = k, !.streaming = b] \in AttemptType
  BY DEF ChainInv, AttemptType
<1>5. /\ attempt' \in [Callers -> AttemptType]
      /\ attempt'[c].phase = "trying"
      /\ attempt'[c].n = attempt[c].n
      /\ \A d \in Callers : d # c => attempt'[d] = attempt[d]
  BY <1>3, <1>4 DEF ChainInv, AttemptType
<1>6. (Tries /\ RetryIsNew)'
  BY <1>1, <1>2, <1>5, EnterIsCall, EnterKeeps
<1>7. Begins'
  BY <1>5 DEF ChainInv, Begins
<1> QED BY <1>5, <1>6, <1>7

\* An attempt is over: the next one waits, and has not been called.
LEMMA AfterAttemptInv ==
  ASSUME ChainInv, NEW c \in Callers, AfterAttempt(c)
  PROVE  (attempt \in [Callers -> AttemptType] /\ Begins /\ Tries /\ RetryIsNew)'
<1>1. /\ pass' = pass
      /\ attempt[c] \in AttemptType
      /\ attempt[c].phase = "trying"
      /\ pass[<<c, attempt[c].n>>].phase = "settled"
  BY DEF AfterAttempt, Tried, ChainInv
<1>2. RetryIsNew'
  BY <1>1 DEF ChainInv, RetryIsNew
<1>3. CASE Retried(c)
  <2>1. attempt' = [attempt EXCEPT ![c].phase = "waiting", ![c].n = @ + 1]
    BY <1>3 DEF AfterAttempt
  <2>2. attempt[c].n \in 0 .. Retries /\ attempt[c].n + 1 \in 0 .. Retries
    BY <1>1, <1>3, RetriesAssumption DEF Retried, AttemptType
  <2>3. [attempt[c] EXCEPT !.phase = "waiting", !.n = @ + 1] \in AttemptType
    BY <1>1, <2>2 DEF AttemptType
  <2>4. /\ attempt' \in [Callers -> AttemptType]
        /\ attempt'[c].phase = "waiting"
        /\ attempt'[c].n = attempt[c].n + 1
        /\ \A d \in Callers : d # c => attempt'[d] = attempt[d]
    BY <1>1, <2>1, <2>3 DEF ChainInv, AttemptType
  <2>5. Tries'
    <3> SUFFICES ASSUME NEW d \in Callers, NEW i \in 0 .. Retries
                 PROVE  /\ i > attempt'[d].n => pass'[<<d, i>>].phase = "idle"
                        /\ i < attempt'[d].n => pass'[<<d, i>>].phase = "settled"
                        /\ i = attempt'[d].n /\ attempt'[d].phase \in {"idle", "waiting"}
                             => pass'[<<d, i>>].phase = "idle"
      BY DEF Tries
    <3>1. CASE d = c /\ i > attempt[c].n
      <4>1. pass'[<<c, i>>].phase = "idle" /\ ~(i < attempt'[c].n)
        BY <3>1, <1>1, <2>2, <2>4 DEF ChainInv, Tries
      <4> QED BY <3>1, <4>1
    <3>2. CASE d = c /\ i <= attempt[c].n
      <4>1. pass'[<<c, i>>].phase = "settled" /\ i < attempt'[c].n
        BY <3>2, <1>1, <2>2, <2>4 DEF ChainInv, Tries
      <4> QED BY <3>2, <4>1, <2>2, <2>4
    <3>3. CASE d # c
      BY <3>3, <1>1, <2>4 DEF ChainInv, Tries
    <3> QED BY <3>1, <3>2, <3>3, <2>2
  <2>6. Begins'
    BY <2>4 DEF ChainInv, Begins
  <2> QED BY <1>2, <2>4, <2>5, <2>6
<1>4. CASE ~Retried(c)
  <2>1. attempt' = [attempt EXCEPT ![c].phase = "done",
                                   ![c].outcome = pass[<<c, attempt[c].n>>].outcome]
    BY <1>4 DEF AfterAttempt, Tried
  <2>2. pass[<<c, attempt[c].n>>].outcome \in Results \cup {"none", "aborted"}
    BY <1>1, AttemptIsPass DEF ChainInv, AttemptType, Inv, TypeOK, PassType
  <2>3. /\ attempt' \in [Callers -> AttemptType]
        /\ attempt'[c].phase = "done"
        /\ attempt'[c].n = attempt[c].n
        /\ \A d \in Callers : d # c => attempt'[d] = attempt[d]
    BY <1>1, <2>1, <2>2 DEF ChainInv, AttemptType
  <2>4. Tries' /\ Begins'
    BY <1>1, <2>3 DEF ChainInv, Tries, Begins
  <2> QED BY <1>2, <2>3, <2>4
<1> QED BY <1>3, <1>4

\* The wait is over: the loop ends with the abort, or calls the next attempt.
LEMMA WaitEndsInv ==
  ASSUME ChainInv, NEW c \in Callers, WaitEnds(c)
  PROVE  (attempt \in [Callers -> AttemptType] /\ Begins /\ Tries /\ RetryIsNew)'
<1>1. attempt[c] \in AttemptType /\ attempt[c].phase = "waiting"
  BY DEF WaitEnds, ChainInv
<1>2. CASE signal[c] = "aborted"
  <2>1. /\ pass' = pass
        /\ attempt' = [attempt EXCEPT ![c].phase = "done", ![c].outcome = "aborted"]
    BY <1>2 DEF WaitEnds
  <2>2. /\ attempt' \in [Callers -> AttemptType]
        /\ attempt'[c].phase = "done"
        /\ attempt'[c].n = attempt[c].n
        /\ \A d \in Callers : d # c => attempt'[d] = attempt[d]
    BY <1>1, <2>1 DEF ChainInv, AttemptType
  <2>3. Tries' /\ Begins' /\ RetryIsNew'
    BY <2>1, <2>2 DEF ChainInv, Tries, Begins, RetryIsNew
  <2> QED BY <2>2, <2>3
<1>3. CASE signal[c] # "aborted"
  <2>1. /\ Enter(<<c, attempt[c].n>>, attempt[c].key)
        /\ attempt' = [attempt EXCEPT ![c].phase = "trying"]
    BY <1>3 DEF WaitEnds
  <2>2. /\ attempt' \in [Callers -> AttemptType]
        /\ attempt'[c].phase = "trying"
        /\ attempt'[c].n = attempt[c].n
        /\ \A d \in Callers : d # c => attempt'[d] = attempt[d]
    BY <1>1, <2>1 DEF ChainInv, AttemptType
  <2>3. attempt[c].key \in Keys \cup {NoKey}
    BY <1>1 DEF AttemptType
  <2>4. (Tries /\ RetryIsNew)'
    BY <1>1, <1>3, <2>1, <2>2, <2>3, EnterIsCall, EnterKeeps
  <2>5. Begins'
    BY <2>2 DEF ChainInv, Begins
  <2> QED BY <2>2, <2>4, <2>5
<1> QED BY <1>2, <1>3

LEMMA ChainInvStep == ChainInv /\ [ChainNext]_vars => ChainInv'
<1> SUFFICES ASSUME ChainInv, [ChainNext]_vars PROVE ChainInv'
  OBVIOUS
<1>1. Inv'
  BY ChainStep, InvStep DEF ChainInv
<1>2. CASE UNCHANGED vars
  BY <1>1, <1>2 DEF vars, ChainInv, Begins, Tries, RetryIsNew
<1>3. ASSUME NEW c \in Callers, Begin(c) PROVE ChainInv'
  BY <1>1, <1>3, BeginInv DEF ChainInv
<1>4. ASSUME NEW c \in Callers, AfterAttempt(c) PROVE ChainInv'
  BY <1>1, <1>4, AfterAttemptInv DEF ChainInv
<1>5. ASSUME NEW c \in Callers, WaitEnds(c) PROVE ChainInv'
  BY <1>1, <1>5, WaitEndsInv DEF ChainInv
<1>6. ASSUME \/ \E c \in Callers : AbortCaller(c)
             \/ \E e \in Attempts : CacheReturns(e) \/ Resume(e)
             \/ \E e \in Attempts, r \in Results, stream \in BOOLEAN : LinkAnswers(e, r, stream)
      PROVE  ChainInv'
  <2>1. attempt' = attempt
    BY <1>6 DEF AbortCaller, CacheReturns, Resume, LinkAnswers
  <2>2. \/ \E c \in Callers : Abort(c)
        \/ \E e \in Passes, r \in Results : Settle(e, r)
        \/ \E e \in Passes : Finally(e) \/ React(e)
    BY <1>6, PassesAssumption DEF AbortCaller, CacheReturns, Resume, LinkAnswers, Results
  <2>3. (Tries /\ RetryIsNew)'
    BY <2>1, <2>2, PassesStay, StayKeeps DEF ChainInv
  <2> QED BY <1>1, <2>1, <2>3 DEF ChainInv, Begins
<1>7. ASSUME NEW k \in Keys, Expire(k) PROVE ChainInv'
  BY <1>1, <1>7 DEF Expire, ChainInv, Begins, Tries, RetryIsNew
<1> QED BY <1>2, <1>3, <1>4, <1>5, <1>6, <1>7 DEF ChainNext

\* The invariant holds in every state: the passes of a caller are tried in order,
\* each on an execution of its own.
THEOREM ChainInvariant == ChainSpec => []ChainInv
BY ChainInitInv, ChainInvStep, PTL DEF ChainSpec

\* The chain of plugins implements Dedupe: with retries, a cache and a link below
\* it, the dedupe plugin is called only in the ways Dedupe describes.
THEOREM ChainIsDedupe == ChainSpec => Spec
<1>1. ChainInit => Init
  BY DEF ChainInit
<1>2. ChainInv /\ [ChainNext]_vars => [Next]_dedupeVars
  BY ChainStep DEF ChainInv
<1> QED BY <1>1, <1>2, ChainInvariant, PTL DEF ChainSpec, Spec

\* A caller's attempts are made on different executions, for any number of
\* retries and callers that share them.
THEOREM RetryIsNewTheorem == ChainSpec => []RetryIsNew
<1>1. ChainInv => RetryIsNew
  BY DEF ChainInv
<1> QED BY <1>1, ChainInvariant, PTL

-----------------------------------------------------------------------------
(* The store keeps its order.                                              *)

CacheTypeOK ==
  /\ store \in [Keys -> Passes \cup {NoExec}]
  /\ answer \in [Passes -> Passes \cup {NoExec}]
  /\ order \in [Passes -> Nat]

\* The counter of link calls numbers them.
Numbered == \A e \in Passes : order[e] <= Cardinality(LinkCalls)

\* An execution that was not started has called nothing, and one that returns
\* the answer of its own call has made it.
Called ==
  \A e \in Passes : /\ exec[e].state = "unborn" => order[e] = 0 /\ answer[e] = NoExec
                    /\ answer[e] = e => order[e] > 0

\* What is stored was started.
StoredIsBorn ==
  \A k \in Keys : store[k] # NoExec => exec[store[k]].state # "unborn"

\* The link call that may still be stored under a key is later than the stored.
LaterRuns ==
  \A e \in Passes :
    /\ Unaborted(e)
    /\ exec[e].key \in Keys
    /\ answer[e] = e
    /\ store[exec[e].key] # NoExec
    => order[store[exec[e].key]] <= order[e]

CacheInv == CacheTypeOK /\ Numbered /\ Called /\ StoredIsBorn /\ LaterRuns

\* A call of the link by an execution that has called nothing gets the next
\* number, and the others keep theirs.
LEMMA NextNumber ==
  ASSUME CacheTypeOK, Numbered, NEW q \in Passes, order[q] = 0, CallLink(q)
  PROVE  /\ CacheTypeOK'
         /\ Numbered'
         /\ answer'[q] = q
         /\ order'[q] > 0
         /\ \A e \in Passes : order[e] < order'[q]
         /\ \A e \in Passes : e # q => order'[e] = order[e] /\ answer'[e] = answer[e]
         /\ store' = store
<1>1. IsFiniteSet(Passes)
  <2>1. IsFiniteSet(0 .. Retries)
    BY RetriesAssumption, FS_Interval
  <2> QED BY <2>1, CallersAssumption, PassesAssumption, FS_Product DEF Attempts
<1>2. LinkCalls \subseteq Passes /\ IsFiniteSet(LinkCalls) /\ q \notin LinkCalls
  BY <1>1, FS_Subset, PassesAssumption DEF LinkCalls
<1> DEFINE n == Cardinality(LinkCalls)
<1>3. n \in Nat
  BY <1>2, FS_CardinalityType
<1>4. order' = [order EXCEPT ![q] = n + 1] /\ answer' = [answer EXCEPT ![q] = q] /\ store' = store
  BY DEF CallLink
<1> HIDE DEF n
<1>5. /\ order' \in [Passes -> Nat]
      /\ order'[q] = n + 1
      /\ \A e \in Passes : e # q => order'[e] = order[e]
  BY <1>3, <1>4 DEF CacheTypeOK
<1>6. LinkCalls' = LinkCalls \cup {q}
  BY <1>3, <1>5, PassesAssumption DEF LinkCalls
<1>7. Cardinality(LinkCalls)' = n + 1
  BY <1>2, <1>6, FS_AddElement DEF n
<1>8. \A e \in Passes : order[e] <= n
  BY DEF Numbered, n
<1>9. CacheTypeOK'
  BY <1>4, <1>5 DEF CacheTypeOK
<1>10. Numbered'
  BY <1>3, <1>5, <1>7, <1>8 DEF Numbered, CacheTypeOK
<1>11. answer'[q] = q /\ \A e \in Passes : e # q => answer'[e] = answer[e]
  BY <1>4 DEF CacheTypeOK
<1>12. \A e \in Passes : order[e] < order'[q]
  BY <1>3, <1>5, <1>8 DEF CacheTypeOK
<1> QED BY <1>3, <1>4, <1>5, <1>9, <1>10, <1>11, <1>12

\* What a step that starts no execution does to the executions.
LEMMA ExecsStay ==
  ASSUME Inv,
         \/ \E c \in Callers : Abort(c)
         \/ \E e \in Passes, r \in Results : Settle(e, r)
         \/ \E e \in Passes : Finally(e) \/ React(e)
         \/ \E p \in Passes : Refuse(p) \/ \E k \in Keys : Join(p, k)
  PROVE  \A e \in Passes : /\ exec'[e].state = "unborn" <=> exec[e].state = "unborn"
                           /\ exec'[e].key = exec[e].key
                           /\ Unaborted(e)' => Unaborted(e)
<1>1. ASSUME NEW c \in Callers, Abort(c)
      PROVE  \A e \in Passes : /\ exec'[e].state = exec[e].state
                               /\ exec'[e].key = exec[e].key
                               /\ Unaborted(e)' => Unaborted(e)
  BY <1>1, Without DEF Abort, Unaborted
<1>2. ASSUME NEW d \in Passes, NEW r \in Results, Settle(d, r)
      PROVE  \A e \in Passes : /\ exec'[e].state = "unborn" <=> exec[e].state = "unborn"
                               /\ exec'[e].key = exec[e].key
                               /\ Unaborted(e)' => Unaborted(e)
  BY <1>2 DEF Inv, TypeOK, ExecType, Settle, Unaborted
<1>3. ASSUME NEW d \in Passes, Finally(d) \/ React(d)
      PROVE  \A e \in Passes : /\ exec'[e].state = "unborn" <=> exec[e].state = "unborn"
                               /\ exec'[e].key = exec[e].key
                               /\ Unaborted(e)' => Unaborted(e)
  BY <1>3, SMTT(30) DEF Inv, TypeOK, ExecType, Waiting, Finally, React, Unaborted
<1>4. ASSUME NEW p \in Passes, NEW k \in Keys, Join(p, k)
      PROVE  \A e \in Passes : /\ exec'[e].state = exec[e].state
                               /\ exec'[e].key = exec[e].key
                               /\ Unaborted(e)' => Unaborted(e)
  BY <1>4 DEF Inv, TypeOK, ExecType, Join, Unaborted
<1>5. ASSUME NEW p \in Passes, Refuse(p)
      PROVE  exec' = exec
  BY <1>5 DEF Refuse
<1> QED BY <1>1, <1>2, <1>3, <1>4, <1>5 DEF Unaborted

\* What a step that starts the execution q does to the others.
LEMMA ExecStarted ==
  ASSUME Inv, NEW q \in Passes, NEW k \in Keys \cup {NoKey},
         \/ k = NoKey /\ Bypass(q)
         \/ k \in Keys /\ (Open(q, k) \/ OpenAborting(q, k))
  PROVE  /\ exec[q].state = "unborn"
         /\ exec'[q].state = "running"
         /\ exec'[q].key = k
         /\ \A e \in Passes : e # q => /\ exec'[e].state = exec[e].state
                                       /\ exec'[e].key = exec[e].key
                                       /\ Unaborted(e)' => Unaborted(e)
<1>1. exec[q].state = "unborn"
  BY DEF Inv, Fresh, Bypass, Open, OpenAborting
<1>2. CASE OpenAborting(q, k)
  <2>1. CallerOf[q] \in Callers
    BY CallerOfAssumption
  <2> QED BY <1>1, <1>2, <2>1, Without DEF OpenAborting, NewExec, Unaborted
<1>3. CASE Open(q, k)
  BY <1>1, <1>3 DEF Inv, TypeOK, Open, NewExec, Unaborted
<1>4. CASE k = NoKey /\ Bypass(q)
  BY <1>1, <1>4 DEF Inv, TypeOK, Bypass, NewExec, Unaborted
<1> QED BY <1>2, <1>3, <1>4

LEMMA CacheInitInv == ChainInit => CacheInv
<1> SUFFICES ASSUME ChainInit PROVE CacheInv
  OBVIOUS
<1>1. /\ store = [k \in Keys |-> NoExec]
      /\ answer = [e \in Passes |-> NoExec]
      /\ order = [e \in Passes |-> 0]
  BY PassesAssumption DEF ChainInit
<1>2. LinkCalls = {}
  BY <1>1, PassesAssumption DEF LinkCalls
<1>3. CacheTypeOK /\ Numbered
  BY <1>1, <1>2, FS_EmptySet DEF CacheTypeOK, Numbered
<1>4. Called /\ StoredIsBorn /\ LaterRuns
  BY <1>1, NoExecAssumption DEF Called, StoredIsBorn, LaterRuns
<1> QED BY <1>3, <1>4 DEF CacheInv

\* A pass enters the chain: nothing is stored, and a call of the link that is
\* made is the latest.
LEMMA EnterOrder ==
  ASSUME Inv, CacheInv, NEW q \in Passes, NEW k \in Keys \cup {NoKey}, Enter(q, k)
  PROVE  /\ CacheInv'
         /\ store' = store
         /\ \A h \in Keys : store[h] # NoExec => order'[store[h]] = order[store[h]]
<1> USE DEF CacheInv
<1>1. CASE k \in Keys /\ (Refuse(q) \/ Join(q, k)) /\ UNCHANGED cacheVars
  <2>1. \A e \in Passes : /\ exec'[e].state = "unborn" <=> exec[e].state = "unborn"
                          /\ exec'[e].key = exec[e].key
                          /\ Unaborted(e)' => Unaborted(e)
    BY <1>1, ExecsStay
  <2>2. store' = store /\ answer' = answer /\ order' = order
    BY <1>1 DEF cacheVars
  <2>3. CacheTypeOK' /\ Numbered'
    BY <2>2 DEF CacheTypeOK, Numbered, LinkCalls
  <2>4. Called' /\ StoredIsBorn' /\ LaterRuns'
    BY <2>1, <2>2 DEF CacheTypeOK, Called, StoredIsBorn, LaterRuns
  <2> QED BY <2>2, <2>3, <2>4
<1>2. ASSUME \/ k = NoKey /\ Bypass(q) /\ CallLink(q)
             \/ k \in Keys /\ (Open(q, k) \/ OpenAborting(q, k)) /\ Lookup(q, k)
      PROVE  /\ CacheInv'
             /\ store' = store
             /\ \A h \in Keys : store[h] # NoExec => order'[store[h]] = order[store[h]]
  <2>1. /\ exec[q].state = "unborn"
        /\ exec'[q].state = "running"
        /\ exec'[q].key = k
        /\ \A e \in Passes : e # q => /\ exec'[e].state = exec[e].state
                                      /\ exec'[e].key = exec[e].key
                                      /\ Unaborted(e)' => Unaborted(e)
    BY <1>2, ExecStarted
  <2>2. order[q] = 0 /\ \A h \in Keys : store[h] # q
    BY <2>1, NoExecAssumption DEF Called, StoredIsBorn
  <2>3. CASE CallLink(q)
    <3>1. /\ CacheTypeOK'
          /\ Numbered'
          /\ answer'[q] = q
          /\ order'[q] > 0
          /\ \A e \in Passes : order[e] < order'[q]
          /\ \A e \in Passes : e # q => order'[e] = order[e] /\ answer'[e] = answer[e]
          /\ store' = store
      BY <2>2, <2>3, NextNumber
    <3>2. \A h \in Keys : store[h] # NoExec => /\ store[h] \in Passes
                                               /\ order'[store[h]] = order[store[h]]
      BY <2>2, <3>1 DEF CacheTypeOK
    <3>3. Called' /\ StoredIsBorn'
      BY <2>1, <3>1, <3>2 DEF Called, StoredIsBorn
    <3>4. LaterRuns'
      <4> SUFFICES ASSUME NEW e \in Passes, Unaborted(e)', exec'[e].key \in Keys,
                          answer'[e] = e, store[exec'[e].key] # NoExec
                   PROVE  order'[store[exec'[e].key]] <= order'[e]
        BY <3>1 DEF LaterRuns
      <4>1. CASE e = q
        BY <4>1, <3>1, <3>2 DEF CacheTypeOK
      <4>2. CASE e # q
        BY <4>2, <2>1, <3>1, <3>2 DEF LaterRuns
      <4> QED BY <4>1, <4>2
    <3> QED BY <3>1, <3>2, <3>3, <3>4
  <2>4. CASE /\ k \in Keys
             /\ answer' = [answer EXCEPT ![q] = store[k]]
             /\ UNCHANGED <<store, fresh, order>>
    <3>1. /\ store' = store
          /\ order' = order
          /\ answer'[q] = store[k]
          /\ answer'[q] # q
          /\ \A e \in Passes : e # q => answer'[e] = answer[e]
      BY <2>2, <2>4 DEF CacheTypeOK
    <3>2. CacheTypeOK' /\ Numbered'
      BY <2>4 DEF CacheTypeOK, Numbered, LinkCalls
    <3>3. Called'
      BY <2>1, <3>1 DEF Called
    <3>4. StoredIsBorn'
      BY <2>1, <3>1 DEF StoredIsBorn, CacheTypeOK
    <3>5. LaterRuns'
      BY <2>1, <3>1 DEF LaterRuns
    <3> QED BY <3>1, <3>2, <3>3, <3>4, <3>5
  <2> QED BY <1>2, <2>3, <2>4 DEF Lookup
<1> QED BY <1>1, <1>2 DEF Enter

\* The link answers: what is stored is the answer of the one execution of its
\* key that runs unaborted, so none is left that could store an earlier one.
LEMMA AnswerOrder ==
  ASSUME Inv, CacheInv, NEW e \in Passes, NEW r \in Results, NEW stream \in BOOLEAN,
         LinkAnswers(e, r, stream)
  PROVE  /\ CacheInv'
         /\ order' = order
         /\ \A k \in Keys : store[k] # NoExec => order[store[k]] <= order[store'[k]]
<1> USE DEF CacheInv
<1>1. /\ answer' = answer
      /\ order' = order
      /\ answer[e] = e
      /\ exec[e].state = "running"
      /\ exec'[e].state = "settled"
  BY DEF LinkAnswers, Settle, Inv, TypeOK
<1>2. \A f \in Passes : /\ exec'[f].state = "unborn" <=> exec[f].state = "unborn"
                        /\ exec'[f].key = exec[f].key
                        /\ Unaborted(f)' => Unaborted(f)
  BY ExecsStay DEF LinkAnswers
<1>3. CASE Stores(e, r, stream)
  <2>1. Unaborted(e) /\ exec[e].key \in Keys
    BY <1>1, <1>3 DEF LinkAnswers, Stores, Unaborted
  <2>2. store' = [k \in Keys |-> IF k = exec[e].key THEN e ELSE store[k]]
    BY <1>3 DEF LinkAnswers
  <2>3. \A k \in Keys : store'[k] = IF k = exec[e].key THEN e ELSE store[k]
    BY <2>2
  <2>4. \A f \in Passes : Unaborted(f)' => exec'[f].key # exec[e].key
    BY <1>1, <1>2, <2>1, NoKeyAssumption DEF Inv, Found, Unaborted
  <2>5. CacheTypeOK' /\ Numbered'
    BY <1>1, <2>2 DEF CacheTypeOK, Numbered, LinkCalls
  <2>6. Called'
    BY <1>1, <1>2 DEF Called
  <2>7. StoredIsBorn'
    <3> SUFFICES ASSUME NEW k \in Keys, store'[k] # NoExec
                 PROVE  exec'[store'[k]].state # "unborn"
      BY DEF StoredIsBorn
    <3>1. store'[k] \in Passes
      BY <2>5 DEF CacheTypeOK
    <3> QED BY <1>1, <1>2, <2>3, <3>1 DEF StoredIsBorn
  <2>8. LaterRuns'
    BY <1>1, <1>2, <2>3, <2>4 DEF LaterRuns
  <2>9. \A k \in Keys : store[k] # NoExec => order[store[k]] <= order[store'[k]]
    BY <1>1, <2>1, <2>3 DEF LaterRuns, CacheTypeOK
  <2> QED BY <1>1, <2>5, <2>6, <2>7, <2>8, <2>9
<1>4. CASE ~Stores(e, r, stream)
  <2>1. store' = store
    BY <1>4 DEF LinkAnswers, CacheTypeOK
  <2>2. CacheTypeOK' /\ Numbered'
    BY <1>1, <2>1 DEF CacheTypeOK, Numbered, LinkCalls
  <2>3. Called' /\ StoredIsBorn' /\ LaterRuns'
    BY <1>1, <1>2, <2>1 DEF CacheTypeOK, Called, StoredIsBorn, LaterRuns
  <2> QED BY <1>1, <2>1, <2>2, <2>3 DEF CacheTypeOK
<1> QED BY <1>3, <1>4

LEMMA CacheStep ==
  ASSUME ChainInv, CacheInv, [ChainNext]_vars
  PROVE  /\ CacheInv'
         /\ \A k \in Keys : store[k] # NoExec => order[store[k]] <= order'[store'[k]]
<1> DEFINE InOrder == \A k \in Keys :
                      store[k] # NoExec => order[store[k]] <= order'[store'[k]]
<1>1. ASSUME store' = store, answer' = answer, order' = order,
             \A e \in Passes : /\ exec'[e].state = "unborn" <=> exec[e].state = "unborn"
                               /\ exec'[e].key = exec[e].key
                               /\ Unaborted(e)' => Unaborted(e)
      PROVE  CacheInv' /\ InOrder
  <2>1. CacheTypeOK' /\ Numbered'
    BY <1>1 DEF CacheInv, CacheTypeOK, Numbered, LinkCalls
  <2>2. Called' /\ StoredIsBorn' /\ LaterRuns'
    BY <1>1 DEF CacheInv, CacheTypeOK, Called, StoredIsBorn, LaterRuns
  <2>3. InOrder
    BY <1>1 DEF CacheInv, CacheTypeOK
  <2> QED BY <2>1, <2>2, <2>3 DEF CacheInv
<1>2. ASSUME exec' = exec, store' = store, answer' = answer, order' = order
      PROVE  CacheInv' /\ InOrder
  BY <1>1, <1>2 DEF Unaborted
<1>3. ASSUME NEW q \in Passes, NEW k \in Keys \cup {NoKey}, Enter(q, k)
      PROVE  CacheInv' /\ InOrder
  <2>1. /\ CacheInv'
        /\ store' = store
        /\ \A h \in Keys : store[h] # NoExec => order'[store[h]] = order[store[h]]
    BY <1>3, EnterOrder DEF ChainInv
  <2> QED BY <2>1 DEF CacheInv, CacheTypeOK
<1>4. CASE UNCHANGED vars
  BY <1>2, <1>4 DEF vars
<1>5. ASSUME NEW c \in Callers, Begin(c) PROVE CacheInv' /\ InOrder
  <2>1. PICK k \in Keys \cup {NoKey} : Enter(<<c, 0>>, k)
    BY <1>5 DEF Begin
  <2> QED BY <1>3, <2>1, AttemptIsPass, RetriesAssumption
<1>6. ASSUME NEW c \in Callers, AfterAttempt(c) PROVE CacheInv' /\ InOrder
  BY <1>2, <1>6 DEF AfterAttempt
<1>7. ASSUME NEW c \in Callers, WaitEnds(c) PROVE CacheInv' /\ InOrder
  <2>1. CASE signal[c] = "aborted"
    BY <1>2, <1>7, <2>1 DEF WaitEnds
  <2>2. CASE signal[c] # "aborted"
    <3>1. Enter(<<c, attempt[c].n>>, attempt[c].key)
      BY <1>7, <2>2 DEF WaitEnds
    <3>2. <<c, attempt[c].n>> \in Passes /\ attempt[c].key \in Keys \cup {NoKey}
      BY AttemptIsPass DEF ChainInv, AttemptType
    <3> QED BY <1>3, <3>1, <3>2
  <2> QED BY <2>1, <2>2
<1>8. ASSUME \/ \E c \in Callers : AbortCaller(c)
             \/ \E e \in Attempts : CacheReturns(e) \/ Resume(e)
      PROVE  CacheInv' /\ InOrder
  <2>1. store' = store /\ answer' = answer /\ order' = order
    BY <1>8 DEF AbortCaller, CacheReturns, Resume
  <2>2. \/ \E c \in Callers : Abort(c)
        \/ \E e \in Passes, r \in Results : Settle(e, r)
        \/ \E e \in Passes : Finally(e) \/ React(e)
    BY <1>8, PassesAssumption DEF AbortCaller, CacheReturns, Resume, Results
  <2>3. \A e \in Passes : /\ exec'[e].state = "unborn" <=> exec[e].state = "unborn"
                          /\ exec'[e].key = exec[e].key
                          /\ Unaborted(e)' => Unaborted(e)
    BY <2>2, ExecsStay DEF ChainInv
  <2> QED BY <1>1, <2>1, <2>3
<1>9. ASSUME NEW e \in Attempts, NEW r \in Results, NEW stream \in BOOLEAN,
             LinkAnswers(e, r, stream)
      PROVE  CacheInv' /\ InOrder
  BY <1>9, AnswerOrder, PassesAssumption DEF ChainInv
<1>10. ASSUME NEW k \in Keys, Expire(k) PROVE CacheInv' /\ InOrder
  BY <1>2, <1>10 DEF Expire
<1> QED BY <1>4, <1>5, <1>6, <1>7, <1>8, <1>9, <1>10 DEF ChainNext

\* The store never goes back to the answer of an earlier link call, for any
\* number of callers, keys and retries, whenever entries expire.
THEOREM StoreInOrderTheorem == ChainSpec => StoreInOrder
<1>1. ChainInit => CacheInv
  BY CacheInitInv
<1>2. ChainInv /\ CacheInv /\ [ChainNext]_vars => CacheInv'
  BY CacheStep
<1>3. ChainInv /\ CacheInv /\ [ChainNext]_vars
        => [\A k \in Keys : store[k] # NoExec => order[store[k]] <= order'[store'[k]]]_vars
  BY CacheStep
<1> QED BY <1>1, <1>2, <1>3, ChainInvariant, PTL DEF ChainSpec, StoreInOrder
=============================================================================
