----------------------------- MODULE DrainWaiter ----------------------------
(***************************************************************************)
(* DrainWaiter (message/src/backpressure.ts): the waits one call performs  *)
(* between two of its frames while the duplex is above its mark.  Waits    *)
(* are numbered in the order they are started; the caller starts one at a  *)
(* time.  Each wait can be settled by its drain promise, by its own timer  *)
(* or by cancel(), and a settle that comes late must not touch the wait    *)
(* that is pending by then.                                                *)
(***************************************************************************)
EXTENDS Naturals

CONSTANTS HasDrainTimeout,   \* drainTimeout > 0
          MaxWaits      \* bound of the model: waits of one call

ASSUME HasDrainTimeoutAssumption == HasDrainTimeout \in BOOLEAN
ASSUME MaxWaitsAssumption == MaxWaits \in Nat

VARIABLES pending,   \* this.pending: the wait whose settle is stored; 0 for none
          started,   \* history: waits started
          stalled,   \* this.stalled: onStall('paused') was delivered
          stalls,    \* history: how many times it was delivered
          timers,    \* waits whose setTimeout is armed
          drains,    \* waits whose drain promise has not settled
          settled    \* what the promise of each wait resolved to

waitVars == <<pending, started, stalled, stalls, timers, drains, settled>>

Waits == 1 .. MaxWaits
Settlements == {"none", "drained", "timeout", "cancelled"}

WaitTypeOK ==
  /\ pending \in 0 .. MaxWaits
  /\ started \in 0 .. MaxWaits
  /\ stalled \in BOOLEAN
  /\ stalls \in Nat
  /\ timers \subseteq Waits
  /\ drains \subseteq Waits
  /\ settled \in [Waits -> Settlements]

WaitInit ==
  /\ pending = 0
  /\ started = 0
  /\ stalled = FALSE
  /\ stalls = 0
  /\ timers = {}
  /\ drains = {}
  /\ settled = [n \in Waits |-> "none"]

\* Mutant of Wait: only the first wait arms its timer.
WaitArmsOnce ==
  /\ pending = 0
  /\ started < MaxWaits
  /\ started' = started + 1
  /\ pending' = started + 1
  /\ timers' = IF HasDrainTimeout /\ ~stalled THEN timers \cup {started + 1} ELSE timers
  /\ drains' = drains \cup {started + 1}
  /\ stalls' = IF stalled THEN stalls ELSE stalls + 1
  /\ stalled' = TRUE
  /\ UNCHANGED settled

\* wait(drained): a second concurrent wait throws, so callers never start one.
Wait ==
  /\ pending = 0
  /\ started < MaxWaits
  /\ started' = started + 1
  /\ pending' = started + 1
  /\ timers' = IF HasDrainTimeout THEN timers \cup {started + 1} ELSE timers
  /\ drains' = drains \cup {started + 1}
  /\ stalls' = IF stalled THEN stalls ELSE stalls + 1
  /\ stalled' = TRUE
  /\ UNCHANGED settled

\* Mutant of Settle: any pending wait is settled.
SettleAnyWait(n, result, armed) ==
  /\ pending' = 0
  /\ timers' = armed \ {pending}
  /\ settled' = IF pending = 0 THEN settled ELSE [settled EXCEPT ![pending] = result]

\* settle(result) of wait n, with the timers left by the callback that runs it.
Settle(n, result, armed) ==
  IF pending # n THEN timers' = armed /\ UNCHANGED <<pending, settled>>
  ELSE /\ pending' = 0
       /\ timers' = armed \ {n}
       /\ settled' = [settled EXCEPT ![n] = IF @ = "none" THEN result ELSE @]

TimerFires(n) ==
  /\ n \in timers
  /\ Settle(n, "timeout", timers \ {n})
  /\ UNCHANGED <<started, stalled, stalls, drains>>

\* The duplex's promise settles, before or long after the wait was settled.
DrainFires(n) ==
  /\ n \in drains
  /\ drains' = drains \ {n}
  /\ Settle(n, "drained", timers)
  /\ UNCHANGED <<started, stalled, stalls>>

\* cancel(): a cancel frame, an abort or a close, at any time.
Cancel ==
  /\ pending # 0
  /\ Settle(pending, "cancelled", timers)
  /\ UNCHANGED <<started, stalled, stalls, drains>>

WaitNext == Wait \/ Cancel \/ \E n \in Waits : TimerFires(n) \/ DrainFires(n)

WaitSpec == WaitInit /\ [][WaitNext]_waitVars

\* An armed timer fires; nothing obliges the peer to drain.
WaitFairSpec == WaitSpec /\ \A n \in Waits : WF_waitVars(TimerFires(n))

-----------------------------------------------------------------------------
\* 'drained' is answered only for the wait's own drain promise.
DrainedIsOwn == \A n \in Waits : settled[n] = "drained" => n \notin drains

\* With a drain timeout no call is held for ever by a peer that stops reading.
WaitEnds == HasDrainTimeout => (pending # 0 ~> pending = 0)
=============================================================================
