----------------------------- MODULE Subscriber -----------------------------
(***************************************************************************)
(* createSubscriber and createLiveSubscriber (swr/src/subscriber.ts) under *)
(* useSWRSubscription: subscriptions to one key, one after the other, and  *)
(* the cache entry that all of them write.  Unsubscribing only aborts the  *)
(* call, so the iteration of an earlier subscription may still be going    *)
(* while a later one runs: a stream in the same process need not look at   *)
(* its signal, and a call may resolve although it was aborted.             *)
(***************************************************************************)
EXTENDS Naturals, Sequences, SequencesExt

CONSTANTS MaxChunks,   \* the option of that name
          MaxSubs,     \* bounds of the model: subscriptions and
          MaxEvents    \* events of each

ASSUME SubscriberAssumption == MaxChunks \in Nat

VARIABLES entry,  \* the data of the key and the subscription whose error it has
          subs    \* the subscriptions, in order

subscriberVars == <<entry, subs>>

Modes == {"append", "reset", "replace", "live"}
NoData == [has |-> FALSE, data |-> <<>>, error |-> 0]

\* taken: the events so far; direct: updateDuringStream; alone: what the entry
\* held when it began, if no iteration of an earlier one was still going.
SubscriberTypeOK ==
  /\ entry.has \in BOOLEAN /\ entry.error \in 0 .. MaxSubs
  /\ \A i \in DOMAIN subs :
       /\ subs[i].mode \in Modes /\ subs[i].taken \in 0 .. MaxEvents
       /\ subs[i].phase \in {"calling", "streaming", "ended", "failed"}
       /\ {subs[i].aborted, subs[i].direct, subs[i].alone} \subseteq BOOLEAN

SubscriberInit == entry = NoData /\ subs = <<>>

\* next(undefined, data) of useSWRSubscription: clears the error, too.
Put(data) == entry' = [has |-> TRUE, data |-> data, error |-> 0]
Clear == entry' = NoData

\* Mutant of Cap: the oldest are kept.
CapOldest(items) == SubSeq(items, 1, IF Len(items) <= MaxChunks THEN Len(items) ELSE MaxChunks)

Cap(items) ==
  IF Len(items) <= MaxChunks THEN items
  ELSE SubSeq(items, Len(items) - MaxChunks + 1, Len(items))

Running(i) == subs[i].phase \in {"calling", "streaming"}

\* The hook subscribes again only after it unsubscribed; a key is used with
\* .subscriber or with .liveSubscriber, not with both.
Subscribe ==
  /\ Len(subs) < MaxSubs /\ \A i \in DOMAIN subs : subs[i].aborted
  /\ \E mode \in Modes :
       /\ \A i \in DOMAIN subs : (subs[i].mode = "live") = (mode = "live")
       /\ subs' = Append(subs, [mode |-> mode, phase |-> "calling", aborted |-> FALSE,
                                direct |-> TRUE, buffer |-> <<>>, taken |-> 0,
                                before |-> entry.data,
                                alone |-> \A i \in DOMAIN subs : ~Running(i)])
  /\ UNCHANGED entry

Unsubscribe(i) ==
  /\ ~subs[i].aborted
  /\ subs' = [subs EXCEPT ![i].aborted = TRUE] /\ UNCHANGED entry

\* The call resolves to an iterable.
Resolves(i) ==
  /\ subs[i].phase = "calling"
  /\ LET mode == subs[i].mode
     IN  /\ subs' = [subs EXCEPT ![i].phase = "streaming",
                                 ![i].direct = mode # "replace" \/ ~entry.has]
         /\ CASE mode = "reset" -> Clear
              [] mode = "replace" -> entry' = [entry EXCEPT !.error = 0]
              [] OTHER -> UNCHANGED entry

\* The call or the iteration fails, or the output is no iterable.
Fails(i) ==
  /\ Running(i)
  /\ subs' = [subs EXCEPT ![i].phase = "failed"]
  /\ entry' = IF subs[i].aborted THEN entry ELSE [entry EXCEPT !.error = i]

Received(i) ==
  /\ subs[i].phase = "streaming" /\ subs[i].taken < MaxEvents
  /\ LET event == <<i, subs[i].taken + 1>>
         sub == [subs[i] EXCEPT !.taken = @ + 1]
     IN  IF sub.mode = "live"
         THEN Put(<<event>>) /\ subs' = [subs EXCEPT ![i] = sub]
         ELSE IF sub.direct
         THEN Put(Cap(Append(entry.data, event))) /\ subs' = [subs EXCEPT ![i] = sub]
         ELSE /\ subs' = [subs EXCEPT ![i] =
                            [sub EXCEPT !.buffer = Cap(Append(@, event))]]
              /\ UNCHANGED entry

Ends(i) ==
  /\ subs[i].phase = "streaming"
  /\ subs' = [subs EXCEPT ![i].phase = "ended"]
  /\ IF subs[i].direct THEN UNCHANGED entry ELSE Put(subs[i].buffer)

SubscriberNext ==
  \/ Subscribe
  \/ \E i \in DOMAIN subs :
       Unsubscribe(i) \/ Resolves(i) \/ Fails(i) \/ Received(i) \/ Ends(i)

SubscriberSpec == SubscriberInit /\ [][SubscriberNext]_subscriberVars

-----------------------------------------------------------------------------
Events(i) == [n \in 1 .. subs[i].taken |-> <<i, n>>]

\* What the entry holds when i has run with nobody else.
Expected(i) ==
  CASE subs[i].mode = "live" -> IF subs[i].taken = 0 THEN subs[i].before
                                ELSE <<Last(Events(i))>>
    [] subs[i].mode = "append" -> IF subs[i].taken = 0 THEN subs[i].before
                                  ELSE Cap(subs[i].before \o Events(i))
    [] OTHER -> Cap(Events(i))

\* The events of i in s are the latest of those it took, in order, each once.
LatestOf(s, i, taken) ==
  /\ \A p \in DOMAIN s : s[p][1] = i =>
       /\ s[p][2] \in 1 .. taken
       /\ \A n \in s[p][2] + 1 .. taken : \E q \in p + 1 .. Len(s) : s[q] = <<i, n>>
  /\ \A p, q \in DOMAIN s : p < q /\ s[p][1] = i /\ s[q][1] = i => s[p][2] < s[q][2]

\* The data of a key are, of every subscription, some of its latest events in
\* order, each once, whichever iterations still go on; if none of an earlier one
\* does, they are exactly what the mode of the subscription says when its stream
\* ends; and an error in the entry is that of a subscription that failed.
SubscriptionData ==
  \A i \in DOMAIN subs :
    /\ LatestOf(entry.data, i, subs[i].taken)
    /\ i = Len(subs) /\ subs[i].alone /\ subs[i].phase = "ended" =>
         entry.data = Expected(i)
    /\ entry.error = i => subs[i].phase = "failed"
=============================================================================
