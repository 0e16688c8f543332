----------------------------- MODULE DuplexPipe -----------------------------
(***************************************************************************)
(* What message/src/duplex.ts promises of one direction of a Duplex: texts *)
(* arrive in the order they were taken, nothing is taken by a closed pipe, *)
(* nothing arrives after the receiving end was told of the close, and a    *)
(* sender that waits for the pipe to drain is released by the close.       *)
(***************************************************************************)
EXTENDS Naturals, Sequences

VARIABLES taken,     \* how many texts send() took; they are numbered from 1
          arrived,   \* the texts that left the pipe, in the order they did
          parked,    \* senders holding a drain promise that has not settled
          open,      \* close() has not run
          told       \* onClose was called

pipe == <<taken, arrived, parked, open, told>>

First(n) == [i \in 1 .. n |-> i]

PipeInit ==
  /\ taken = 0 /\ arrived = <<>> /\ parked = 0
  /\ open \in BOOLEAN /\ told = FALSE

Passes == \E n \in Len(arrived) .. taken' : arrived' = First(n)

Send ==
  /\ open
  /\ taken' = taken + 1
  /\ Passes
  /\ parked' \in {parked, parked + 1}
  /\ UNCHANGED <<open, told>>

Deliver ==
  /\ ~told
  /\ Passes
  /\ parked' \in {parked, 0}
  /\ UNCHANGED <<taken, open, told>>

Close ==
  /\ open /\ ~open'
  /\ ~told' => parked' = parked
  /\ told' => parked' = 0
  /\ UNCHANGED <<taken, arrived>>

Tell ==
  /\ ~open /\ ~told /\ told'
  /\ parked' = 0
  /\ UNCHANGED <<taken, arrived, open>>

PipeNext == Send \/ Deliver \/ Close \/ Tell

PipeSafety == PipeInit /\ [][PipeNext]_pipe

\* Whoever closes, both ends hear of it.
PipeSpec == PipeSafety /\ (~open ~> told)
=============================================================================
