---------------------------- MODULE CallService ----------------------------
(***************************************************************************)
(* What the server side of a connection promises its peer, call by call    *)
(* and without drains, pauses, hooks, iterators or timers: an id is owned  *)
(* by the call that its call frame began until that call is answered, is   *)
(* cancelled or loses its connection, and only the owner of an id is heard *)
(* under it, as one result, or as items and then one done, or as an error  *)
(* in place of the rest.                                                   *)
(***************************************************************************)
EXTENDS Sequences

CONSTANTS Ids, Calls, NoCall

VARIABLES open,    \* the connection is open
          owner,   \* the call an id stands for, or NoCall
          used,    \* the calls that have begun
          out      \* the frames each call has answered with

vars == <<open, owner, used, out>>

Init ==
  /\ open = TRUE
  /\ owner = [id \in Ids |-> NoCall]
  /\ used = {}
  /\ out = [c \in Calls |-> <<>>]

Begin(id, c) ==
  /\ open
  /\ owner[id] = NoCall
  /\ c \notin used
  /\ owner' = [owner EXCEPT ![id] = c]
  /\ used' = used \cup {c}
  /\ UNCHANGED <<open, out>>

Says(id, kind) ==
  /\ owner[id] # NoCall
  /\ out' = [out EXCEPT ![owner[id]] = Append(@, kind)]
  /\ UNCHANGED <<open, used>>

Item(id) == Says(id, "item") /\ UNCHANGED owner

\* The answer frees the id with the frame that gives it; a result has no items
\* before it.
Answer(id, kind) ==
  /\ Says(id, kind)
  /\ kind = "result" => out[owner[id]] = <<>>
  /\ owner' = [owner EXCEPT ![id] = NoCall]

Cancel(id) ==
  /\ owner' = [owner EXCEPT ![id] = NoCall]
  /\ UNCHANGED <<open, used, out>>

Disconnect ==
  /\ open' = FALSE
  /\ owner' = [id \in Ids |-> NoCall]
  /\ UNCHANGED <<used, out>>

Next ==
  \/ \E id \in Ids :
       \/ \E c \in Calls : Begin(id, c)
       \/ Item(id) \/ Cancel(id)
       \/ \E kind \in {"result", "done", "error"} : Answer(id, kind)
  \/ Disconnect

Spec == Init /\ [][Next]_vars
=============================================================================
