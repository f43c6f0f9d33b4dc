------------------------------- MODULE BakeFifo -------------------------------
(***************************************************************************)
(* What the background bake of server.visualize promises its callers:      *)
(* every accepted request joins one queue, requests are baked one at a     *)
(* time, in the order they were accepted, and none is baked twice.         *)
(***************************************************************************)
EXTENDS Sequences

CONSTANTS Stores,   \* the stores a bake can be asked for
          NULL      \* no bake in progress

VARIABLES pending,  \* accepted and not started, oldest first
          current   \* being baked, or NULL

vars == <<pending, current>>

Init == pending = <<>> /\ current = NULL

Accept(s) ==
  /\ pending' = Append(pending, s)
  /\ UNCHANGED current

Start ==
  /\ current = NULL /\ pending # <<>>
  /\ current' = Head(pending)
  /\ pending' = Tail(pending)

\* The bake ended, well or badly.
Finish ==
  /\ current # NULL
  /\ current' = NULL
  /\ UNCHANGED pending

Next == (\E s \in Stores : Accept(s)) \/ Start \/ Finish

Spec == Init /\ [][Next]_vars
===============================================================================
