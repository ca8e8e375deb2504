------------------------------ MODULE Ownership ------------------------------
(***************************************************************************)
(* What compute graphs promise about the tensors handed to them            *)
(* (include/core/graph.h): a tensor belongs to the client until it is      *)
(* handed over, then to one graph at a time, and passes to another graph   *)
(* only with everything its owner has.  What a graph gives up otherwise is *)
(* deleted in the same step, for good.                                     *)
(***************************************************************************)
CONSTANTS
  Graph,   \* the graph objects
  Tensor   \* the tensor objects

VARIABLE owner   \* per tensor "client", a graph or "deleted"

Init == owner = [t \in Tensor |-> "client"]

(* S becomes what g owns; whatever it owned before is deleted. *)
GiveUpFor(g, S) ==
  owner' = [t \in Tensor |-> IF t \in S THEN g
                             ELSE IF owner[t] = g THEN "deleted" ELSE owner[t]]

(* The client hands one more tensor to g. *)
HandOver(g, t) ==
  /\ owner[t] = "client"
  /\ owner' = [owner EXCEPT ![t] = g]

(* g starts anew with tensors of the client, or with none. *)
Restart(g, S) ==
  /\ \A t \in S : owner[t] = "client"
  /\ GiveUpFor(g, S)

(* g takes over all that another graph owns. *)
TakeOver(g, other) ==
  /\ g # other
  /\ GiveUpFor(g, {t \in Tensor : owner[t] = other})

Next ==
  \/ \E g \in Graph, t \in Tensor : HandOver(g, t)
  \/ \E g \in Graph, S \in SUBSET Tensor : Restart(g, S)
  \/ \E g, other \in Graph : TakeOver(g, other)

Spec == Init /\ [][Next]_owner

=============================================================================
