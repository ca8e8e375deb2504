-------------------------- MODULE MCTopologicalSort --------------------------
(* Instances of TopologicalSort for TLC.  Tensors are interchangeable, so   *)
(* that one list of each length stands for all lists of distinct tensors.  *)
EXTENDS TopologicalSort, TLC

CONSTANTS t1, t2, t3, t4

Two  == {t1, t2}
Four == {t1, t2, t3, t4}

Add    == <<"ADD", "ACTIVATION">>
Memcpy == <<"MEMCPY", "WEIGHT">>

NoKinds    == {Add}
SomeKinds  == {Add, Memcpy}
NoLayers   == {0}
SomeLayers == {-1, 0, 1}

Unlayered == {[t \in Tensor |-> 0]}
Operators == {[t \in Tensor |-> Add]}

Three == <<t1, t2, t3>>

(* The topologies in which t reads what reads[t] says, slot by slot.  *)
Reading(reads) == {s \in [Tensor -> UNION {reads[t] : t \in Tensor}] : \A t \in Tensor : s[t] \in reads[t]}

(* Nothing, one source in slot 0, two sources. *)
Nothing    == {[i \in Slot |-> NULL]}
OneOf(S)   == {[i \in Slot |-> IF i = 0 THEN s ELSE NULL] : s \in S \cup {NULL}}
TwoOf(S)   == [Slot -> S \cup {NULL}]

(* Up to three tensors with two sources each, some of them outside. *)
SmallGraphs ==
  {SubSeq(Three, 1, n) : n \in 0 .. 3}
    \X Reading([t \in Tensor |-> IF t = t4 THEN Nothing ELSE TwoOf(Range(Three))])
    \X Unlayered \X Operators

(* Three tensors in a chain of mixed layers and kinds. *)
LayeredGraphs ==
  {Three} \X Reading([t \in Tensor |-> IF t = t4 THEN Nothing ELSE OneOf(Range(Three))])
    \X {l \in [Tensor -> LayerIds] : l[t4] = 0} \X {k \in [Tensor -> Kinds] : k[t4] = Add}

(* Four tensors of which one has two sources: diamonds. *)
DiamondGraphs ==
  {Append(Three, t4)}
    \X Reading([t \in Tensor |-> IF t = t4 THEN TwoOf(Tensor) ELSE OneOf(Tensor)])
    \X Unlayered \X Operators

AllGraphs == SmallGraphs \cup LayeredGraphs \cup DiamondGraphs

(* Every list of at most three entries of two tensors. *)
RepetitiveGraphs ==
  (UNION {[1 .. n -> Tensor] : n \in 0 .. Cardinality(Tensor) + 1})
    \X [Tensor -> [Slot -> Tensor \cup {NULL}]] \X Unlayered \X Operators
=============================================================================
