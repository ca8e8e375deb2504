---------------------------- MODULE LevelSchedule ----------------------------
(***************************************************************************)
(* What the level grouping of a compute graph promises, with no mention of *)
(* in-degrees, vectors or sorting: the nodes of a finite graph are emitted *)
(* wave by wave, a wave being every node that is not emitted yet and whose *)
(* dependencies inside the graph all are.  The walk ends with "complete"   *)
(* when every node is emitted, and with "cyclic" when no wave is left but  *)
(* nodes are.  ComputeGraph::topologicalSort is shown to implement it in   *)
(* module TopologicalSort.                                                 *)
(***************************************************************************)
EXTENDS Integers

CONSTANT Node

VARIABLES
  nodes,     \* the nodes of the graph
  deps,      \* deps[n]: the nodes that n depends on
  emitted,   \* the nodes of the waves emitted so far
  outcome    \* "running", "complete" or "cyclic"

vars == <<nodes, deps, emitted, outcome>>

(***************************************************************************)
(* A trap is a non-empty set of nodes each of which depends on a node of   *)
(* the set.  A finite graph has a trap exactly when it has a cycle.        *)
(***************************************************************************)
IsTrap(S) ==
  /\ S # {}
  /\ S \subseteq nodes
  /\ \A n \in S : deps[n] \cap S # {}

Cyclic == \E S \in SUBSET nodes : IsTrap(S)

Wave == {n \in nodes \ emitted : deps[n] \cap nodes \subseteq emitted}

Init ==
  /\ nodes \in SUBSET Node
  /\ deps \in [nodes -> SUBSET Node]
  /\ emitted = {}
  /\ outcome = "running"

EmitWave ==
  /\ outcome = "running"
  /\ Wave # {}
  /\ emitted' = emitted \cup Wave
  /\ UNCHANGED <<nodes, deps, outcome>>

Complete ==
  /\ outcome = "running"
  /\ emitted = nodes
  /\ outcome' = "complete"
  /\ UNCHANGED <<nodes, deps, emitted>>

Reject ==
  /\ outcome = "running"
  /\ emitted # nodes
  /\ Wave = {}
  /\ outcome' = "cyclic"
  /\ UNCHANGED <<nodes, deps, emitted>>

Next == EmitWave \/ Complete \/ Reject

SafetySpec == Init /\ [][Next]_vars

Spec == SafetySpec /\ WF_vars(Next)

-----------------------------------------------------------------------------
TypeOK ==
  /\ nodes \in SUBSET Node
  /\ deps \in [nodes -> SUBSET Node]
  /\ emitted \in SUBSET nodes
  /\ outcome \in {"running", "complete", "cyclic"}

(* A trap never loses a node: no wave can contain the first of them. *)
TrapsStayOut == \A S \in SUBSET nodes : IsTrap(S) => S \cap emitted = {}

(***************************************************************************)
(* The verdict is right both ways: "cyclic" is only said of a graph with a *)
(* cycle, "complete" only of a graph without one.                          *)
(***************************************************************************)
VerdictCorrect ==
  /\ outcome = "cyclic" => Cyclic
  /\ outcome = "complete" => emitted = nodes /\ ~Cyclic

=============================================================================
