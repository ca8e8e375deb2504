------------------------------ MODULE GraphMoves ------------------------------
(***************************************************************************)
(* Several ComputeGraph objects that hand their tensors to one another by  *)
(* move construction and move assignment (include/core/graph.h,            *)
(* src/core/graph.cpp).  A graph is a record of its members.  What a sort  *)
(* does with edges is the matter of module TopologicalSort: here every     *)
(* source slot of a tensor holds a tensor outside of all graphs, so that a *)
(* search from the outputs collects just these and a sort has one level.   *)
(***************************************************************************)
EXTENDS Integers, Sequences, FiniteSets, Functions, SequencesExt, FiniteSetsExt

CONSTANTS
  Graph,      \* the graph objects
  Tensor,     \* the tensor objects
  Operators,  \* the tensors that are operators
  LayerOf,    \* Tensor::layer_id
  MaxOutputs  \* bound: outputs passed to buildFromOutputs

ASSUME GraphsAreObjects == Graph \cap {"client", "deleted", "lost"} = {}
ASSUME OutputsAreCounted == MaxOutputs \in Nat
ASSUME OperatorsAreTensors == Operators \subseteq Tensor
ASSUME LayersAreSigned == \A t \in Tensor : LayerOf[t] \in Int /\ LayerOf[t] >= -1

VARIABLES
  exists,  \* the graphs constructed and not yet destroyed
  graph,   \* the members of each graph
  heap     \* per tensor "client" (not yet handed over), "handed" or "deleted"

vars == <<exists, graph, heap>>

LayerIds == {LayerOf[t] : t \in Tensor}

(* Wrong: the largest layer of an empty graph is taken to be 0. *)
EmptyAtZero ==
  [all_tensors |-> <<>>, execution_levels |-> <<>>, execution_order |-> <<>>,
   layer_groups |-> [l \in LayerIds |-> <<>>], external_outputs |-> <<>>,
   max_layer |-> 0]

Empty ==
  [all_tensors |-> <<>>, execution_levels |-> <<>>, execution_order |-> <<>>,
   layer_groups |-> [l \in LayerIds |-> <<>>], external_outputs |-> <<>>,
   max_layer |-> -1]

Init ==
  /\ exists = {}
  /\ graph = [g \in Graph |-> Empty]
  /\ heap = [t \in Tensor |-> "client"]

-----------------------------------------------------------------------------
Owned(g) == Range(graph[g].all_tensors)

Holders(t) == {g \in exists : t \in Owned(g)}

(* A level in which std::sort may leave the tensors. *)
ByLayer(level) ==
  \A i, j \in DOMAIN level : i < j => LayerOf[level[i]] <= LayerOf[level[j]]

(* The members of S in their order in a sequence. *)
Selected(s, S) ==
  LET selected[n \in 0 .. Len(s)] ==
        IF n = 0 THEN <<>>
        ELSE IF s[n] \in S THEN Append(selected[n - 1], s[n])
        ELSE selected[n - 1]
  IN  selected[Len(s)]

ExecutionOrder(level) == Selected(level, Operators)

LayerGroups(level) ==
  [l \in LayerIds |-> Selected(level, {t \in Operators : LayerOf[t] = l})]

MaxLayer(S) == Max({-1} \cup {LayerOf[t] : t \in S})

(* The members after a sort into one level, with the outputs kept. *)
Sorted(all, outputs, level) ==
  [all_tensors      |-> all,
   execution_levels |-> IF all = <<>> THEN <<>> ELSE <<level>>,
   execution_order  |-> ExecutionOrder(level),
   layer_groups     |-> LayerGroups(level),
   external_outputs |-> outputs,
   max_layer        |-> MaxLayer(Range(all))]

SortsTo(all, outputs) ==
  {Sorted(all, outputs, level) : level \in {s \in SetToSeqs(Range(all)) : ByLayer(s)}}

(* Where a tensor stands first among the outputs. *)
First(outputs, t) ==
  CHOOSE i \in DOMAIN outputs :
    outputs[i] = t /\ \A j \in DOMAIN outputs : outputs[j] = t => i <= j

(* What a search from the outputs collects: each once, in their order. *)
Collected(outputs) ==
  {all \in SetToSeqs(Range(outputs)) :
     \A i, j \in DOMAIN all : i < j => First(outputs, all[i]) < First(outputs, all[j])}

DeleteAll(g) ==
  heap' = [t \in Tensor |-> IF t \in Owned(g) THEN "deleted" ELSE heap[t]]

Construct(g) ==
  /\ g \notin exists
  /\ exists' = exists \cup {g}
  /\ graph' = [graph EXCEPT ![g] = Empty]
  /\ UNCHANGED heap

(* Wrong: the moved-from graph keeps its maximal layer. *)
MovedFromKeepingLayer(g) == [Empty EXCEPT !.max_layer = graph[g].max_layer]

(* What a move leaves behind: the containers are empty. *)
MovedFrom(g) == Empty

(* ComputeGraph(ComputeGraph&& other) *)
MoveConstruct(g, other) ==
  /\ g \notin exists
  /\ exists' = exists \cup {g}
  /\ graph' = [graph EXCEPT ![g] = graph[other], ![other] = MovedFrom(other)]
  /\ UNCHANGED heap

(* Wrong: no test for self-assignment. *)
MoveAssignToSelf(g, other) ==
  /\ DeleteAll(g)
  /\ graph' = IF g = other THEN graph
              ELSE [graph EXCEPT ![g] = graph[other], ![other] = MovedFrom(other)]
  /\ UNCHANGED exists

(* Wrong: the two graphs swap their tensors. *)
MoveAssignSwapping(g, other) ==
  /\ graph' = [graph EXCEPT ![g] = graph[other], ![other] = graph[g]]
  /\ UNCHANGED <<exists, heap>>

(* operator=(ComputeGraph&& other) *)
MoveAssign(g, other) ==
  /\ IF g = other THEN UNCHANGED <<graph, heap>>
     ELSE /\ DeleteAll(g)
          /\ graph' = [graph EXCEPT ![g] = graph[other], ![other] = MovedFrom(other)]
  /\ UNCHANGED exists

(* The client hands a tensor over once. *)
AddTensor(g, t) ==
  /\ heap[t] = "client"
  /\ heap' = [heap EXCEPT ![t] = "handed"]
  /\ graph' = [graph EXCEPT ![g].all_tensors = Append(@, t)]
  /\ UNCHANGED exists

RebuildOrder(g) ==
  /\ \E sorted \in SortsTo(graph[g].all_tensors, graph[g].external_outputs) :
       graph' = [graph EXCEPT ![g] = sorted]
  /\ UNCHANGED <<exists, heap>>

(* clear(), then the distinct outputs are the graph's tensors. *)
BuildFromOutputs(g, outputs) ==
  /\ \A t \in Range(outputs) : heap[t] = "client"
  /\ heap' = [t \in Tensor |-> IF t \in Range(outputs) THEN "handed"
                               ELSE IF t \in Owned(g) THEN "deleted" ELSE heap[t]]
  /\ \E all \in Collected(outputs) : \E sorted \in SortsTo(all, outputs) :
       graph' = [graph EXCEPT ![g] = sorted]
  /\ UNCHANGED exists

Clear(g) ==
  /\ DeleteAll(g)
  /\ graph' = [graph EXCEPT ![g] = Empty]
  /\ UNCHANGED exists

Destroy(g) ==
  /\ DeleteAll(g)
  /\ exists' = exists \ {g}
  /\ graph' = [graph EXCEPT ![g] = Empty]

Outputs == UNION {[1 .. n -> Tensor] : n \in 0 .. MaxOutputs}

Next ==
  \/ \E g \in Graph : Construct(g)
  \/ \E g \in Graph, other \in exists : MoveConstruct(g, other)
  \/ \E g, other \in exists : MoveAssign(g, other)
  \/ \E g \in exists, t \in Tensor : AddTensor(g, t)
  \/ \E g \in exists : \E outputs \in Outputs : BuildFromOutputs(g, outputs)
  \/ \E g \in exists : RebuildOrder(g)
  \/ \E g \in exists : Clear(g)
  \/ \E g \in exists : Destroy(g)

Spec == Init /\ [][Next]_vars

-----------------------------------------------------------------------------
Members ==
  [all_tensors : Seq(Tensor), execution_levels : Seq(Seq(Tensor)),
   execution_order : Seq(Tensor), layer_groups : [LayerIds -> Seq(Tensor)],
   external_outputs : Seq(Tensor), max_layer : LayerIds \cup {-1}]

TypeOK ==
  /\ exists \subseteq Graph
  /\ graph \in [Graph -> Members]
  /\ heap \in [Tensor -> {"client", "handed", "deleted"}]

(* The tensors that the getters of a graph hand out, except its outputs. *)
Scheduled(g) ==
  (UNION {Range(l) : l \in Range(graph[g].execution_levels)})
    \cup Range(graph[g].execution_order)
    \cup (UNION {Range(graph[g].layer_groups[l]) : l \in LayerIds})

(***************************************************************************)
(* However graphs are moved into one another, built, cleared and           *)
(* destroyed, a tensor that was handed over has one owner that will delete *)
(* it, or has been deleted: none leaks, and none is deleted twice.         *)
(***************************************************************************)
OneOwnerUntilDeleted ==
  /\ \A g \in exists : IsInjective(graph[g].all_tensors)
  /\ \A t \in Tensor :
       IF heap[t] = "handed" THEN \E g \in exists : Holders(t) = {g}
       ELSE Holders(t) = {}

(***************************************************************************)
(* The members of a graph travel together: what a graph schedules and what *)
(* it was built for it owns itself, and max_layer speaks of these tensors, *)
(* also in a graph that was moved from.                                    *)
(***************************************************************************)
MembersTravelTogether ==
  \A g \in exists :
    /\ Scheduled(g) \cup Range(graph[g].external_outputs) \subseteq Owned(g)
    /\ graph[g].max_layer =
         MaxLayer(UNION {Range(l) : l \in Range(graph[g].execution_levels)})

(* The promised owner; a handed tensor that is not owned once is lost. *)
OwnerOf(t) ==
  IF heap[t] # "handed" THEN heap[t]
  ELSE IF \E g \in exists : Holders(t) = {g}
       THEN CHOOSE g \in exists : Holders(t) = {g}
       ELSE "lost"

Promised == INSTANCE Ownership WITH owner <- [t \in Tensor |-> OwnerOf(t)]

(***************************************************************************)
(* The graphs keep the promise of module Ownership: tensors change hands   *)
(* only from the client to a graph and all together from a graph to        *)
(* another, and are deleted exactly when their owner is cleared, built     *)
(* anew, destroyed or assigned to, neither earlier (a self-assignment) nor *)
(* later (a target whose old tensors live on in the source of the move).   *)
(***************************************************************************)
ImplementsOwnership == Promised!Spec

=============================================================================
