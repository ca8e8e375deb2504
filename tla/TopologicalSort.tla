--------------------------- MODULE TopologicalSort ---------------------------
(***************************************************************************)
(* ComputeGraph::topologicalSort (src/src/core/graph.cpp) at the grain of  *)
(* its loops.  all_tensors is the vector the graph owns, in order and with *)
(* whatever repetitions its callers put there; a tensor points at its      *)
(* sources through TENSOR_MAX_SRC slots, any of which may be null or point *)
(* at a tensor outside all_tensors.  One step counts the edges and clears  *)
(* the members, one collects and sorts a level, one retires one tensor of  *)
(* the level, one stores the level, one leaves the loop and returns or     *)
(* throws.                                                                 *)
(***************************************************************************)
EXTENDS Integers, Sequences, FiniteSets, Functions

CONSTANTS
  Tensor,          \* the tensor objects (their addresses)
  NULL,            \* the null pointer
  TENSOR_MAX_SRC,  \* number of source slots of a tensor
  LayerIds,        \* the layer ids in use
  Kinds,           \* the <<op_type, type>> pairs in use
  Graphs           \* the inputs to consider: all_tensors, src, layer_id, kind

Slot == 0 .. TENSOR_MAX_SRC - 1

ASSUME NullIsNoTensor == NULL \notin Tensor
ASSUME MaxSrcIsNat == TENSOR_MAX_SRC \in Nat
ASSUME LayerIdsAreInts == LayerIds \subseteq Int
ASSUME GraphsAreInputs ==
  Graphs \subseteq Seq(Tensor) \X [Tensor -> [Slot -> Tensor \cup {NULL}]]
                     \X [Tensor -> LayerIds] \X [Tensor -> Kinds]

VARIABLES
  all_tensors,       \* sequence of tensors
  src,               \* src[t][i]: source slot i of t
  layer_id,          \* Tensor::layer_id
  kind,              \* <<Tensor::op_type, Tensor::type>>
  in_degree,         \* unresolved incoming edges; -1 when processed
  level,             \* the level being built
  cursor,            \* next position of level to retire
  count,             \* tensors retired
  phase,             \* "entry", "collect", "retire", "done" or "thrown"
  execution_levels, execution_order, layer_groups, max_layer

inputs  == <<all_tensors, src, layer_id, kind>>
locals  == <<in_degree, level, cursor, count, phase>>
results == <<execution_levels, execution_order, layer_groups, max_layer>>
vars    == <<inputs, locals, results>>

-----------------------------------------------------------------------------
InGraph == Range(all_tensors)

(* Tensor::isOperator *)
IsOperator(t) ==
  /\ kind[t][1] # "NONE"
  /\ kind[t][2] \notin {"WEIGHT", "INPUT"}

(* Wrong: the loop over the slots stops one short. *)
IncomingButLastSlot(t) ==
  {e \in (DOMAIN all_tensors) \X (0 .. TENSOR_MAX_SRC - 2) :
     all_tensors[e[1]] = t /\ src[t][e[2]] \in InGraph}

(* The edges into t: the pairs of an occurrence of t in all_tensors and a  *)
(* slot whose source is in the graph.                                      *)
Incoming(t) ==
  {e \in (DOMAIN all_tensors) \X Slot :
     all_tensors[e[1]] = t /\ src[t][e[2]] \in InGraph}

(* Wrong: a map in place of the multimap keeps one entry of a pair. *)
ForwardAsMap(s, t) ==
  LET entries == {e \in Incoming(t) : src[t][e[2]] = s}
  IN  {e \in entries : \A o \in entries : e[1] <= o[1] /\ e[2] <= o[2]}

(* The entries of the multimap forward from s to t. *)
Forward(s, t) == {e \in Incoming(t) : src[t][e[2]] = s}

(* Wrong: a counter is created for every tensor, in the graph or not. *)
InDegreesOfAll == [t \in Tensor |-> Cardinality(Incoming(t))]

(* in_degree as lines 17 to 27 fill it. *)
InDegrees == [t \in InGraph |-> Cardinality(Incoming(t))]

(* Wrong: only the first tensor without unresolved edges is taken. *)
ReadyFirstOnly ==
  {p \in DOMAIN all_tensors :
     /\ in_degree[all_tensors[p]] = 0
     /\ \A o \in 1 .. p - 1 : in_degree[all_tensors[o]] # 0}

(* The positions of the tensors lines 40 to 44 collect. *)
Ready == {p \in DOMAIN all_tensors : in_degree[all_tensors[p]] = 0}

(* std::sort orders by layer_id and leaves the order of equal elements     *)
(* unspecified: any of these orders of the positions P may come out.       *)
Sorted(P) ==
  {q \in Bijection(1 .. Cardinality(P), P) :
     \A i, j \in 1 .. Cardinality(P) :
       i < j => layer_id[all_tensors[q[i]]] <= layer_id[all_tensors[q[j]]]}

(* k decrements of a counter that stops falling once it is negative. *)
Decremented(d, k) == IF d < 0 THEN d ELSE IF k > d THEN -1 ELSE d - k

(* Wrong: only operators raise the largest layer. *)
HighestOperatorLayer(t) ==
  IF IsOperator(t) /\ layer_id[t] > max_layer THEN layer_id[t] ELSE max_layer

HighestLayer(t) == IF layer_id[t] > max_layer THEN layer_id[t] ELSE max_layer

-----------------------------------------------------------------------------
(* The sort of a graph no sort has run on. *)
Init ==
  /\ \E g \in Graphs :
       all_tensors = g[1] /\ src = g[2] /\ layer_id = g[3] /\ kind = g[4]
  /\ in_degree = <<>>
  /\ level = <<>>
  /\ cursor = 1
  /\ count = 0
  /\ phase = "entry"
  /\ execution_levels = <<>>
  /\ execution_order = <<>>
  /\ layer_groups = [l \in LayerIds |-> <<>>]
  /\ max_layer = -1

BeginSort ==
  /\ phase = "entry"
  /\ in_degree' = InDegrees
  /\ level' = <<>>
  /\ cursor' = 1
  /\ count' = 0
  /\ phase' = "collect"
  /\ execution_levels' = <<>>
  /\ execution_order' = <<>>
  /\ layer_groups' = [l \in LayerIds |-> <<>>]
  /\ max_layer' = -1
  /\ UNCHANGED inputs

CollectLevel ==
  /\ phase = "collect"
  /\ count < Len(all_tensors)
  /\ Ready # {}
  /\ \E q \in Sorted(Ready) : level' = [n \in DOMAIN q |-> all_tensors[q[n]]]
  /\ cursor' = 1
  /\ phase' = "retire"
  /\ UNCHANGED <<inputs, in_degree, count, results>>

RetireTensor ==
  /\ phase = "retire"
  /\ cursor <= Len(level)
  /\ LET t == level[cursor]
     IN  /\ in_degree' =
              [u \in InGraph |->
                 IF u = t THEN -1
                 ELSE Decremented(in_degree[u], Cardinality(Forward(t, u)))]
         /\ IF IsOperator(t)
            THEN /\ execution_order' = Append(execution_order, t)
                 /\ layer_groups' =
                      [layer_groups EXCEPT ![layer_id[t]] = Append(@, t)]
            ELSE UNCHANGED <<execution_order, layer_groups>>
         /\ max_layer' = HighestLayer(t)
  /\ count' = count + 1
  /\ cursor' = cursor + 1
  /\ UNCHANGED <<inputs, level, phase, execution_levels>>

StoreLevel ==
  /\ phase = "retire"
  /\ cursor > Len(level)
  /\ execution_levels' = Append(execution_levels, level)
  /\ level' = <<>>
  /\ phase' = "collect"
  /\ UNCHANGED <<inputs, in_degree, cursor, count,
                 execution_order, layer_groups, max_layer>>

(* Wrong: the counter is not compared with the size. *)
LeaveLoopUnchecked ==
  /\ phase = "collect"
  /\ count >= Len(all_tensors) \/ Ready = {}
  /\ phase' = "done"
  /\ UNCHANGED <<inputs, in_degree, level, cursor, count, results>>

(* Wrong: an empty level does not end the loop. *)
LeaveLoopWithoutBreak ==
  /\ phase = "collect"
  /\ count >= Len(all_tensors)
  /\ phase' = IF count # Len(all_tensors) THEN "thrown" ELSE "done"
  /\ UNCHANGED <<inputs, in_degree, level, cursor, count, results>>

(* The loop ends at its condition or at its break; lines 76 to 78 follow.  *)
LeaveLoop ==
  /\ phase = "collect"
  /\ count >= Len(all_tensors) \/ Ready = {}
  /\ phase' = IF count # Len(all_tensors) THEN "thrown" ELSE "done"
  /\ UNCHANGED <<inputs, in_degree, level, cursor, count, results>>

SortStep == BeginSort \/ CollectLevel \/ RetireTensor \/ StoreLevel \/ LeaveLoop

Next == SortStep

SafetySpec == Init /\ [][Next]_vars

(* The call runs on one thread and no step waits for anything: weak        *)
(* fairness of the next step is the progress of that thread.               *)
Spec == SafetySpec /\ WF_vars(Next)

-----------------------------------------------------------------------------
(* The sources of t that the graph holds. *)
Sources(t) == {src[t][i] : i \in Slot} \cap InGraph

(* u is computed, directly or through other tensors, from t. *)
DependsOn(u, t) ==
  \A S \in SUBSET InGraph :
    Sources(u) \subseteq S /\ (\A n \in S : Sources(n) \subseteq S) => t \in S

Stored == UNION {Range(execution_levels[k]) : k \in DOMAIN execution_levels}

(* The level walk this sort implements. *)
Schedule == INSTANCE LevelSchedule
  WITH Node    <- Tensor,
       nodes   <- InGraph,
       deps    <- [t \in InGraph |-> Sources(t)],
       emitted <- Stored,
       outcome <- CASE phase = "done"   -> "complete"
                    [] phase = "thrown" -> "cyclic"
                    [] OTHER            -> "running"

TypeOK ==
  /\ all_tensors \in Seq(Tensor)
  /\ src \in [Tensor -> [Slot -> Tensor \cup {NULL}]]
  /\ layer_id \in [Tensor -> LayerIds]
  /\ kind \in [Tensor -> Kinds]
  /\ phase # "entry" => in_degree \in [InGraph -> Int]
  /\ level \in Seq(InGraph)
  /\ cursor \in Nat \ {0}
  /\ count \in Nat
  /\ phase \in {"entry", "collect", "retire", "done", "thrown"}
  /\ execution_levels \in Seq(Seq(InGraph))
  /\ execution_order \in Seq(InGraph)
  /\ layer_groups \in [LayerIds -> Seq(InGraph)]
  /\ max_layer \in LayerIds \cup {-1}

(***************************************************************************)
(* "Group by dependency level, nodes in the same layer can be parallel"    *)
(* (include/core/graph.h:15): whatever a tensor of a stored level reads    *)
(* was computed in a strictly earlier level.                               *)
(***************************************************************************)
SourcesInEarlierLevels ==
  \A k \in DOMAIN execution_levels :
    \A t \in Range(execution_levels[k]) : \A s \in Sources(t) :
      /\ \E j \in 1 .. k - 1 : s \in Range(execution_levels[j])
      /\ s \notin Range(execution_levels[k])

(***************************************************************************)
(* execution_order may be run front to back: an operator never precedes    *)
(* one it depends on, not even when the chain between the two runs through *)
(* tensors that are no operators and so do not appear in the order.        *)
(***************************************************************************)
OrderRespectsDependencies ==
  \A i, j \in DOMAIN execution_order :
    DependsOn(execution_order[j], execution_order[i]) => i < j

(***************************************************************************)
(* A sort that returns leaves no tensor out and runs none twice: every     *)
(* tensor of the graph is in the levels exactly once and every operator in *)
(* execution_order exactly once, and the counter of lines 65 and 76 agrees.*)
(***************************************************************************)
ReturnsCompleteSchedule ==
  phase = "done" =>
    /\ count = Cardinality(InGraph)
    /\ \A t \in InGraph :
         Cardinality({kn \in (DOMAIN execution_levels) \X (1 .. count) :
            kn[2] \in DOMAIN execution_levels[kn[1]]
              /\ execution_levels[kn[1]][kn[2]] = t}) = 1
    /\ \A t \in InGraph :
         Cardinality({n \in DOMAIN execution_order : execution_order[n] = t})
           = IF IsOperator(t) THEN 1 ELSE 0

(***************************************************************************)
(* The levels are as few as they can be: a tensor waits for a level only   *)
(* because one of its sources is in the level just before.                 *)
(***************************************************************************)
LevelsTight ==
  \A k \in DOMAIN execution_levels \ {1} :
    \A t \in Range(execution_levels[k]) :
      Sources(t) \cap Range(execution_levels[k - 1]) # {}

(***************************************************************************)
(* "ComputeGraph: cycle detected" (graph.cpp:77) is thrown for a graph     *)
(* with a cycle and for no other.                                          *)
(***************************************************************************)
CycleVerdictExact == Schedule!VerdictCorrect

(***************************************************************************)
(* A sort that throws has gone as far as the graph allows: its levels hold *)
(* exactly the tensors that neither are on a cycle nor depend on one.      *)
(***************************************************************************)
ThrowKeepsAcyclicPart ==
  phase = "thrown" =>
    Stored = {t \in InGraph :
                \A S \in SUBSET InGraph :
                  Schedule!IsTrap(S) => t \notin S /\ \A s \in S : ~DependsOn(t, s)}

(* "ComputeGraph: cycle detected" (graph.cpp:77) is said of cyclic graphs. *)
CycleDetectedMeansCycle == phase = "thrown" => Schedule!Cyclic

(***************************************************************************)
(* layer_groups is execution_order cut up by layer id, order kept (a group *)
(* holds the operators of its layer, and of two places in it the first is  *)
(* earlier in the order, too), and max_layer is the largest layer id of    *)
(* the levels, operators or not.                                           *)
(***************************************************************************)
GroupsCutUpOrder ==
  /\ \A l \in LayerIds :
       /\ Range(layer_groups[l]) = {t \in Range(execution_order) : layer_id[t] = l}
       /\ \A m, n \in DOMAIN layer_groups[l] :
            m < n => \E i, j \in DOMAIN execution_order :
                       /\ i < j
                       /\ execution_order[i] = layer_groups[l][m]
                       /\ execution_order[j] = layer_groups[l][n]
  /\ phase # "retire" =>
       /\ \A t \in Stored : layer_id[t] <= max_layer
       /\ max_layer \in {layer_id[t] : t \in Stored} \cup {-1}

(* The sort always ends, by returning or by throwing. *)
Termination == <>(phase \in {"done", "thrown"})

(* Stored levels are the waves of the abstract walk, emitted one by one,   *)
(* and the walk ends.                                                      *)
ImplementsSchedule == Schedule!Spec

=============================================================================
