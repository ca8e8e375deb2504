----------------------------- MODULE ComputeGraph -----------------------------
(***************************************************************************)
(* One ComputeGraph object (include/core/graph.h, src/core/graph.cpp), the *)
(* tensors it owns, and the client that builds, edits and sorts it.  The   *)
(* graph deletes what all_tensors points at; every other member borrows.   *)
(* Calls do not overlap: a call is one step, except that the breadth-first *)
(* search of buildFromOutputs takes a step per tensor and the sort takes   *)
(* those of module TopologicalSort.                                        *)
(***************************************************************************)
EXTENDS Integers, Sequences, FiniteSets, Functions, SequencesExt

CONSTANTS
  Tensor,          \* the tensor objects that may be allocated
  NULL,            \* the null pointer
  TENSOR_MAX_SRC,  \* number of source slots of a tensor
  LayerIds,        \* the layer ids in use, -1 among them
  Kinds,           \* the <<op_type, type>> pairs in use
  Accelerator,     \* the device memcpy proxies are placed on
  MaxOutputs       \* bound: outputs passed to buildFromOutputs

ASSUME NullIsNoTensor == NULL \notin Tensor
ASSUME MaxSrcIsNat == TENSOR_MAX_SRC \in Nat
ASSUME LayerIdsAreInts == LayerIds \subseteq Int /\ -1 \in LayerIds

Slot == 0 .. TENSOR_MAX_SRC - 1

(* The pairs a tensor may have: those of the factories, that of a tensor   *)
(* no factory has filled, and those of the proxies of insertMemcpy.        *)
TensorKinds ==
  Kinds \cup ({"NONE", "MEMCPY"} \X ({"UNKNOWN"} \cup {k[2] : k \in Kinds}))

VARIABLES
  all_tensors, src, layer_id, kind,
  in_degree, level, cursor, count, phase,
  execution_levels, execution_order, layer_groups, max_layer,
  external_outputs,  \* the outputs of the last build
  device,            \* Tensor::device
  heap,              \* "free", "live" or "deleted", for each tensor
  queue, visited,    \* locals of reserveBfsCollect
  caller,            \* the call that runs the sort
  outcome,           \* how the last sort ended: "none", "sorted" or "threw"
  fault              \* undefined behaviour: "none", "null" or "freed"

inputs   == <<all_tensors, src, layer_id, kind>>
locals   == <<in_degree, level, cursor, count>>
schedule == <<execution_levels, execution_order, layer_groups, max_layer>>
search   == <<queue, visited>>
owner    == <<external_outputs, device, heap>>
control  == <<caller, outcome, fault>>
vars     == <<inputs, locals, phase, schedule, search, owner, control>>

Sort == INSTANCE TopologicalSort
  WITH Kinds  <- TensorKinds,
       Graphs <- Seq(Tensor) \X [Tensor -> [Slot -> Tensor \cup {NULL}]]
                   \X [Tensor -> LayerIds] \X [Tensor -> TensorKinds]

Owned == Range(all_tensors)
Live  == {t \in Tensor : heap[t] = "live"}

(* No call is running and nothing undefined has happened. *)
Idle == phase = "idle" /\ fault = "none"

NoSources == [i \in Slot |-> NULL]

Init ==
  /\ all_tensors = <<>>
  /\ src = [t \in Tensor |-> NoSources]
  /\ layer_id = [t \in Tensor |-> -1]
  /\ kind = [t \in Tensor |-> <<"NONE", "UNKNOWN">>]
  /\ in_degree = <<>> /\ level = <<>> /\ cursor = 1 /\ count = 0
  /\ phase = "idle"
  /\ execution_levels = <<>> /\ execution_order = <<>>
  /\ layer_groups = [l \in LayerIds |-> <<>>]
  /\ max_layer = -1
  /\ external_outputs = <<>>
  /\ device = [t \in Tensor |-> "CPU"]
  /\ heap = [t \in Tensor |-> "free"]
  /\ queue = <<>> /\ visited = {}
  /\ caller = "none" /\ outcome = "none" /\ fault = "none"

-----------------------------------------------------------------------------
(* The client.  Op factories allocate tensors and fill their source slots  *)
(* with tensors that exist; the fields of a tensor are public and a client *)
(* that places a memcpy proxy assigns them.                                *)
NewTensor(t) ==
  /\ Idle
  /\ heap[t] = "free"
  /\ heap' = [heap EXCEPT ![t] = "live"]
  /\ \E s \in [Slot -> Live \cup {NULL}] : src' = [src EXCEPT ![t] = s]
  /\ \E l \in LayerIds : layer_id' = [layer_id EXCEPT ![t] = l]
  /\ \E k \in Kinds : kind' = [kind EXCEPT ![t] = k]
  /\ outcome' = "none"
  /\ UNCHANGED <<all_tensors, locals, phase, schedule, search, external_outputs,
                 device, caller, fault>>

SetSource(t, i, s) ==
  /\ Idle
  /\ src[t][i] # s
  /\ src' = [src EXCEPT ![t][i] = s]
  /\ outcome' = "none"
  /\ UNCHANGED <<all_tensors, layer_id, kind, locals, phase, schedule, search,
                 owner, caller, fault>>

(* The contract a client has to keep, since no call checks it: a tensor is *)
(* handed over once, alive, with live sources; and the outputs of a build  *)
(* do not lead into the graph, whose tensors the build deletes first.      *)
MayAdd(t) ==
  t \in Live \ Owned /\ Range(src[t]) \subseteq Live \cup {NULL}

MayBuild(outputs) ==
  \A t \in Range(outputs) \ {NULL} :
    MayAdd(t) /\ Range(src[t]) \cap Owned = {}

-----------------------------------------------------------------------------
(* Deleting what all_tensors points at is undefined when a pointer is      *)
(* repeated or dangles.                                                    *)
DeleteAll ==
  /\ heap' = [t \in Tensor |-> IF t \in Owned THEN "deleted" ELSE heap[t]]
  /\ fault' = IF IsInjective(all_tensors) /\ Owned \subseteq Live
              THEN fault ELSE "freed"

(* Wrong: the groups by layer are forgotten. *)
EmptyScheduleButGroups ==
  /\ execution_levels' = <<>>
  /\ execution_order' = <<>>
  /\ max_layer' = -1
  /\ UNCHANGED layer_groups

(* Wrong: the largest layer of an empty graph is taken to be 0. *)
EmptyScheduleAtZero ==
  /\ execution_levels' = <<>>
  /\ execution_order' = <<>>
  /\ layer_groups' = [l \in LayerIds |-> <<>>]
  /\ max_layer' = 0

EmptySchedule ==
  /\ execution_levels' = <<>>
  /\ execution_order' = <<>>
  /\ layer_groups' = [l \in LayerIds |-> <<>>]
  /\ max_layer' = -1

(* Wrong: the tensors are deleted and stay in all_tensors. *)
ClearKeepingPointers ==
  /\ Idle
  /\ DeleteAll
  /\ EmptySchedule
  /\ external_outputs' = <<>>
  /\ outcome' = "none"
  /\ UNCHANGED <<inputs, locals, phase, search, device, caller>>

Clear ==
  /\ Idle
  /\ DeleteAll
  /\ EmptySchedule
  /\ all_tensors' = <<>>
  /\ external_outputs' = <<>>
  /\ outcome' = "none"
  /\ UNCHANGED <<src, layer_id, kind, locals, phase, search, device, caller>>

Destroy ==
  /\ Idle
  /\ DeleteAll
  /\ phase' = "destroyed"
  /\ UNCHANGED <<inputs, locals, schedule, search, external_outputs, device,
                 caller, outcome>>

AddTensor(t) ==
  /\ Idle
  /\ MayAdd(t)
  /\ all_tensors' = Append(all_tensors, t)
  /\ outcome' = "none"
  /\ UNCHANGED <<src, layer_id, kind, locals, phase, schedule, search, owner,
                 caller, fault>>

ReplaceOutput(old_t, new_t) ==
  /\ Idle
  /\ old_t \in Range(external_outputs)
  /\ external_outputs' = [n \in DOMAIN external_outputs |->
       IF external_outputs[n] = old_t THEN new_t ELSE external_outputs[n]]
  /\ UNCHANGED <<inputs, locals, phase, schedule, search, device, heap, control>>

(* proxy is the object that the call allocates. *)
InsertMemcpy(original_t, proxy) ==
  /\ Idle
  /\ heap[proxy] = "free"
  /\ heap' = [heap EXCEPT ![proxy] = "live"]
  /\ kind' = [kind EXCEPT ![proxy] = <<"MEMCPY", kind[original_t][2]>>]
  /\ device' = [device EXCEPT ![proxy] = Accelerator]
  /\ layer_id' = [layer_id EXCEPT ![proxy] = layer_id[original_t]]
  /\ src' = [src EXCEPT ![proxy] =
               [i \in Slot |-> IF i = 0 THEN original_t ELSE NULL]]
  /\ all_tensors' = Append(all_tensors, proxy)
  /\ outcome' = "none"
  /\ UNCHANGED <<locals, phase, schedule, search, external_outputs, caller, fault>>

(* exportDot reads every tensor of the graph and every source of one, and  *)
(* changes nothing.                                                        *)
ExportDot ==
  /\ Idle
  /\ fault' = IF UNION {{t} \cup Range(src[t]) : t \in Owned} \subseteq Live \cup {NULL}
              THEN fault ELSE "freed"
  /\ UNCHANGED <<inputs, locals, phase, schedule, search, owner, caller, outcome>>

-----------------------------------------------------------------------------
RebuildOrder ==
  /\ Idle
  /\ EmptySchedule
  /\ caller' = "rebuild"
  /\ phase' = "entry"
  /\ UNCHANGED <<inputs, locals, search, owner, outcome, fault>>

(* Wrong: an output named twice is a seed twice. *)
SeedsWithRepetitions(outputs) == SelectSeq(outputs, LAMBDA t : t # NULL)

(* The seeds of the search: the outputs, without nulls and repetitions. *)
Seeds(outputs) ==
  LET seed[n \in 0 .. Len(outputs)] ==
        IF n = 0 THEN <<>>
        ELSE IF outputs[n] \in {NULL} \cup Range(seed[n - 1]) THEN seed[n - 1]
        ELSE Append(seed[n - 1], outputs[n])
  IN  seed[Len(outputs)]

(* clear(), the assignment of external_outputs and the seeding of the      *)
(* search.                                                                 *)
BuildFromOutputs(outputs) ==
  /\ Idle
  /\ MayBuild(outputs)
  /\ DeleteAll
  /\ EmptySchedule
  /\ all_tensors' = <<>>
  /\ external_outputs' = outputs
  /\ queue' = Seeds(outputs)
  /\ visited' = Range(outputs) \ {NULL}
  /\ caller' = "build"
  /\ phase' = "search"
  /\ UNCHANGED <<src, layer_id, kind, locals, device, outcome>>

(* Line 96 follows a source when the slot is null, so that the only        *)
(* pointer the search can add to its queue is the null pointer, once.      *)
Followed(cur) == {src[cur][i] : i \in {j \in Slot : src[cur][j] = NULL}} \ visited

VisitTensor ==
  /\ phase = "search" /\ fault = "none"
  /\ queue # <<>>
  /\ LET cur == Head(queue)
     IN  /\ all_tensors' = Append(all_tensors, cur)
         /\ IF cur \in Live
            THEN /\ \E q \in SetToSeqs(Followed(cur)) : queue' = Tail(queue) \o q
                 /\ visited' = visited \cup Followed(cur)
                 /\ fault' = fault
            ELSE /\ fault' = IF cur = NULL THEN "null" ELSE "freed"
                 /\ UNCHANGED search
  /\ UNCHANGED <<src, layer_id, kind, locals, phase, schedule, owner, caller, outcome>>

(* Wrong: the devices are reset before the sort, which may throw. *)
FinishSearchResettingDevices ==
  /\ phase = "search" /\ fault = "none"
  /\ queue = <<>>
  /\ phase' = "entry"
  /\ visited' = {}
  /\ device' = [t \in Tensor |-> IF t \in Owned THEN "UNKNOWN" ELSE device[t]]
  /\ UNCHANGED <<inputs, locals, schedule, queue, external_outputs, heap, control>>

FinishSearch ==
  /\ phase = "search" /\ fault = "none"
  /\ queue = <<>>
  /\ phase' = "entry"
  /\ visited' = {}
  /\ UNCHANGED <<inputs, locals, schedule, queue, owner, control>>

Sorting ==
  /\ Sort!SortStep
  /\ UNCHANGED <<search, owner, control>>

(* The locals of the sort and the search go with the call. *)
EndCall ==
  /\ in_degree' = <<>> /\ level' = <<>> /\ cursor' = 1 /\ count' = 0
  /\ caller' = "none"
  /\ phase' = "idle"
  /\ UNCHANGED <<inputs, schedule, search, external_outputs, heap, fault>>

(* The sort has returned: a build resets the devices of its tensors.       *)
ReturnFromSort ==
  /\ phase = "done"
  /\ EndCall
  /\ device' = IF caller = "build"
               THEN [t \in Tensor |-> IF t \in Owned THEN "UNKNOWN" ELSE device[t]]
               ELSE device
  /\ outcome' = "sorted"

(* The exception of the sort leaves the call and changes nothing more. *)
ThrowFromSort ==
  /\ phase = "thrown"
  /\ EndCall
  /\ outcome' = "threw"
  /\ UNCHANGED device

InCall ==
  \/ VisitTensor
  \/ FinishSearch
  \/ Sorting
  \/ ReturnFromSort
  \/ ThrowFromSort

Outputs == UNION {[1 .. n -> Tensor \cup {NULL}] : n \in 0 .. MaxOutputs}

Client ==
  \/ \E t \in Tensor : NewTensor(t)
  \/ \E t \in Live, i \in Slot : \E s \in Live \cup {NULL} : SetSource(t, i, s)
  \/ \E t \in Live : AddTensor(t)
  \/ \E old_t \in Range(external_outputs), new_t \in Live : ReplaceOutput(old_t, new_t)
  \/ \E original_t \in Live, proxy \in Tensor : InsertMemcpy(original_t, proxy)
  \/ \E outputs \in Outputs : BuildFromOutputs(outputs)
  \/ RebuildOrder
  \/ Clear
  \/ ExportDot
  \/ Destroy

Next == InCall \/ Client

(* A call that has begun runs on; the client may stop calling at any time. *)
Spec == Init /\ [][Next]_vars /\ WF_vars(InCall)

-----------------------------------------------------------------------------
TypeOK ==
  /\ all_tensors \in Seq(Tensor \cup {NULL})
  /\ src \in [Tensor -> [Slot -> Tensor \cup {NULL}]]
  /\ layer_id \in [Tensor -> LayerIds]
  /\ kind \in [Tensor -> TensorKinds]
  /\ phase \in {"idle", "search", "entry", "collect", "retire", "done",
                "thrown", "destroyed"}
  /\ execution_levels \in Seq(Seq(Tensor))
  /\ execution_order \in Seq(Tensor)
  /\ layer_groups \in [LayerIds -> Seq(Tensor)]
  /\ max_layer \in LayerIds
  /\ external_outputs \in Seq(Tensor \cup {NULL})
  /\ device \in [Tensor -> {"CPU", "UNKNOWN", Accelerator}]
  /\ heap \in [Tensor -> {"free", "live", "deleted"}]
  /\ queue \in Seq(Tensor \cup {NULL})
  /\ visited \subseteq Tensor \cup {NULL}
  /\ caller \in {"none", "build", "rebuild"}
  /\ outcome \in {"none", "sorted", "threw"}
  /\ fault \in {"none", "null", "freed"}

(* What the schedule members point at. *)
Scheduled == Sort!Stored \cup Range(execution_order)
               \cup UNION {Range(layer_groups[l]) : l \in LayerIds}

(***************************************************************************)
(* Whatever sequence of adds, insertions, builds, sorts that throw and     *)
(* clears a client runs, between calls no pointer that a getter hands out  *)
(* dangles: schedule pointers are to tensors the graph owns, outputs are   *)
(* alive, and every owned tensor is alive and owned once, as the deletes   *)
(* of clear, operator= and the destructor need.                            *)
(***************************************************************************)
GettersHandOutLiveTensors ==
  Idle =>
    /\ Scheduled \subseteq Owned
    /\ Owned \subseteq Live /\ IsInjective(all_tensors)
    /\ Range(external_outputs) \subseteq Live \cup {NULL}

(***************************************************************************)
(* A client that keeps the contract never makes the graph touch or delete  *)
(* a tensor that was deleted before.                                       *)
(***************************************************************************)
NoUseAfterFree == fault # "freed"

(***************************************************************************)
(* No call follows a null pointer, the contents of an unused source slot   *)
(* ("src = {nullptr}; // source tensors", tensor.hpp:21).                  *)
(***************************************************************************)
NoNullDereference == fault # "null"

(***************************************************************************)
(* After a sort that returned, with nothing edited since, all of the       *)
(* schedule speaks of the graph as it is: no remnant of an earlier sort,   *)
(* every tensor in a level after its sources, and in the order exactly the *)
(* operators, none before one it depends on.                               *)
(***************************************************************************)
SortedScheduleIsCurrent ==
  Idle /\ outcome = "sorted" =>
    /\ Sort!Stored = Owned
    /\ Sort!SourcesInEarlierLevels
    /\ Range(execution_order) = {t \in Owned : Sort!IsOperator(t)}
    /\ IsInjective(execution_order)
    /\ Sort!OrderRespectsDependencies
    /\ Sort!GroupsCutUpOrder

(***************************************************************************)
(* When a build or a rebuild throws, there is a cycle among the tensors    *)
(* the graph is left with, so that dropping an edge of it and calling      *)
(* rebuildOrder again is a way out.                                        *)
(***************************************************************************)
ThrowLeavesTheCycle ==
  Idle /\ outcome = "threw" => Sort!Schedule!Cyclic

(***************************************************************************)
(* "set node device to unknown before assign device" (graph.cpp:134) comes *)
(* after the last line of a build that can throw: a device changes when a  *)
(* proxy is made or when a build succeeds, and then for all its tensors.   *)
(***************************************************************************)
DevicesResetBySuccess ==
  [][device' # device =>
       \/ \E t \in Tensor : heap[t] = "free" /\ heap'[t] = "live"
       \/ outcome' = "sorted" /\ \A t \in Owned : device'[t] = "UNKNOWN"]_vars

=============================================================================
