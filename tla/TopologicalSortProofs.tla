------------------------ MODULE TopologicalSortProofs ------------------------
(***************************************************************************)
(* Proofs about ComputeGraph::topologicalSort as module TopologicalSort    *)
(* models it, for every number of tensors and source slots: first that it  *)
(* carries out LevelSchedule and that its verdict on cycles is exact, then *)
(* what its results are worth.                                             *)
(***************************************************************************)
EXTENDS TopologicalSort, FiniteSetTheorems, SequenceTheorems, TLAPS

(* The part of TypeOK that speaks of the inputs, which no step changes. *)
InputsOK ==
  /\ all_tensors \in Seq(Tensor)
  /\ src \in [Tensor -> [Slot -> Tensor \cup {NULL}]]
  /\ layer_id \in [Tensor -> LayerIds]
  /\ kind \in [Tensor -> Kinds]

(* What is counted is finite. *)
LEMMA EdgesAreFinite ==
  ASSUME InputsOK
  PROVE  /\ IsFiniteSet(DOMAIN all_tensors)
         /\ \A t : IsFiniteSet(Incoming(t))
         /\ \A s, t : IsFiniteSet(Forward(s, t))
<1>1. DOMAIN all_tensors = 1 .. Len(all_tensors) /\ Len(all_tensors) \in Nat
  BY DEF InputsOK
<1>2. IsFiniteSet(DOMAIN all_tensors)
  BY <1>1, FS_Interval
<1>3. IsFiniteSet(Slot)
  BY MaxSrcIsNat, FS_Interval DEF Slot
<1>4. IsFiniteSet((DOMAIN all_tensors) \X Slot)
  BY <1>2, <1>3, FS_Product
<1>5. ASSUME NEW t PROVE IsFiniteSet(Incoming(t))
  <2>1. Incoming(t) \in SUBSET ((DOMAIN all_tensors) \X Slot)
    BY DEF Incoming
  <2> QED
    BY <1>4, <2>1, FS_Subset
<1>6. ASSUME NEW s, NEW t PROVE IsFiniteSet(Forward(s, t))
  <2>1. Forward(s, t) \in SUBSET Incoming(t)
    BY DEF Forward
  <2> QED
    BY <1>5, <2>1, FS_Subset
<1> QED
  BY <1>2, <1>5, <1>6

(* A graph that lists no tensor twice has as many tensors as its list has  *)
(* entries.                                                                *)
LEMMA GraphIsFinite ==
  ASSUME InputsOK
  PROVE  /\ IsFiniteSet(InGraph)
         /\ IsInjective(all_tensors) => Cardinality(InGraph) = Len(all_tensors)
<1>1. DOMAIN all_tensors = 1 .. Len(all_tensors) /\ Len(all_tensors) \in Nat
  BY DEF InputsOK
<1>2. IsFiniteSet(DOMAIN all_tensors)
  BY EdgesAreFinite
<1>3. Cardinality(DOMAIN all_tensors) = Len(all_tensors)
  <2>1. Cardinality(1 .. Len(all_tensors))
          = IF 1 > Len(all_tensors) THEN 0 ELSE Len(all_tensors) - 1 + 1
    BY <1>1, FS_Interval
  <2> QED
    BY <1>1, <2>1
<1>4. all_tensors \in Surjection(DOMAIN all_tensors, InGraph)
  BY DEF InputsOK, Surjection, InGraph, Range
<1>5. IsInjective(all_tensors) => all_tensors \in Injection(DOMAIN all_tensors, InGraph)
  BY <1>4 DEF Injection, Surjection
<1> QED
  BY <1>2, <1>3, <1>4, <1>5, FS_Surjection

(* A level is a sequence of as many tensors as there are ready positions,  *)
(* and it holds the tensors at these positions.                            *)
LEMMA LevelOfReady ==
  ASSUME InputsOK, NEW q \in Sorted(Ready)
  PROVE  /\ DOMAIN q = 1 .. Cardinality(Ready)
         /\ Cardinality(Ready) \in Nat
         /\ [n \in DOMAIN q |-> all_tensors[q[n]]] \in Seq(InGraph)
         /\ Len([n \in DOMAIN q |-> all_tensors[q[n]]]) = Cardinality(Ready)
<1>1. Ready \in SUBSET DOMAIN all_tensors
  BY DEF Ready
<1>2. IsFiniteSet(Ready)
  BY <1>1, EdgesAreFinite, FS_Subset
<1>3. Cardinality(Ready) \in Nat
  BY <1>2, FS_CardinalityType
<1>4. q \in [1 .. Cardinality(Ready) -> Ready]
  BY DEF Sorted, Bijection, Injection
<1>5. \A n \in 1 .. Cardinality(Ready) : all_tensors[q[n]] \in InGraph
  BY <1>1, <1>4 DEF InGraph, Range
<1>6. [n \in DOMAIN q |-> all_tensors[q[n]]] \in [1 .. Cardinality(Ready) -> InGraph]
  BY <1>4, <1>5
<1> QED
  BY <1>3, <1>4, <1>6, SeqDef

LEMMA TypeOKInit == Init => TypeOK
<1> SUFFICES ASSUME Init PROVE TypeOK
  OBVIOUS
<1>1. InputsOK
  BY GraphsAreInputs DEF Init, InputsOK
<1>2. /\ <<>> \in Seq(InGraph)
      /\ <<>> \in Seq(Seq(InGraph))
  OBVIOUS
<1> QED
  BY <1>1, <1>2 DEF Init, InputsOK, TypeOK

LEMMA TypeOKStep == TypeOK /\ [Next]_vars => TypeOK'
<1> SUFFICES ASSUME TypeOK, [Next]_vars PROVE TypeOK'
  OBVIOUS
<1>1. InputsOK
  BY DEF TypeOK, InputsOK
<1>2. UNCHANGED inputs
  BY DEF Next, SortStep, BeginSort, CollectLevel, RetireTensor, StoreLevel,
         LeaveLoop, vars
<1>3. InputsOK' /\ InGraph' = InGraph
  BY <1>1, <1>2 DEF InputsOK, InGraph, inputs
<1>4. CASE BeginSort
  <2>1. \A t \in InGraph : Cardinality(Incoming(t)) \in Int
    BY <1>1, EdgesAreFinite, FS_CardinalityType
  <2>2. in_degree' \in [InGraph -> Int]
    BY <1>4, <2>1 DEF BeginSort, InDegrees
  <2>3. /\ <<>> \in Seq(InGraph)
        /\ <<>> \in Seq(Seq(InGraph))
    OBVIOUS
  <2> QED
    BY <1>3, <1>4, <2>2, <2>3 DEF BeginSort, TypeOK, InputsOK
<1>5. CASE CollectLevel
  <2>1. level' \in Seq(InGraph)
    BY <1>1, <1>5, LevelOfReady DEF CollectLevel
  <2> QED
    BY <1>3, <1>5, <2>1 DEF CollectLevel, TypeOK, InputsOK, results
<1>6. CASE RetireTensor
  <2> DEFINE t == level[cursor]
  <2>1. t \in InGraph /\ t \in Tensor
    BY <1>6 DEF TypeOK, RetireTensor, InGraph, Range
  <2>2. in_degree' \in [InGraph -> Int]
    <3>1. \A u : Cardinality(Forward(t, u)) \in Nat
      BY <1>1, EdgesAreFinite, FS_CardinalityType
    <3>2. \A u \in InGraph :
            Decremented(in_degree[u], Cardinality(Forward(t, u))) \in Int
      BY <1>6, <3>1 DEF Decremented, TypeOK, RetireTensor
    <3> QED
      BY <1>6, <3>2 DEF RetireTensor
  <2>3. layer_id[t] \in LayerIds
    BY <2>1 DEF TypeOK
  <2>4. /\ Append(execution_order, t) \in Seq(InGraph)
        /\ Append(layer_groups[layer_id[t]], t) \in Seq(InGraph)
    BY <2>1, <2>3 DEF TypeOK
  <2>5. /\ execution_order' \in Seq(InGraph)
        /\ layer_groups' \in [LayerIds -> Seq(InGraph)]
    <3>1. CASE IsOperator(t)
      <4>1. /\ execution_order' = Append(execution_order, t)
            /\ layer_groups' = [layer_groups EXCEPT ![layer_id[t]] = Append(@, t)]
        BY <1>6, <3>1, Zenon DEF RetireTensor
      <4> QED
        BY <2>3, <2>4, <4>1 DEF TypeOK
    <3>2. CASE ~IsOperator(t)
      <4>1. UNCHANGED <<execution_order, layer_groups>>
        BY <1>6, <3>2, Zenon DEF RetireTensor
      <4> QED
        BY <4>1 DEF TypeOK
    <3> QED
      BY <3>1, <3>2
  <2>6. max_layer' \in LayerIds \cup {-1}
    BY <1>6, <2>3 DEF RetireTensor, HighestLayer, TypeOK
  <2>7. /\ cursor' \in Nat \ {0}
        /\ count' \in Nat
        /\ UNCHANGED <<level, phase, execution_levels>>
    BY <1>6 DEF RetireTensor, TypeOK
  <2> QED
    BY <1>3, <2>2, <2>5, <2>6, <2>7 DEF TypeOK, InputsOK
<1>7. CASE StoreLevel
  BY <1>3, <1>7 DEF StoreLevel, TypeOK, InputsOK
<1>8. CASE LeaveLoop
  BY <1>3, <1>8 DEF LeaveLoop, TypeOK, InputsOK, results
<1>9. CASE UNCHANGED vars
  BY <1>3, <1>9 DEF TypeOK, InputsOK, vars, locals, results
<1> QED
  BY <1>4, <1>5, <1>6, <1>7, <1>8, <1>9 DEF Next, SortStep

(* Every reachable state of the sort is well typed, duplicates in          *)
(* all_tensors or not.                                                     *)
THEOREM SortType == SafetySpec => []TypeOK
BY TypeOKInit, TypeOKStep, PTL DEF SafetySpec

-----------------------------------------------------------------------------
(***************************************************************************)
(* From here on no tensor is listed twice.  The counter of a tensor that   *)
(* is not retired is the number of its edges from tensors that are not;    *)
(* the retired tensors are those of the stored levels and those of the     *)
(* current level before the cursor; the current level is the wave of the   *)
(* abstract walk.                                                          *)
(***************************************************************************)
Retired == {t \in InGraph : in_degree[t] = -1}

Pending(u) == {e \in Incoming(u) : in_degree[src[u][e[2]]] # -1}

Wave == {t \in InGraph \ Stored : Sources(t) \subseteq Stored}

CountersExact ==
  phase # "entry" =>
    \A u \in InGraph : in_degree[u] = -1 \/ in_degree[u] = Cardinality(Pending(u))

RetiredInLevels ==
  /\ phase = "entry" => Stored = {}
  /\ phase # "entry" =>
       Retired = Stored \cup
         (IF phase = "retire" THEN {level[n] : n \in 1 .. cursor - 1} ELSE {})

LevelIsWave ==
  phase = "retire" =>
    /\ level # <<>>
    /\ IsInjective(level)
    /\ Range(level) = Wave
    /\ cursor <= Len(level) + 1
    /\ \A n \in cursor .. Len(level) : in_degree[level[n]] = 0

CountIsRetired == phase # "entry" => count = Cardinality(Retired)

VerdictBacked ==
  /\ phase = "done" => Stored = InGraph
  /\ phase = "thrown" => Stored # InGraph /\ Wave = {}

SortInv ==
  /\ TypeOK
  /\ IsInjective(all_tensors)
  /\ CountersExact
  /\ RetiredInLevels
  /\ LevelIsWave
  /\ CountIsRetired
  /\ VerdictBacked
  /\ SourcesInEarlierLevels

(* A tensor may be retired exactly when it is in the wave. *)
LEMMA ZeroIsWave ==
  ASSUME TypeOK, CountersExact, phase # "entry", Retired = Stored
  PROVE  \A u \in InGraph : in_degree[u] = 0 <=> u \in Wave
<1> SUFFICES ASSUME NEW u \in InGraph PROVE in_degree[u] = 0 <=> u \in Wave
  OBVIOUS
<1>1. InputsOK
  BY DEF TypeOK, InputsOK
<1>2. Pending(u) = {} <=> Sources(u) \subseteq Stored
  <2>1. ASSUME NEW i \in Slot, src[u][i] \in InGraph
        PROVE  \E e \in Incoming(u) : e[2] = i
    <3>1. PICK p \in DOMAIN all_tensors : all_tensors[p] = u
      BY DEF InGraph, Range
    <3>2. <<p, i>> \in Incoming(u)
      BY <2>1, <3>1 DEF Incoming
    <3> QED
      BY <3>2
  <2>2. \A e \in Incoming(u) : e[2] \in Slot /\ src[u][e[2]] \in InGraph
    BY DEF Incoming
  <2>3. \A s \in InGraph : s \in Stored <=> in_degree[s] = -1
    BY DEF Retired
  <2> QED
    BY <2>1, <2>2, <2>3 DEF Pending, Sources
<1>3. IsFiniteSet(Pending(u))
  <2>1. Pending(u) \in SUBSET Incoming(u)
    BY DEF Pending
  <2> QED
    BY <1>1, <2>1, EdgesAreFinite, FS_Subset
<1>4. Cardinality(Pending(u)) = 0 <=> Pending(u) = {}
  BY <1>3, FS_EmptySet
<1>5. u \in Stored <=> in_degree[u] = -1
  BY DEF Retired
<1> QED
  BY <1>2, <1>4, <1>5 DEF Wave, CountersExact

(* Retiring t takes exactly the edges from t off every counter that is     *)
(* still counting, and no counter below zero.                              *)
LEMMA RetireCounts ==
  ASSUME TypeOK, CountersExact, phase # "entry",
         NEW t \in InGraph, in_degree[t] # -1,
         NEW u \in InGraph, in_degree[u] # -1
  PROVE  /\ Forward(t, u) \subseteq Pending(u)
         /\ Cardinality(Pending(u) \ Forward(t, u)) \in Nat
         /\ Decremented(in_degree[u], Cardinality(Forward(t, u)))
              = Cardinality(Pending(u) \ Forward(t, u))
         /\ in_degree[u] = 0 => Forward(t, u) = {}
<1>1. InputsOK
  BY DEF TypeOK, InputsOK
<1>2. Forward(t, u) \subseteq Pending(u)
  BY DEF Forward, Pending
<1>3. IsFiniteSet(Pending(u))
  <2>1. Pending(u) \in SUBSET Incoming(u)
    BY DEF Pending
  <2> QED
    BY <1>1, <2>1, EdgesAreFinite, FS_Subset
<1>4. /\ IsFiniteSet(Pending(u) \ Forward(t, u))
      /\ Cardinality(Pending(u) \ Forward(t, u))
           = Cardinality(Pending(u)) - Cardinality(Pending(u) \cap Forward(t, u))
  BY <1>3, FS_Difference
<1>5. Pending(u) \cap Forward(t, u) = Forward(t, u)
  BY <1>2
<1>6. /\ Cardinality(Forward(t, u)) \in Nat
      /\ Cardinality(Pending(u)) \in Nat
      /\ Cardinality(Pending(u) \ Forward(t, u)) \in Nat
  BY <1>1, <1>3, <1>4, EdgesAreFinite, FS_CardinalityType
<1>7. in_degree[u] = Cardinality(Pending(u))
  BY DEF CountersExact
<1>8. Decremented(in_degree[u], Cardinality(Forward(t, u)))
        = Cardinality(Pending(u)) - Cardinality(Forward(t, u))
  BY <1>4, <1>5, <1>6, <1>7 DEF Decremented
<1>9. in_degree[u] = 0 => Pending(u) = {}
  BY <1>3, <1>7, FS_EmptySet
<1> QED
  BY <1>2, <1>4, <1>5, <1>6, <1>8, <1>9

LEMMA SortInvInit ==
  ASSUME \A g \in Graphs : IsInjective(g[1])
  PROVE  Init => SortInv
<1> SUFFICES ASSUME Init PROVE SortInv
  OBVIOUS
<1>1. TypeOK
  BY TypeOKInit
<1>2. IsInjective(all_tensors)
  BY DEF Init
<1>3. Stored = {} /\ SourcesInEarlierLevels
  BY DEF Init, Stored, SourcesInEarlierLevels
<1> QED
  BY <1>1, <1>2, <1>3
  DEF Init, SortInv, CountersExact, RetiredInLevels, LevelIsWave, CountIsRetired,
      VerdictBacked

(* Facts about a step: the graph, and what the graph alone decides, stays. *)
LEMMA GraphStays ==
  ASSUME UNCHANGED inputs
  PROVE  /\ InGraph' = InGraph
         /\ \A t : Incoming(t)' = Incoming(t)
         /\ \A s, t : Forward(s, t)' = Forward(s, t)
         /\ \A t : Sources(t)' = Sources(t)
BY DEF inputs, InGraph, Incoming, Forward, Sources

LEMMA BeginSortStep ==
  ASSUME SortInv, TypeOK', BeginSort
  PROVE  SortInv'
<1>1. UNCHANGED inputs
  BY DEF BeginSort
<1>2. /\ InGraph' = InGraph
      /\ \A t : Incoming(t)' = Incoming(t)
      /\ all_tensors' = all_tensors /\ src' = src
  BY <1>1, GraphStays DEF inputs
<1>3. InputsOK
  BY DEF SortInv, TypeOK, InputsOK
<1>4. \A u \in InGraph : in_degree'[u] = Cardinality(Incoming(u))
                           /\ in_degree'[u] \in Nat
  BY <1>3, EdgesAreFinite, FS_CardinalityType DEF BeginSort, InDegrees
<1>5. \A u \in InGraph : Pending(u)' = Incoming(u)
  <2> SUFFICES ASSUME NEW u \in InGraph, NEW e \in Incoming(u)
               PROVE  in_degree'[src[u][e[2]]] # -1
    BY <1>2 DEF Pending
  <2>1. src[u][e[2]] \in InGraph
    BY DEF Incoming
  <2> QED
    BY <1>4, <2>1
<1>6. CountersExact'
  BY <1>2, <1>4, <1>5 DEF CountersExact
<1>7. Retired' = {}
  BY <1>2, <1>4 DEF Retired
<1>8. Stored' = {} /\ SourcesInEarlierLevels'
  BY DEF BeginSort, Stored, SourcesInEarlierLevels
<1>9. count' = Cardinality(Retired')
  BY <1>7, FS_EmptySet DEF BeginSort
<1> QED
  BY <1>2, <1>6, <1>7, <1>8, <1>9
  DEF BeginSort, SortInv, RetiredInLevels, LevelIsWave, CountIsRetired, VerdictBacked

LEMMA CollectLevelStep ==
  ASSUME SortInv, TypeOK', CollectLevel
  PROVE  SortInv'
<1>1. UNCHANGED inputs
  BY DEF CollectLevel
<1>2. /\ InGraph' = InGraph
      /\ \A t : Incoming(t)' = Incoming(t) /\ Sources(t)' = Sources(t)
      /\ all_tensors' = all_tensors /\ src' = src
  BY <1>1, GraphStays DEF inputs
<1>3. /\ phase = "collect" /\ phase' = "retire" /\ cursor' = 1
      /\ UNCHANGED <<in_degree, count, execution_levels>>
  BY DEF CollectLevel, results
<1>4. Retired = Stored
  BY <1>3 DEF SortInv, RetiredInLevels
<1>5. InputsOK
  BY DEF SortInv, TypeOK, InputsOK
<1>6. PICK q \in Sorted(Ready) : level' = [n \in DOMAIN q |-> all_tensors[q[n]]]
  BY DEF CollectLevel
<1>7. /\ DOMAIN q = 1 .. Cardinality(Ready)
      /\ Cardinality(Ready) \in Nat
      /\ Len(level') = Cardinality(Ready)
      /\ level' \in Seq(InGraph)
  BY <1>5, <1>6, LevelOfReady
<1>8. /\ q \in [1 .. Cardinality(Ready) -> Ready]
      /\ \A i, j \in 1 .. Cardinality(Ready) : q[i] = q[j] => i = j
      /\ \A r \in Ready : \E i \in 1 .. Cardinality(Ready) : q[i] = r
  BY <1>7 DEF Sorted, Bijection, Injection, Surjection, IsInjective
<1>9. Ready \subseteq DOMAIN all_tensors
  BY DEF Ready
<1>10. DOMAIN level' = 1 .. Cardinality(Ready)
  BY <1>6, <1>7
<1>11. IsInjective(level)'
  BY <1>6, <1>7, <1>8, <1>9, <1>10 DEF SortInv, IsInjective
<1>12. \A n \in DOMAIN level' : in_degree[level'[n]] = 0
  BY <1>6, <1>8, <1>10 DEF Ready
<1>13. Range(level') = Wave
  <2>1. \A u \in InGraph : in_degree[u] = 0 <=> u \in Wave
    BY <1>3, <1>4, ZeroIsWave DEF SortInv
  <2>2. Range(level') = {all_tensors[p] : p \in Ready}
    BY <1>6, <1>7, <1>8, <1>10 DEF Range
  <2>3. {all_tensors[p] : p \in Ready} = {u \in InGraph : in_degree[u] = 0}
    BY DEF Ready, InGraph, Range
  <2> QED
    BY <2>1, <2>2, <2>3 DEF Wave
<1>14. level' # <<>>
  <2>1. PICK r \in Ready : TRUE
    BY DEF CollectLevel
  <2>2. PICK i \in DOMAIN level' : TRUE
    BY <1>8, <1>10, <2>1
  <2> QED
    BY <2>2
<1>15. /\ Stored' = Stored /\ Wave' = Wave /\ Retired' = Retired
       /\ \A u : Pending(u)' = Pending(u)
  BY <1>2, <1>3 DEF Stored, Wave, Retired, Pending
<1>16. LevelIsWave'
  BY <1>3, <1>7, <1>10, <1>11, <1>12, <1>13, <1>14, <1>15 DEF LevelIsWave
<1>17. RetiredInLevels'
  BY <1>3, <1>4, <1>15 DEF RetiredInLevels
<1>18. CountersExact' /\ CountIsRetired' /\ SourcesInEarlierLevels'
  BY <1>2, <1>3, <1>15
  DEF SortInv, CountersExact, CountIsRetired, SourcesInEarlierLevels
<1> QED
  BY <1>2, <1>3, <1>16, <1>17, <1>18 DEF SortInv, VerdictBacked

LEMMA RetireTensorStep ==
  ASSUME SortInv, TypeOK', RetireTensor
  PROVE  SortInv'
<1>0. PICK t : t = level[cursor]
  OBVIOUS
<1>1. UNCHANGED inputs
  BY DEF RetireTensor
<1>2. /\ InGraph' = InGraph
      /\ \A u : Incoming(u)' = Incoming(u) /\ Sources(u)' = Sources(u)
      /\ all_tensors' = all_tensors /\ src' = src
  BY <1>1, GraphStays DEF inputs
<1>3. /\ phase = "retire" /\ phase' = "retire" /\ cursor' = cursor + 1
      /\ count' = count + 1 /\ cursor <= Len(level)
      /\ UNCHANGED <<level, execution_levels>>
      /\ in_degree' = [u \in InGraph |->
                          IF u = t THEN -1
                          ELSE Decremented(in_degree[u], Cardinality(Forward(t, u)))]
  BY <1>0 DEF RetireTensor
<1>4. /\ cursor \in Nat \ {0} /\ level \in Seq(InGraph) /\ count \in Nat
      /\ in_degree \in [InGraph -> Int]
  BY <1>3 DEF SortInv, TypeOK
<1>5. t \in InGraph /\ cursor \in DOMAIN level
  BY <1>0, <1>3, <1>4
<1>6. in_degree[t] = 0
  BY <1>0, <1>3, <1>4 DEF SortInv, LevelIsWave
<1>7. ASSUME NEW u \in InGraph, u # t, in_degree[u] # -1
      PROVE  /\ Forward(t, u) \subseteq Pending(u)
             /\ in_degree'[u] = Cardinality(Pending(u) \ Forward(t, u))
             /\ in_degree'[u] \in Nat
             /\ in_degree[u] = 0 => Forward(t, u) = {}
  <2>1. in_degree'[u] = Decremented(in_degree[u], Cardinality(Forward(t, u)))
    BY <1>3, <1>7
  <2>2. /\ TypeOK /\ CountersExact
        /\ phase # "entry" /\ in_degree[t] # -1
    BY <1>3, <1>6 DEF SortInv
  <2> QED
    BY <1>5, <1>7, <2>1, <2>2, RetireCounts
<1>8. ASSUME NEW u \in InGraph, u # t, in_degree[u] = -1
      PROVE  in_degree'[u] = -1
  <2>1. in_degree'[u] = Decremented(in_degree[u], Cardinality(Forward(t, u)))
    BY <1>3, <1>8
  <2> QED
    BY <1>8, <2>1 DEF Decremented
<1>9. in_degree'[t] = -1
  BY <1>3, <1>5
<1>10. ASSUME NEW u \in InGraph
       PROVE  in_degree'[u] = -1 <=> u = t \/ in_degree[u] = -1
  <2>1. CASE u = t
    BY <1>9, <2>1
  <2>2. CASE u # t /\ in_degree[u] = -1
    BY <1>8, <2>2
  <2>3. CASE u # t /\ in_degree[u] # -1
    <3>1. in_degree'[u] \in Nat
      BY <1>7, <2>3
    <3> QED
      BY <2>3, <3>1
  <2> QED
    BY <2>1, <2>2, <2>3
<1>11. Retired' = Retired \cup {t}
  BY <1>2, <1>5, <1>10 DEF Retired
<1>12. CountersExact'
  <2> SUFFICES ASSUME NEW u \in InGraph, in_degree'[u] # -1
               PROVE  in_degree'[u] = Cardinality(Pending(u)')
    BY <1>2 DEF CountersExact
  <2>1. u # t /\ in_degree[u] # -1
    BY <1>10
  <2>2. Pending(u)' = Pending(u) \ Forward(t, u)
    <3>1. \A e \in Incoming(u) :
            in_degree'[src[u][e[2]]] # -1
              <=> in_degree[src[u][e[2]]] # -1 /\ src[u][e[2]] # t
      BY <1>10 DEF Incoming
    <3> QED
      BY <1>2, <3>1 DEF Pending, Forward
  <2> QED
    BY <1>7, <2>1, <2>2
<1>13. /\ Stored' = Stored /\ Wave' = Wave
       /\ SourcesInEarlierLevels'
  BY <1>2, <1>3 DEF Stored, Wave, SortInv, SourcesInEarlierLevels
<1>14. RetiredInLevels'
  <2>1. {level'[n] : n \in 1 .. cursor' - 1} = {level[n] : n \in 1 .. cursor - 1} \cup {t}
    <3>1. 1 .. cursor' - 1 = (1 .. cursor - 1) \cup {cursor}
      BY <1>3, <1>4
    <3> QED
      BY <1>0, <1>3, <3>1
  <2>2. Retired = Stored \cup {level[n] : n \in 1 .. cursor - 1}
    BY <1>3 DEF SortInv, RetiredInLevels
  <2> QED
    BY <1>3, <1>11, <1>13, <2>1, <2>2 DEF RetiredInLevels
<1>15. LevelIsWave'
  <2>1. ASSUME NEW n \in cursor' .. Len(level) PROVE in_degree'[level[n]] = 0
    <3>1. n \in DOMAIN level /\ n # cursor /\ n \in cursor .. Len(level)
      BY <1>3, <1>4
    <3>2. level[n] # t
      BY <1>0, <1>3, <1>5, <3>1 DEF SortInv, LevelIsWave, IsInjective
    <3>3. level[n] \in InGraph /\ in_degree[level[n]] = 0
      BY <1>3, <1>4, <3>1 DEF SortInv, LevelIsWave
    <3>4. Forward(t, level[n]) = {}
      <4> DEFINE u == level[n]
      <4>1. u \in InGraph /\ u # t /\ in_degree[u] = 0 /\ in_degree[u] # -1
        BY <3>2, <3>3
      <4> HIDE DEF u
      <4>2. Forward(t, u) = {}
        BY <1>7, <4>1
      <4> QED
        BY <4>2 DEF u
    <3>5. Cardinality(Forward(t, level[n])) = 0
      BY <3>4, FS_EmptySet
    <3>6. in_degree'[level[n]] = Decremented(0, 0)
      BY <1>3, <3>2, <3>3, <3>5
    <3> QED
      BY <3>6 DEF Decremented
  <2> QED
    BY <1>3, <1>4, <1>13, <2>1 DEF SortInv, LevelIsWave
<1>16. CountIsRetired'
  <2>1. t \notin Retired
    BY <1>6 DEF Retired
  <2>2. IsFiniteSet(InGraph)
    <3>1. InputsOK
      BY DEF SortInv, TypeOK, InputsOK
    <3> QED
      BY <3>1, GraphIsFinite
  <2>3. IsFiniteSet(Retired)
    <3>1. Retired \in SUBSET InGraph
      BY DEF Retired
    <3> QED
      BY <2>2, <3>1, FS_Subset
  <2>4. Cardinality(Retired \cup {t}) = Cardinality(Retired) + 1
    BY <2>1, <2>3, FS_AddElement
  <2>5. count = Cardinality(Retired)
    BY <1>3 DEF SortInv, CountIsRetired
  <2> QED
    BY <1>3, <1>11, <2>4, <2>5 DEF CountIsRetired
<1>17. IsInjective(all_tensors)'
  BY <1>2 DEF SortInv
<1>18. VerdictBacked'
  BY <1>3 DEF VerdictBacked
<1> QED
  BY <1>12, <1>13, <1>14, <1>15, <1>16, <1>17, <1>18 DEF SortInv

LEMMA StoreLevelStep ==
  ASSUME SortInv, TypeOK', StoreLevel
  PROVE  /\ SortInv'
         /\ Stored' = Stored \cup Wave
         /\ Wave # {}
<1>1. UNCHANGED inputs
  BY DEF StoreLevel
<1>2. /\ InGraph' = InGraph
      /\ \A u : Incoming(u)' = Incoming(u) /\ Sources(u)' = Sources(u)
      /\ all_tensors' = all_tensors /\ src' = src
  BY <1>1, GraphStays DEF inputs
<1>3. /\ phase = "retire" /\ phase' = "collect" /\ cursor > Len(level)
      /\ execution_levels' = Append(execution_levels, level)
      /\ UNCHANGED <<in_degree, count>>
  BY DEF StoreLevel
<1>4. /\ level \in Seq(InGraph) /\ execution_levels \in Seq(Seq(InGraph))
      /\ cursor \in Nat \ {0}
  BY DEF SortInv, TypeOK
<1>5. /\ level # <<>> /\ Range(level) = Wave /\ cursor = Len(level) + 1
  BY <1>3, <1>4 DEF SortInv, LevelIsWave
<1>6. /\ Len(execution_levels') = Len(execution_levels) + 1
      /\ \A k \in 1 .. Len(execution_levels) : execution_levels'[k] = execution_levels[k]
      /\ execution_levels'[Len(execution_levels) + 1] = level
      /\ DOMAIN execution_levels = 1 .. Len(execution_levels)
      /\ DOMAIN execution_levels' = 1 .. Len(execution_levels) + 1
      /\ Len(execution_levels) \in Nat
  BY <1>3, <1>4, AppendProperties
<1>7. Stored' = Stored \cup Wave
  <2>1. DOMAIN execution_levels' = DOMAIN execution_levels \cup {Len(execution_levels) + 1}
    BY <1>6
  <2>2. UNION {Range(execution_levels'[k]) : k \in DOMAIN execution_levels'}
          = (UNION {Range(execution_levels[k]) : k \in DOMAIN execution_levels}) \cup Wave
    BY <1>5, <1>6, <2>1
  <2> QED
    BY <2>2 DEF Stored
<1>8. Wave # {}
  <2>1. 1 \in DOMAIN level
    BY <1>4, <1>5
  <2> QED
    BY <1>5, <2>1 DEF Range
<1>9. RetiredInLevels'
  <2>1. Range(level) = {level[n] : n \in 1 .. cursor - 1}
    BY <1>4, <1>5 DEF Range
  <2>2. Retired' = Retired
    BY <1>2, <1>3 DEF Retired
  <2> QED
    BY <1>3, <1>5, <1>7, <2>1, <2>2 DEF SortInv, RetiredInLevels
<1>10. CountersExact' /\ CountIsRetired'
  BY <1>2, <1>3 DEF SortInv, CountersExact, CountIsRetired, Pending, Retired
<1>11. SourcesInEarlierLevels'
  <2> SUFFICES ASSUME NEW k \in DOMAIN execution_levels',
                      NEW t \in Range(execution_levels'[k]), NEW s \in Sources(t)
               PROVE  /\ \E j \in 1 .. k - 1 : s \in Range(execution_levels'[j])
                      /\ s \notin Range(execution_levels'[k])
    BY <1>2 DEF SourcesInEarlierLevels
  <2>1. CASE k \in DOMAIN execution_levels
    <3>1. execution_levels'[k] = execution_levels[k]
      BY <1>6, <2>1
    <3>2. PICK j \in 1 .. k - 1 : s \in Range(execution_levels[j])
      BY <2>1, <3>1 DEF SortInv, SourcesInEarlierLevels
    <3>3. s \notin Range(execution_levels[k])
      BY <2>1, <3>1 DEF SortInv, SourcesInEarlierLevels
    <3>4. execution_levels'[j] = execution_levels[j]
      BY <1>6, <2>1
    <3> QED
      BY <3>1, <3>2, <3>3, <3>4
  <2>2. CASE k = Len(execution_levels) + 1
    <3>1. t \in Wave
      BY <1>5, <1>6, <2>2
    <3>2. s \in Stored /\ s \notin Wave
      BY <3>1 DEF Wave
    <3>3. PICK j \in DOMAIN execution_levels : s \in Range(execution_levels[j])
      BY <3>2 DEF Stored
    <3>4. j \in 1 .. k - 1 /\ execution_levels'[j] = execution_levels[j]
      BY <1>6, <2>2, <3>3
    <3> QED
      BY <1>5, <1>6, <2>2, <3>2, <3>3, <3>4
  <2> QED
    BY <1>6, <2>1, <2>2
<1> QED
  BY <1>2, <1>3, <1>7, <1>8, <1>9, <1>10, <1>11
  DEF SortInv, LevelIsWave, VerdictBacked

LEMMA LeaveLoopStep ==
  ASSUME SortInv, TypeOK', LeaveLoop
  PROVE  /\ SortInv'
         /\ phase' = "done" => Stored = InGraph
         /\ phase' = "thrown" => Stored # InGraph /\ Wave = {}
         /\ phase' \in {"done", "thrown"}
<1>1. UNCHANGED inputs
  BY DEF LeaveLoop
<1>2. /\ InGraph' = InGraph
      /\ \A u : Incoming(u)' = Incoming(u) /\ Sources(u)' = Sources(u)
      /\ all_tensors' = all_tensors /\ src' = src
  BY <1>1, GraphStays DEF inputs
<1>3. /\ phase = "collect"
      /\ count >= Len(all_tensors) \/ Ready = {}
      /\ phase' = IF count # Len(all_tensors) THEN "thrown" ELSE "done"
      /\ UNCHANGED <<in_degree, level, cursor, count, execution_levels>>
  BY DEF LeaveLoop, results
<1>4. Retired = Stored /\ count = Cardinality(Retired)
  BY <1>3 DEF SortInv, RetiredInLevels, CountIsRetired
<1>5. InputsOK
  BY DEF SortInv, TypeOK, InputsOK
<1>6. IsFiniteSet(InGraph) /\ Cardinality(InGraph) = Len(all_tensors)
  BY <1>5, GraphIsFinite DEF SortInv
<1>7. Retired \in SUBSET InGraph
  BY DEF Retired
<1>8. /\ Cardinality(Retired) <= Len(all_tensors)
      /\ Cardinality(Retired) = Len(all_tensors) <=> Retired = InGraph
      /\ Cardinality(Retired) \in Nat /\ Len(all_tensors) \in Nat
  BY <1>6, <1>7, FS_Subset, FS_CardinalityType
<1>9. phase' = "done" => Stored = InGraph
  BY <1>3, <1>4, <1>8
<1>10. phase' = "thrown" => Stored # InGraph /\ Ready = {}
  BY <1>3, <1>4, <1>8
<1>11. Ready = {} => Wave = {}
  <2>1. \A u \in InGraph : in_degree[u] = 0 <=> u \in Wave
    BY <1>3, <1>4, ZeroIsWave DEF SortInv
  <2> QED
    BY <2>1 DEF Ready, Wave, InGraph, Range
<1>12. /\ Stored' = Stored /\ Wave' = Wave /\ Retired' = Retired
       /\ \A u : Pending(u)' = Pending(u)
  BY <1>2, <1>3 DEF Stored, Wave, Retired, Pending
<1>13. phase' \in {"done", "thrown"}
  BY <1>3
<1>14. /\ CountersExact' /\ RetiredInLevels' /\ CountIsRetired'
       /\ SourcesInEarlierLevels'
  BY <1>2, <1>3, <1>4, <1>12, <1>13
  DEF SortInv, CountersExact, RetiredInLevels, CountIsRetired, SourcesInEarlierLevels
<1> QED
  BY <1>2, <1>9, <1>10, <1>11, <1>12, <1>13, <1>14
  DEF SortInv, LevelIsWave, VerdictBacked

LEMMA SortInvStep == SortInv /\ [Next]_vars => SortInv'
<1> SUFFICES ASSUME SortInv, [Next]_vars PROVE SortInv'
  OBVIOUS
<1>1. TypeOK'
  BY TypeOKStep DEF SortInv
<1>2. CASE BeginSort
  BY <1>1, <1>2, BeginSortStep
<1>3. CASE CollectLevel
  BY <1>1, <1>3, CollectLevelStep
<1>4. CASE RetireTensor
  BY <1>1, <1>4, RetireTensorStep
<1>5. CASE StoreLevel
  BY <1>1, <1>5, StoreLevelStep
<1>6. CASE LeaveLoop
  BY <1>1, <1>6, LeaveLoopStep
<1>7. CASE UNCHANGED vars
  <2>1. /\ UNCHANGED inputs
        /\ UNCHANGED <<in_degree, level, cursor, count, phase, execution_levels>>
    BY <1>7 DEF vars, locals, results
  <2>2. /\ InGraph' = InGraph
        /\ \A u : Incoming(u)' = Incoming(u) /\ Sources(u)' = Sources(u)
        /\ all_tensors' = all_tensors /\ src' = src
    BY <2>1, GraphStays DEF inputs
  <2>3. /\ Stored' = Stored /\ Wave' = Wave /\ Retired' = Retired
        /\ \A u : Pending(u)' = Pending(u)
    BY <2>1, <2>2 DEF Stored, Wave, Retired, Pending
  <2> QED
    BY <1>1, <2>1, <2>2, <2>3
    DEF SortInv, CountersExact, RetiredInLevels, LevelIsWave, CountIsRetired,
        VerdictBacked, SourcesInEarlierLevels
<1> QED
  BY <1>2, <1>3, <1>4, <1>5, <1>6, <1>7 DEF Next, SortStep

-----------------------------------------------------------------------------
(* The tensors of a stored level never depend on one another and only on   *)
(* tensors of earlier levels, whatever the graph, cyclic graphs included,  *)
(* as long as no tensor is in all_tensors twice.                           *)
THEOREM SortLevelsIndependent ==
  ASSUME \A g \in Graphs : IsInjective(g[1])
  PROVE  SafetySpec => []SourcesInEarlierLevels
<1>1. Init => SortInv
  BY SortInvInit
<1>2. SortInv => SourcesInEarlierLevels
  BY DEF SortInv
<1> QED
  BY <1>1, <1>2, SortInvStep, PTL DEF SafetySpec

(* The abstract state that the sort has reached. *)
LEMMA WaveIsAbstractWave ==
  /\ Schedule!Wave = Wave
  /\ Schedule!Wave' = Wave'
BY DEF Schedule!Wave, Wave, Sources

LEMMA SortInitIsWalkInit == Init => Schedule!Init
<1> SUFFICES ASSUME Init PROVE Schedule!Init
  OBVIOUS
<1>1. InGraph \in SUBSET Tensor
  BY TypeOKInit DEF TypeOK, InGraph, Range
<1>2. [t \in InGraph |-> Sources(t)] \in [InGraph -> SUBSET Tensor]
  BY <1>1 DEF Sources
<1>3. Stored = {} /\ phase = "entry"
  BY DEF Init, Stored
<1> QED
  BY <1>1, <1>2, <1>3 DEF Schedule!Init

LEMMA SortStepIsWalkStep ==
  SortInv /\ [Next]_vars => [Schedule!Next]_Schedule!vars
<1> SUFFICES ASSUME SortInv, [Next]_vars
             PROVE  Schedule!Next \/ UNCHANGED Schedule!vars
  OBVIOUS
<1>1. TypeOK'
  BY TypeOKStep DEF SortInv
<1>2. UNCHANGED inputs
  BY DEF Next, SortStep, BeginSort, CollectLevel, RetireTensor, StoreLevel,
         LeaveLoop, vars
<1>3. /\ InGraph' = InGraph
      /\ [t \in InGraph |-> Sources(t)]' = [t \in InGraph |-> Sources(t)]
  BY <1>2, GraphStays
<1>4. CASE BeginSort
  <2>1. Stored' = {} /\ Stored = {}
    BY <1>4 DEF BeginSort, Stored, SortInv, RetiredInLevels
  <2> QED
    BY <1>3, <1>4, <2>1 DEF BeginSort, Schedule!vars
<1>5. CASE CollectLevel \/ RetireTensor \/ UNCHANGED vars
  <2>1. UNCHANGED execution_levels
    BY <1>5 DEF CollectLevel, RetireTensor, results, vars
  <2>2. \/ phase = "collect" /\ phase' = "retire"
        \/ UNCHANGED phase
    BY <1>5 DEF CollectLevel, RetireTensor, vars, locals
  <2> QED
    BY <1>3, <2>1, <2>2 DEF Schedule!vars, Stored
<1>6. CASE StoreLevel
  <2>1. /\ Stored' = Stored \cup Wave
        /\ Wave # {}
    BY <1>1, <1>6, StoreLevelStep
  <2>2. phase = "retire" /\ phase' = "collect"
    BY <1>6 DEF StoreLevel
  <2>3. Schedule!EmitWave
    BY <1>3, <2>1, <2>2, WaveIsAbstractWave DEF Schedule!EmitWave
  <2> QED
    BY <2>3 DEF Schedule!Next
<1>7. CASE LeaveLoop
  <2>1. /\ phase' = "done" => Stored = InGraph
        /\ phase' = "thrown" => Stored # InGraph /\ Wave = {}
        /\ phase' \in {"done", "thrown"}
    BY <1>1, <1>7, LeaveLoopStep
  <2>2. phase = "collect" /\ Stored' = Stored
    BY <1>7 DEF LeaveLoop, results, Stored
  <2>3. Schedule!Complete \/ Schedule!Reject
    BY <1>3, <2>1, <2>2, WaveIsAbstractWave DEF Schedule!Complete, Schedule!Reject
  <2> QED
    BY <2>3 DEF Schedule!Next
<1> QED
  BY <1>4, <1>5, <1>6, <1>7 DEF Next, SortStep

(* Every behaviour of the sort is a behaviour of the level walk. *)
THEOREM SortImplementsWalk ==
  ASSUME \A g \in Graphs : IsInjective(g[1])
  PROVE  SafetySpec => Schedule!SafetySpec
<1>1. Init => SortInv
  BY SortInvInit
<1> QED
  BY <1>1, SortInitIsWalkInit, SortStepIsWalkStep, SortInvStep, PTL
  DEF SafetySpec, Schedule!SafetySpec

(* The theorems of the level walk, about the state the sort has reached. *)
Walk == INSTANCE LevelScheduleProofs
  WITH Node    <- Tensor,
       nodes   <- InGraph,
       deps    <- [t \in InGraph |-> Sources(t)],
       emitted <- Stored,
       outcome <- CASE phase = "done"   -> "complete"
                    [] phase = "thrown" -> "cyclic"
                    [] OTHER            -> "running"

LEMMA WalkIsSchedule ==
  /\ Schedule!Init => Walk!Init
  /\ [Schedule!Next]_Schedule!vars => [Walk!Next]_Walk!vars
  /\ Walk!VerdictCorrect => Schedule!VerdictCorrect
<1>1. Schedule!Init => Walk!Init
  BY DEF Schedule!Init, Walk!Init
<1>2. /\ Schedule!Wave = Walk!Wave
      /\ Schedule!vars = Walk!vars
      /\ Schedule!vars' = Walk!vars'
  BY DEF Schedule!Wave, Walk!Wave, Schedule!vars, Walk!vars
<1>3. Schedule!EmitWave => Walk!EmitWave
  BY <1>2 DEF Schedule!EmitWave, Walk!EmitWave
<1>4. Schedule!Complete => Walk!Complete
  BY DEF Schedule!Complete, Walk!Complete
<1>5. Schedule!Reject => Walk!Reject
  BY <1>2 DEF Schedule!Reject, Walk!Reject
<1>6. [Schedule!Next]_Schedule!vars => [Walk!Next]_Walk!vars
  BY <1>2, <1>3, <1>4, <1>5 DEF Schedule!Next, Walk!Next
<1>7. \A S : Schedule!IsTrap(S) <=> Walk!IsTrap(S)
  BY DEF Schedule!IsTrap, Walk!IsTrap
<1>8. Schedule!Cyclic <=> Walk!Cyclic
  BY <1>7 DEF Schedule!Cyclic, Walk!Cyclic
<1>9. Walk!VerdictCorrect => Schedule!VerdictCorrect
  BY <1>8 DEF Schedule!VerdictCorrect, Walk!VerdictCorrect
<1> QED
  BY <1>1, <1>6, <1>9

(* "Cycle detected" is thrown for every graph with a cycle and no other.   *)
THEOREM SortVerdictExact ==
  ASSUME \A g \in Graphs : IsInjective(g[1])
  PROVE  SafetySpec => []CycleVerdictExact
<1>1. SafetySpec => Walk!SafetySpec
  BY SortImplementsWalk, WalkIsSchedule, PTL
  DEF Schedule!SafetySpec, Walk!SafetySpec
<1>2. Walk!VerdictCorrect => CycleVerdictExact
  BY WalkIsSchedule DEF CycleVerdictExact
<1> QED
  BY <1>1, <1>2, Walk!LevelScheduleVerdict, PTL

-----------------------------------------------------------------------------
(***************************************************************************)
(* What the results are worth: the order may be run front to back, the     *)
(* levels are as few as can be, a sort that returns is complete, one that  *)
(* throws has gone as far as the graph allows, and the layer groups cut up *)
(* the order.  All of this rests on SortInv.                               *)
(***************************************************************************)

(* The tensors of the levels before the k-th. *)
StoredBefore(k) == UNION {Range(execution_levels[j]) : j \in 1 .. k - 1}

(* The wave that follows once the tensors of S are out. *)
WaveAfter(S) == {t \in InGraph \ S : Sources(t) \subseteq S}

LevelsAreWaves ==
  \A k \in DOMAIN execution_levels :
    /\ Range(execution_levels[k]) = WaveAfter(StoredBefore(k))
    /\ IsInjective(execution_levels[k])

(* The order holds the operators retired, each once. *)
OrderIsRetired ==
  /\ phase = "entry" => execution_order = <<>> /\ execution_levels = <<>>
  /\ phase # "entry" => Range(execution_order) = {t \in Retired : IsOperator(t)}
  /\ IsInjective(execution_order)

(* Level by level, what precedes a tensor in the order is no deeper. *)
OrderClimbs ==
  \A j \in DOMAIN execution_order : \A i \in 1 .. j - 1 :
    \A k \in 1 .. Len(execution_levels) + 1 :
      execution_order[j] \in StoredBefore(k) => execution_order[i] \in StoredBefore(k)

TrapsIntact ==
  \A S \in SUBSET InGraph : Schedule!IsTrap(S) => S \cap Stored = {}

OrderInv ==
  /\ SortInv
  /\ LevelsAreWaves
  /\ OrderIsRetired
  /\ OrderClimbs
  /\ TrapsIntact

-----------------------------------------------------------------------------
LEMMA StoredBeforeLast ==
  ASSUME TypeOK
  PROVE  /\ Len(execution_levels) \in Nat
         /\ DOMAIN execution_levels = 1 .. Len(execution_levels)
         /\ StoredBefore(Len(execution_levels) + 1) = Stored
         /\ \A k \in 1 .. Len(execution_levels) + 1 : StoredBefore(k) \subseteq Stored
<1>1. /\ Len(execution_levels) \in Nat
      /\ DOMAIN execution_levels = 1 .. Len(execution_levels)
  BY DEF TypeOK
<1>2. (Len(execution_levels) + 1) - 1 = Len(execution_levels)
  BY <1>1
<1>3. StoredBefore(Len(execution_levels) + 1) = Stored
  BY <1>1, <1>2 DEF StoredBefore, Stored
<1>4. \A k \in 1 .. Len(execution_levels) + 1 : 1 .. k - 1 \subseteq DOMAIN execution_levels
  BY <1>1
<1> QED
  BY <1>1, <1>3, <1>4 DEF StoredBefore, Stored

LEMMA OrderInvInit ==
  ASSUME \A g \in Graphs : IsInjective(g[1])
  PROVE  Init => OrderInv
<1> SUFFICES ASSUME Init PROVE OrderInv
  OBVIOUS
<1>1. SortInv
  BY SortInvInit
<1>2. Stored = {}
  BY DEF Init, Stored
<1> QED
  BY <1>1, <1>2
  DEF Init, OrderInv, LevelsAreWaves, OrderIsRetired, OrderClimbs, TrapsIntact, IsInjective

(* A step that leaves the levels alone moves no wave and no trap. *)
LEMMA LevelsStay ==
  ASSUME UNCHANGED inputs, UNCHANGED execution_levels
  PROVE  /\ Stored' = Stored
         /\ \A k : StoredBefore(k)' = StoredBefore(k)
         /\ LevelsAreWaves => LevelsAreWaves'
         /\ TrapsIntact => TrapsIntact'
         /\ \A t : IsOperator(t)' = IsOperator(t)
<1>1. /\ InGraph' = InGraph
      /\ \A t : Sources(t)' = Sources(t)
  BY GraphStays
<1>2. Stored' = Stored /\ \A k : StoredBefore(k)' = StoredBefore(k)
  BY DEF Stored, StoredBefore
<1>3. \A S : WaveAfter(S)' = WaveAfter(S)
  BY <1>1 DEF WaveAfter
<1>4. LevelsAreWaves => LevelsAreWaves'
  <2> SUFFICES ASSUME LevelsAreWaves, NEW k \in DOMAIN execution_levels
               PROVE  /\ Range(execution_levels[k]) = WaveAfter(StoredBefore(k))'
                      /\ IsInjective(execution_levels[k])
    BY DEF LevelsAreWaves
  <2>1. WaveAfter(StoredBefore(k))' = WaveAfter(StoredBefore(k))
    BY <1>1, <1>2 DEF WaveAfter
  <2> QED
    BY <2>1 DEF LevelsAreWaves
<1>5. \A S : Schedule!IsTrap(S)' <=> Schedule!IsTrap(S)
  BY <1>1 DEF Schedule!IsTrap
<1>6. TrapsIntact => TrapsIntact'
  BY <1>1, <1>2, <1>5 DEF TrapsIntact
<1>7. \A t : IsOperator(t)' = IsOperator(t)
  BY DEF inputs, IsOperator
<1> QED
  BY <1>2, <1>4, <1>6, <1>7

LEMMA BeginSortOrder ==
  ASSUME OrderInv, TypeOK', BeginSort
  PROVE  OrderInv'
<1>1. SortInv'
  BY BeginSortStep DEF OrderInv
<1>2. /\ phase' = "collect" /\ execution_levels' = <<>> /\ execution_order' = <<>>
      /\ Stored' = {}
  BY DEF BeginSort, Stored
<1>3. Retired' = {}
  BY <1>1, <1>2 DEF SortInv, RetiredInLevels
<1>4. Range(execution_order)' = {}
  BY <1>2 DEF Range
<1> QED
  BY <1>1, <1>2, <1>3, <1>4
  DEF OrderInv, LevelsAreWaves, OrderIsRetired, OrderClimbs, TrapsIntact, IsInjective

(* Collecting and leaving move neither levels nor order nor counters. *)
LEMMA QuietOrder ==
  ASSUME OrderInv, SortInv',
         UNCHANGED <<inputs, in_degree, execution_levels, execution_order>>,
         (phase # "entry" /\ phase' # "entry") \/ UNCHANGED phase
  PROVE  OrderInv'
<1>1. UNCHANGED inputs /\ UNCHANGED execution_levels
  OBVIOUS
<1>2. /\ \A k : StoredBefore(k)' = StoredBefore(k)
      /\ LevelsAreWaves' /\ TrapsIntact'
      /\ \A t : IsOperator(t)' = IsOperator(t)
  BY <1>1, LevelsStay DEF OrderInv
<1>3. Retired' = Retired
  BY <1>1, GraphStays DEF Retired
<1>4. OrderIsRetired'
  BY <1>2, <1>3 DEF OrderInv, OrderIsRetired
<1>5. OrderClimbs'
  BY <1>2 DEF OrderInv, OrderClimbs
<1> QED
  BY <1>2, <1>4, <1>5 DEF OrderInv

LEMMA RetireTensorOrder ==
  ASSUME OrderInv, TypeOK', RetireTensor
  PROVE  OrderInv'
<1>1. SortInv' /\ SortInv
  BY RetireTensorStep DEF OrderInv
<1>2. /\ UNCHANGED inputs /\ UNCHANGED execution_levels
      /\ phase = "retire" /\ phase' = "retire" /\ cursor' = cursor + 1
      /\ cursor <= Len(level) /\ UNCHANGED level
  BY DEF RetireTensor
<1>3. /\ Stored' = Stored
      /\ \A k : StoredBefore(k)' = StoredBefore(k)
      /\ LevelsAreWaves' /\ TrapsIntact'
      /\ \A u : IsOperator(u)' = IsOperator(u)
  BY <1>2, LevelsStay DEF OrderInv
<1>4. PICK t : t = level[cursor]
  OBVIOUS
<1>5. /\ cursor \in Nat \ {0} /\ cursor \in DOMAIN level /\ level \in Seq(InGraph)
      /\ execution_order \in Seq(InGraph)
  BY <1>1, <1>2 DEF SortInv, TypeOK
<1>6. t \in Wave
  BY <1>1, <1>2, <1>4, <1>5 DEF SortInv, LevelIsWave, Range
<1>7. t \notin Stored
  BY <1>6 DEF Wave
<1>8. Retired' = Retired \cup {t}
  <2>1. {level'[n] : n \in 1 .. cursor' - 1} = {level[n] : n \in 1 .. cursor - 1} \cup {t}
    <3>1. 1 .. cursor' - 1 = (1 .. cursor - 1) \cup {cursor}
      BY <1>2, <1>5
    <3> QED
      BY <1>2, <1>4, <3>1
  <2> QED
    BY <1>1, <1>2, <1>3, <2>1 DEF SortInv, RetiredInLevels
<1>9. t \notin Retired
  <2>1. t \notin {level[n] : n \in 1 .. cursor - 1}
    BY <1>1, <1>2, <1>4, <1>5 DEF SortInv, LevelIsWave, IsInjective
  <2> QED
    BY <1>1, <1>2, <1>7, <2>1 DEF SortInv, RetiredInLevels
<1>10. CASE IsOperator(t)
  <2>1. execution_order' = Append(execution_order, t)
    BY <1>4, <1>10, Zenon DEF RetireTensor
  <2>2. /\ Len(execution_order') = Len(execution_order) + 1
        /\ Len(execution_order) \in Nat
        /\ DOMAIN execution_order = 1 .. Len(execution_order)
        /\ DOMAIN execution_order' = 1 .. Len(execution_order) + 1
        /\ \A i \in 1 .. Len(execution_order) : execution_order'[i] = execution_order[i]
        /\ execution_order'[Len(execution_order) + 1] = t
    BY <1>5, <1>6, <2>1, AppendProperties DEF Wave
  <2>3. t \notin Range(execution_order)
    BY <1>2, <1>9 DEF OrderInv, OrderIsRetired
  <2>4. Range(execution_order') = Range(execution_order) \cup {t}
    BY <2>2 DEF Range
  <2>5. IsInjective(execution_order')
    BY <2>2, <2>3 DEF OrderInv, OrderIsRetired, IsInjective, Range
  <2>6. OrderIsRetired'
    BY <1>2, <1>3, <1>8, <1>10, <2>4, <2>5 DEF OrderInv, OrderIsRetired
  <2>7. OrderClimbs'
    <3> SUFFICES ASSUME NEW j \in DOMAIN execution_order', NEW i \in 1 .. j - 1,
                        NEW k \in 1 .. Len(execution_levels) + 1,
                        execution_order'[j] \in StoredBefore(k)
                 PROVE  execution_order'[i] \in StoredBefore(k)
      BY <1>2, <1>3 DEF OrderClimbs
    <3>1. t \notin StoredBefore(k)
      BY <1>1, <1>7, StoredBeforeLast DEF SortInv
    <3>2. j \in DOMAIN execution_order /\ i \in 1 .. Len(execution_order)
      BY <2>2, <3>1
    <3> QED
      BY <2>2, <3>2 DEF OrderInv, OrderClimbs
  <2> QED
    BY <1>1, <1>3, <2>6, <2>7 DEF OrderInv
<1>11. CASE ~IsOperator(t)
  <2>1. UNCHANGED execution_order
    BY <1>4, <1>11, Zenon DEF RetireTensor
  <2>2. OrderIsRetired'
    BY <1>2, <1>3, <1>8, <1>11, <2>1 DEF OrderInv, OrderIsRetired
  <2>3. OrderClimbs'
    BY <1>2, <1>3, <2>1 DEF OrderInv, OrderClimbs
  <2> QED
    BY <1>1, <1>3, <2>2, <2>3 DEF OrderInv
<1> QED
  BY <1>10, <1>11

LEMMA StoreLevelOrder ==
  ASSUME OrderInv, TypeOK', StoreLevel
  PROVE  OrderInv'
<1>1. SortInv /\ SortInv' /\ Stored' = Stored \cup Wave
  BY StoreLevelStep DEF OrderInv
<1>2. /\ UNCHANGED inputs
      /\ phase = "retire" /\ phase' = "collect"
      /\ execution_levels' = Append(execution_levels, level)
      /\ UNCHANGED <<in_degree, execution_order>>
  BY DEF StoreLevel
<1>3. /\ InGraph' = InGraph
      /\ \A t : Sources(t)' = Sources(t)
      /\ Retired' = Retired
      /\ \A t : IsOperator(t)' = IsOperator(t)
  BY <1>2, GraphStays DEF Retired, inputs, IsOperator
<1> DEFINE last == Len(execution_levels) + 1
<1>4. /\ level \in Seq(InGraph) /\ execution_levels \in Seq(Seq(InGraph))
      /\ Range(level) = Wave /\ IsInjective(level)
  BY <1>1, <1>2 DEF SortInv, TypeOK, LevelIsWave
<1>5. /\ Len(execution_levels) \in Nat
      /\ Len(execution_levels') = last
      /\ DOMAIN execution_levels = 1 .. Len(execution_levels)
      /\ DOMAIN execution_levels' = 1 .. last
      /\ \A k \in 1 .. Len(execution_levels) : execution_levels'[k] = execution_levels[k]
      /\ execution_levels'[last] = level
  BY <1>2, <1>4, AppendProperties
<1>6. \A k \in 1 .. last : StoredBefore(k)' = StoredBefore(k)
  <2> SUFFICES ASSUME NEW k \in 1 .. last PROVE StoredBefore(k)' = StoredBefore(k)
    OBVIOUS
  <2>1. 1 .. k - 1 \subseteq 1 .. Len(execution_levels)
    BY <1>5
  <2> QED
    BY <1>5, <2>1 DEF StoredBefore
<1>7. StoredBefore(last) = Stored
  BY <1>1, StoredBeforeLast DEF SortInv
<1>8. LevelsAreWaves'
  <2> SUFFICES ASSUME NEW k \in 1 .. last
               PROVE  /\ Range(execution_levels'[k]) = WaveAfter(StoredBefore(k))'
                      /\ IsInjective(execution_levels'[k])
    BY <1>5 DEF LevelsAreWaves
  <2>1. WaveAfter(StoredBefore(k))' = WaveAfter(StoredBefore(k))
    BY <1>3, <1>6 DEF WaveAfter
  <2>2. CASE k = last
    BY <1>4, <1>5, <1>7, <2>1, <2>2 DEF WaveAfter, Wave
  <2>3. CASE k # last
    <3>1. k \in DOMAIN execution_levels
      BY <1>5, <2>3
    <3> QED
      BY <1>5, <2>1, <3>1 DEF OrderInv, LevelsAreWaves
  <2> QED
    BY <2>2, <2>3
<1>9. OrderIsRetired'
  BY <1>2, <1>3 DEF OrderInv, OrderIsRetired
<1>10. OrderClimbs'
  <2> SUFFICES ASSUME NEW j \in DOMAIN execution_order, NEW i \in 1 .. j - 1,
                      NEW k \in 1 .. last + 1,
                      execution_order[j] \in StoredBefore(k)'
               PROVE  execution_order[i] \in StoredBefore(k)'
    BY <1>2, <1>5 DEF OrderClimbs
  <2>1. CASE k \in 1 .. last
    BY <1>6, <2>1 DEF OrderInv, OrderClimbs
  <2>2. CASE k = last + 1
    <3>1. StoredBefore(k)' = Stored'
      BY <1>1, <1>5, <2>2, StoredBeforeLast DEF SortInv, StoredBefore, Stored
    <3>2. Retired = Stored'
      BY <1>1, <1>2, <1>3 DEF SortInv, RetiredInLevels
    <3>3. i \in DOMAIN execution_order
      BY <1>1 DEF SortInv, TypeOK
    <3> QED
      BY <1>2, <3>1, <3>2, <3>3 DEF OrderInv, OrderIsRetired, Range
  <2> QED
    BY <1>5, <2>1, <2>2
<1>11. TrapsIntact'
  <2> SUFFICES ASSUME NEW S \in SUBSET InGraph, Schedule!IsTrap(S)'
               PROVE  S \cap Stored' = {}
    BY <1>3 DEF TrapsIntact
  <2>1. Schedule!IsTrap(S)
    BY <1>3 DEF Schedule!IsTrap
  <2>2. S \cap Stored = {}
    BY <2>1 DEF OrderInv, TrapsIntact
  <2>3. ASSUME NEW n \in S PROVE n \notin Wave
    <3>1. Sources(n) \cap S # {}
      BY <2>1, <2>3 DEF Schedule!IsTrap
    <3> QED
      BY <2>2, <3>1 DEF Wave
  <2> QED
    BY <1>1, <2>2, <2>3
<1> QED
  BY <1>1, <1>8, <1>9, <1>10, <1>11 DEF OrderInv

LEMMA OrderInvStep == OrderInv /\ [Next]_vars => OrderInv'
<1> SUFFICES ASSUME OrderInv, [Next]_vars PROVE OrderInv'
  OBVIOUS
<1>1. SortInv /\ SortInv' /\ TypeOK'
  BY SortInvStep DEF OrderInv, SortInv
<1>2. CASE BeginSort
  BY <1>1, <1>2, BeginSortOrder
<1>3. CASE RetireTensor
  BY <1>1, <1>3, RetireTensorOrder
<1>4. CASE StoreLevel
  BY <1>1, <1>4, StoreLevelOrder
<1>5. CASE CollectLevel \/ LeaveLoop \/ UNCHANGED vars
  <2>1. /\ UNCHANGED <<inputs, in_degree, execution_levels, execution_order>>
        /\ (phase # "entry" /\ phase' # "entry") \/ UNCHANGED phase
    BY <1>5 DEF CollectLevel, LeaveLoop, vars, locals, results
  <2> QED
    BY <1>1, <2>1, QuietOrder
<1> QED
  BY <1>2, <1>3, <1>4, <1>5 DEF Next, SortStep

-----------------------------------------------------------------------------
(* What is closed under dependencies holds all that a tensor depends on    *)
(* whose sources it holds.                                                 *)
LEMMA ClosedUnderDependency ==
  ASSUME NEW S \in SUBSET InGraph, \A n \in S : Sources(n) \subseteq S,
         NEW u, Sources(u) \subseteq S, NEW t, DependsOn(u, t)
  PROVE  t \in S
BY DEF DependsOn

LEMMA OrderInvRespects == OrderInv => OrderRespectsDependencies
<1> SUFFICES ASSUME OrderInv,
                    NEW i \in DOMAIN execution_order, NEW j \in DOMAIN execution_order,
                    DependsOn(execution_order[j], execution_order[i])
             PROVE  i < j
  BY DEF OrderRespectsDependencies
<1>1. SortInv /\ TypeOK /\ execution_order \in Seq(InGraph)
  BY DEF OrderInv, SortInv, TypeOK
<1>2. i \in Nat /\ j \in Nat /\ i >= 1 /\ j >= 1
  BY <1>1
<1> DEFINE u == execution_order[j]
           t == execution_order[i]
<1>3. u \in Retired /\ phase # "entry"
  BY <1>1 DEF OrderInv, OrderIsRetired, Range
<1>4. u \in Stored \/ (phase = "retire" /\ u \in Wave)
  <2>1. CASE u \in Stored
    BY <2>1
  <2>2. CASE u \notin Stored
    <3>1. PICK n \in 1 .. cursor - 1 : phase = "retire" /\ u = level[n]
      BY <1>1, <1>3, <2>2 DEF SortInv, RetiredInLevels
    <3>2. n \in DOMAIN level
      BY <1>1, <3>1 DEF SortInv, TypeOK, LevelIsWave
    <3> QED
      BY <1>1, <3>1, <3>2 DEF SortInv, LevelIsWave, Range
  <2> QED
    BY <2>1, <2>2
<1>5. PICK k \in 1 .. Len(execution_levels) + 1 :
        u \notin StoredBefore(k) /\ Sources(u) \subseteq StoredBefore(k)
  <2>1. CASE u \in Stored
    <3>1. PICK k \in DOMAIN execution_levels : u \in Range(execution_levels[k])
      BY <2>1 DEF Stored
    <3>2. u \in WaveAfter(StoredBefore(k))
      BY <3>1 DEF OrderInv, LevelsAreWaves
    <3> QED
      BY <1>1, <3>2, StoredBeforeLast DEF WaveAfter
  <2>2. CASE u \in Wave
    <3> DEFINE last == Len(execution_levels) + 1
    <3>1. last \in 1 .. last /\ StoredBefore(last) = Stored
      BY <1>1, StoredBeforeLast
    <3> QED
      BY <2>2, <3>1 DEF Wave
  <2> QED
    BY <1>4, <2>1, <2>2
<1>6. /\ StoredBefore(k) \in SUBSET InGraph
      /\ \A n \in StoredBefore(k) : Sources(n) \subseteq StoredBefore(k)
  <2>1. Len(execution_levels) \in Nat /\ DOMAIN execution_levels = 1 .. Len(execution_levels)
    BY <1>1, StoredBeforeLast
  <2>2. ASSUME NEW n \in StoredBefore(k)
        PROVE  n \in InGraph /\ Sources(n) \subseteq StoredBefore(k)
    <3>1. PICK l \in 1 .. k - 1 : n \in Range(execution_levels[l])
      BY <2>2 DEF StoredBefore
    <3>2. l \in DOMAIN execution_levels /\ l \in 1 .. Len(execution_levels)
      BY <2>1
    <3>3. n \in WaveAfter(StoredBefore(l))
      BY <3>1, <3>2 DEF OrderInv, LevelsAreWaves
    <3>4. StoredBefore(l) \subseteq StoredBefore(k)
      <4>1. 1 .. l - 1 \subseteq 1 .. k - 1
        BY <2>1, <3>2
      <4> QED
        BY <4>1 DEF StoredBefore
    <3> QED
      BY <3>3, <3>4 DEF WaveAfter
  <2> QED
    BY <2>2
<1>7. t \in StoredBefore(k)
  BY <1>5, <1>6, ClosedUnderDependency
<1>8. CASE j < i
  <2>1. j \in 1 .. i - 1
    BY <1>2, <1>8
  <2>2. u \in StoredBefore(k)
    BY <1>5, <1>7, <2>1 DEF OrderInv, OrderClimbs
  <2> QED
    BY <1>5, <2>2
<1>9. i # j
  BY <1>5, <1>7
<1> QED
  BY <1>2, <1>8, <1>9

(* The order of operators may be run front to back, for every graph.       *)
THEOREM SortOrderRespectsDependencies ==
  ASSUME \A g \in Graphs : IsInjective(g[1])
  PROVE  SafetySpec => []OrderRespectsDependencies
<1>1. Init => OrderInv
  BY OrderInvInit
<1> QED
  BY <1>1, OrderInvStep, OrderInvRespects, PTL DEF SafetySpec

-----------------------------------------------------------------------------
LEMMA OrderInvTight == OrderInv => LevelsTight
<1> SUFFICES ASSUME OrderInv, NEW k \in DOMAIN execution_levels \ {1},
                    NEW t \in Range(execution_levels[k])
             PROVE  Sources(t) \cap Range(execution_levels[k - 1]) # {}
  BY DEF LevelsTight
<1>1. TypeOK /\ DOMAIN execution_levels = 1 .. Len(execution_levels)
        /\ Len(execution_levels) \in Nat
  BY StoredBeforeLast DEF OrderInv, SortInv
<1>2. k - 1 \in DOMAIN execution_levels /\ k \in Nat /\ k >= 2
  BY <1>1
<1>3. t \in WaveAfter(StoredBefore(k))
  BY DEF OrderInv, LevelsAreWaves
<1>4. Range(execution_levels[k - 1]) = WaveAfter(StoredBefore(k - 1))
  BY <1>2 DEF OrderInv, LevelsAreWaves
<1>5. StoredBefore(k) = StoredBefore(k - 1) \cup Range(execution_levels[k - 1])
  <2>1. 1 .. k - 1 = (1 .. (k - 1) - 1) \cup {k - 1}
    BY <1>2
  <2> QED
    BY <2>1 DEF StoredBefore
<1>6. ~(Sources(t) \subseteq StoredBefore(k - 1))
  BY <1>3, <1>4, <1>5 DEF WaveAfter
<1> QED
  BY <1>3, <1>5, <1>6 DEF WaveAfter

(* No level of any graph could be merged with the one before it.           *)
THEOREM SortLevelsTight ==
  ASSUME \A g \in Graphs : IsInjective(g[1])
  PROVE  SafetySpec => []LevelsTight
<1>1. Init => OrderInv
  BY OrderInvInit
<1> QED
  BY <1>1, OrderInvStep, OrderInvTight, PTL DEF SafetySpec

-----------------------------------------------------------------------------
LEMMA OrderInvThrow == OrderInv => ThrowKeepsAcyclicPart
<1> SUFFICES ASSUME OrderInv, phase = "thrown"
             PROVE  Stored = {t \in InGraph : \A S \in SUBSET InGraph :
                       Schedule!IsTrap(S) => t \notin S /\ \A s \in S : ~DependsOn(t, s)}
  BY DEF ThrowKeepsAcyclicPart
<1>1. TypeOK /\ Stored # InGraph /\ Wave = {}
  BY DEF OrderInv, SortInv, VerdictBacked
<1>2. /\ Stored \in SUBSET InGraph
      /\ \A n \in Stored : Sources(n) \subseteq Stored
  <2>1. Stored = Retired
    BY DEF OrderInv, SortInv, RetiredInLevels
  <2>2. ASSUME NEW n \in Stored PROVE Sources(n) \subseteq Stored
    <3>1. PICK k \in DOMAIN execution_levels : n \in Range(execution_levels[k])
      BY DEF Stored
    <3>2. Sources(n) \subseteq StoredBefore(k)
      BY <3>1 DEF OrderInv, LevelsAreWaves, WaveAfter
    <3> QED
      BY <1>1, <3>2, StoredBeforeLast
  <2> QED
    BY <2>1, <2>2 DEF Retired
<1>3. ASSUME NEW t \in Stored, NEW S \in SUBSET InGraph, Schedule!IsTrap(S)
      PROVE  t \notin S /\ \A s \in S : ~DependsOn(t, s)
  <2>1. S \cap Stored = {}
    BY <1>3 DEF OrderInv, TrapsIntact
  <2>2. ASSUME NEW s, DependsOn(t, s) PROVE s \in Stored
    BY <1>2, <2>2, ClosedUnderDependency
  <2> QED
    BY <2>1, <2>2
<1>4. Schedule!IsTrap(InGraph \ Stored)
  <2>1. InGraph \ Stored # {}
    BY <1>1, <1>2
  <2>2. ASSUME NEW n \in InGraph \ Stored
        PROVE  Sources(n) \cap (InGraph \ Stored) # {}
    BY <1>1 DEF Wave, Sources
  <2> QED
    BY <2>1, <2>2 DEF Schedule!IsTrap
<1> QED
  BY <1>2, <1>3, <1>4

(* A sort that throws has stored all that is neither on a cycle nor        *)
(* depends on one, and nothing else.                                       *)
THEOREM SortThrowKeepsAcyclicPart ==
  ASSUME \A g \in Graphs : IsInjective(g[1])
  PROVE  SafetySpec => []ThrowKeepsAcyclicPart
<1>1. Init => OrderInv
  BY OrderInvInit
<1> QED
  BY <1>1, OrderInvStep, OrderInvThrow, PTL DEF SafetySpec

-----------------------------------------------------------------------------
(* A tensor has one place in the levels. *)
LEMMA OnePlace ==
  ASSUME OrderInv, NEW k \in DOMAIN execution_levels, NEW l \in DOMAIN execution_levels,
         NEW m \in DOMAIN execution_levels[k], NEW n \in DOMAIN execution_levels[l],
         execution_levels[k][m] = execution_levels[l][n]
  PROVE  k = l /\ m = n
<1>1. TypeOK /\ DOMAIN execution_levels = 1 .. Len(execution_levels)
        /\ Len(execution_levels) \in Nat
  BY StoredBeforeLast DEF OrderInv, SortInv
<1> DEFINE t == execution_levels[k][m]
<1>2. t \in Range(execution_levels[k]) /\ t \in Range(execution_levels[l])
  BY DEF Range
<1>3. t \notin StoredBefore(k) /\ t \notin StoredBefore(l)
  BY <1>2 DEF OrderInv, LevelsAreWaves, WaveAfter
<1>4. ~(k < l)
  <2> SUFFICES ASSUME k < l PROVE FALSE
    OBVIOUS
  <2>1. k \in 1 .. l - 1
    BY <1>1
  <2> QED
    BY <1>2, <1>3, <2>1 DEF StoredBefore
<1>5. ~(l < k)
  <2> SUFFICES ASSUME l < k PROVE FALSE
    OBVIOUS
  <2>1. l \in 1 .. k - 1
    BY <1>1
  <2> QED
    BY <1>2, <1>3, <2>1 DEF StoredBefore
<1>6. k = l
  BY <1>1, <1>4, <1>5
<1> QED
  BY <1>6 DEF OrderInv, LevelsAreWaves, IsInjective

LEMMA OrderInvComplete == OrderInv => ReturnsCompleteSchedule
<1> SUFFICES ASSUME OrderInv, phase = "done"
             PROVE  /\ count = Cardinality(InGraph)
                    /\ \A t \in InGraph :
                         Cardinality({kn \in (DOMAIN execution_levels) \X (1 .. count) :
                            kn[2] \in DOMAIN execution_levels[kn[1]]
                              /\ execution_levels[kn[1]][kn[2]] = t}) = 1
                    /\ \A t \in InGraph :
                         Cardinality({n \in DOMAIN execution_order : execution_order[n] = t})
                           = IF IsOperator(t) THEN 1 ELSE 0
  BY DEF ReturnsCompleteSchedule
<1>1. Stored = InGraph /\ Retired = InGraph /\ count = Cardinality(InGraph)
  BY DEF OrderInv, SortInv, VerdictBacked, RetiredInLevels, CountIsRetired
<1>2. IsFiniteSet(InGraph)
  BY GraphIsFinite DEF OrderInv, SortInv, TypeOK, InputsOK
<1>3. execution_levels \in Seq(Seq(InGraph)) /\ execution_order \in Seq(InGraph)
  BY DEF OrderInv, SortInv, TypeOK
<1>4. ASSUME NEW k \in DOMAIN execution_levels
      PROVE  DOMAIN execution_levels[k] \subseteq 1 .. count
  <2>1. execution_levels[k] \in Seq(InGraph)
    BY <1>3
  <2> DEFINE l == execution_levels[k]
             N == Len(l)
  <2>2. N \in Nat /\ DOMAIN l = 1 .. N /\ l \in [1 .. N -> InGraph]
    BY <2>1
  <2>3. IsInjective(l)
    BY DEF OrderInv, LevelsAreWaves
  <2> HIDE DEF l, N
  <2>4. l \in Injection(1 .. N, InGraph)
    BY <2>2, <2>3 DEF Injection
  <2>5. Cardinality(1 .. N) <= Cardinality(InGraph)
    BY <1>2, <2>4, FS_Injection
  <2>6. Cardinality(1 .. N) = N
    <3>1. Cardinality(1 .. N) = IF 1 > N THEN 0 ELSE N - 1 + 1
      BY <2>2, FS_Interval
    <3> QED
      BY <2>2, <3>1
  <2>7. count \in Nat
    BY <1>1, <1>2, FS_CardinalityType
  <2> QED
    BY <1>1, <2>2, <2>5, <2>6, <2>7 DEF l
<1>5. ASSUME NEW t \in InGraph
      PROVE  Cardinality({kn \in (DOMAIN execution_levels) \X (1 .. count) :
                kn[2] \in DOMAIN execution_levels[kn[1]]
                  /\ execution_levels[kn[1]][kn[2]] = t}) = 1
  <2> DEFINE places == {kn \in (DOMAIN execution_levels) \X (1 .. count) :
                kn[2] \in DOMAIN execution_levels[kn[1]]
                  /\ execution_levels[kn[1]][kn[2]] = t}
  <2>1. PICK k \in DOMAIN execution_levels : t \in Range(execution_levels[k])
    BY <1>1 DEF Stored
  <2>2. PICK n \in DOMAIN execution_levels[k] : execution_levels[k][n] = t
    BY <2>1 DEF Range
  <2>3. <<k, n>> \in places
    BY <1>4, <2>2
  <2>4. \A kn \in places : kn = <<k, n>>
    <3> TAKE kn \in places
    <3>1. kn[1] = k /\ kn[2] = n
      BY <2>2, OnePlace
    <3> QED
      BY <3>1
  <2>5. places = {<<k, n>>}
    BY <2>3, <2>4
  <2> HIDE DEF places
  <2>6. Cardinality(places) = 1
    BY <2>5, FS_Singleton
  <2> QED
    BY <2>6 DEF places
<1>6. ASSUME NEW t \in InGraph
      PROVE  Cardinality({n \in DOMAIN execution_order : execution_order[n] = t})
               = IF IsOperator(t) THEN 1 ELSE 0
  <2> DEFINE places == {n \in DOMAIN execution_order : execution_order[n] = t}
  <2>1. CASE IsOperator(t)
    <3>1. t \in Range(execution_order)
      BY <1>1, <2>1 DEF OrderInv, OrderIsRetired
    <3>2. PICK n \in DOMAIN execution_order : execution_order[n] = t
      BY <3>1 DEF Range
    <3>3. \A m \in DOMAIN execution_order : execution_order[m] = t => m = n
      BY <3>2 DEF OrderInv, OrderIsRetired, IsInjective
    <3>4. places = {n}
      BY <3>2, <3>3
    <3> QED
      BY <2>1, <3>4, FS_Singleton
  <2>2. CASE ~IsOperator(t)
    <3>1. t \notin Range(execution_order)
      BY <2>2 DEF OrderInv, OrderIsRetired
    <3>2. places = {}
      BY <3>1 DEF Range
    <3> QED
      BY <2>2, <3>2, FS_EmptySet
  <2> QED
    BY <2>1, <2>2
<1> QED
  BY <1>1, <1>5, <1>6

(* A sort that returns has put every tensor of the graph into the levels   *)
(* once and every operator into the order once.                            *)
THEOREM SortReturnsComplete ==
  ASSUME \A g \in Graphs : IsInjective(g[1])
  PROVE  SafetySpec => []ReturnsCompleteSchedule
<1>1. Init => OrderInv
  BY OrderInvInit
<1> QED
  BY <1>1, OrderInvStep, OrderInvComplete, PTL DEF SafetySpec

-----------------------------------------------------------------------------
(* What the groups and the largest layer are while tensors are retired.    *)
GroupsFollowOrder ==
  \A l \in LayerIds :
    /\ Range(layer_groups[l]) = {t \in Range(execution_order) : layer_id[t] = l}
    /\ \A m, n \in DOMAIN layer_groups[l] :
         m < n => \E i, j \in DOMAIN execution_order :
                    /\ i < j
                    /\ execution_order[i] = layer_groups[l][m]
                    /\ execution_order[j] = layer_groups[l][n]

MaxLayerIsRetired ==
  /\ phase = "entry" => max_layer = -1
  /\ phase # "entry" =>
       /\ \A t \in Retired : layer_id[t] <= max_layer
       /\ max_layer \in {layer_id[t] : t \in Retired} \cup {-1}

GroupInv ==
  /\ OrderInv
  /\ GroupsFollowOrder
  /\ MaxLayerIsRetired

LEMMA GroupInvCutsUp == GroupInv => GroupsCutUpOrder
<1> SUFFICES ASSUME GroupInv PROVE GroupsCutUpOrder
  OBVIOUS
<1>1. phase # "retire" =>
        /\ phase = "entry" => Stored = {}
        /\ phase # "entry" => Retired = Stored
  BY DEF GroupInv, OrderInv, SortInv, RetiredInLevels
<1> QED
  BY <1>1 DEF GroupInv, GroupsFollowOrder, MaxLayerIsRetired, GroupsCutUpOrder

(* A schedule that has just been emptied has nothing to group.             *)
LEMMA EmptyGroups ==
  ASSUME execution_order = <<>>, layer_groups = [l \in LayerIds |-> <<>>]
  PROVE  GroupsFollowOrder
BY DEF GroupsFollowOrder, Range

LEMMA GroupInvInit ==
  ASSUME \A g \in Graphs : IsInjective(g[1])
  PROVE  Init => GroupInv
<1> SUFFICES ASSUME Init PROVE GroupInv
  OBVIOUS
<1>1. OrderInv
  BY OrderInvInit
<1>2. GroupsFollowOrder
  BY EmptyGroups DEF Init
<1> QED
  BY <1>1, <1>2 DEF Init, GroupInv, MaxLayerIsRetired

LEMMA RetireTensorGroups ==
  ASSUME GroupInv, OrderInv', RetireTensor
  PROVE  GroupInv'
<1>1. /\ TypeOK /\ TypeOK' /\ SortInv /\ SortInv' /\ OrderInv
  BY DEF GroupInv, OrderInv, SortInv
<1>2. /\ UNCHANGED inputs /\ UNCHANGED layer_id
      /\ phase = "retire" /\ phase' = "retire" /\ cursor' = cursor + 1
      /\ cursor <= Len(level) /\ UNCHANGED level /\ UNCHANGED execution_levels
  BY DEF RetireTensor, inputs
<1>3. PICK t : t = level[cursor]
  OBVIOUS
<1>4. /\ cursor \in Nat \ {0} /\ cursor \in DOMAIN level /\ level \in Seq(InGraph)
      /\ execution_order \in Seq(InGraph) /\ layer_groups \in [LayerIds -> Seq(InGraph)]
      /\ layer_id \in [Tensor -> LayerIds] /\ max_layer \in LayerIds \cup {-1}
  BY <1>1, <1>2 DEF TypeOK
<1>5. t \in InGraph /\ t \in Tensor /\ layer_id[t] \in LayerIds
  BY <1>1, <1>3, <1>4 DEF TypeOK, InGraph, Range
<1>6. Retired' = Retired \cup {t}
  <2>1. {level'[n] : n \in 1 .. cursor' - 1} = {level[n] : n \in 1 .. cursor - 1} \cup {t}
    <3>1. 1 .. cursor' - 1 = (1 .. cursor - 1) \cup {cursor}
      BY <1>2, <1>4
    <3> QED
      BY <1>2, <1>3, <3>1
  <2>2. Stored' = Stored
    BY <1>2 DEF Stored
  <2> QED
    BY <1>1, <1>2, <2>1, <2>2 DEF SortInv, RetiredInLevels
<1>7. MaxLayerIsRetired'
  <2>1. max_layer' = IF layer_id[t] > max_layer THEN layer_id[t] ELSE max_layer
    BY <1>3 DEF RetireTensor, HighestLayer
  <2>2. /\ \A u \in Retired : layer_id[u] <= max_layer /\ layer_id[u] \in Int
        /\ max_layer \in {layer_id[u] : u \in Retired} \cup {-1}
        /\ max_layer \in Int /\ layer_id[t] \in Int
    <3>1. Retired \subseteq Tensor
      BY <1>1 DEF Retired, InGraph, Range, TypeOK
    <3>2. \A u \in Retired : layer_id[u] <= max_layer
      BY <1>2 DEF GroupInv, MaxLayerIsRetired
    <3>3. max_layer \in {layer_id[u] : u \in Retired} \cup {-1}
      BY <1>2 DEF GroupInv, MaxLayerIsRetired
    <3>4. \A u \in Tensor : layer_id[u] \in Int
      BY <1>4, LayerIdsAreInts
    <3>5. max_layer \in Int
      BY <1>4, LayerIdsAreInts
    <3> QED
      BY <1>5, <3>1, <3>2, <3>3, <3>4, <3>5
  <2> QED
    BY <1>2, <1>6, <2>1, <2>2 DEF MaxLayerIsRetired
<1>8. GroupsFollowOrder'
  <2>1. CASE ~IsOperator(t)
    <3>1. UNCHANGED <<execution_order, layer_groups>>
      BY <1>3, <2>1, Zenon DEF RetireTensor
    <3> QED
      BY <1>2, <3>1 DEF GroupInv, GroupsFollowOrder
  <2>2. CASE IsOperator(t)
    <3>1. /\ execution_order' = Append(execution_order, t)
          /\ layer_groups' = [layer_groups EXCEPT ![layer_id[t]] = Append(@, t)]
      BY <1>3, <2>2, Zenon DEF RetireTensor
    <3>2. /\ Len(execution_order) \in Nat
          /\ DOMAIN execution_order = 1 .. Len(execution_order)
          /\ DOMAIN execution_order' = 1 .. Len(execution_order) + 1
          /\ \A i \in 1 .. Len(execution_order) : execution_order'[i] = execution_order[i]
          /\ execution_order'[Len(execution_order) + 1] = t
      BY <1>4, <1>5, <3>1, AppendProperties
    <3>3. Range(execution_order') = Range(execution_order) \cup {t}
      BY <3>2 DEF Range
    <3> SUFFICES ASSUME NEW l \in LayerIds
                 PROVE  /\ Range(layer_groups'[l])
                             = {u \in Range(execution_order') : layer_id[u] = l}
                        /\ \A m, n \in DOMAIN layer_groups'[l] :
                             m < n => \E i, j \in DOMAIN execution_order' :
                                        /\ i < j
                                        /\ execution_order'[i] = layer_groups'[l][m]
                                        /\ execution_order'[j] = layer_groups'[l][n]
      BY <1>2 DEF GroupsFollowOrder
    <3>4. /\ Range(layer_groups[l]) = {u \in Range(execution_order) : layer_id[u] = l}
          /\ \A m, n \in DOMAIN layer_groups[l] :
               m < n => \E i, j \in DOMAIN execution_order :
                          /\ i < j
                          /\ execution_order[i] = layer_groups[l][m]
                          /\ execution_order[j] = layer_groups[l][n]
      BY DEF GroupInv, GroupsFollowOrder
    <3>5. CASE l # layer_id[t]
      <4>1. layer_groups'[l] = layer_groups[l]
        BY <1>4, <3>1, <3>5
      <4> QED
        BY <3>2, <3>3, <3>4, <3>5, <4>1
    <3>6. CASE l = layer_id[t]
      <4> DEFINE g == layer_groups[l]
                 h == layer_groups'[l]
      <4>1. h = Append(g, t) /\ g \in Seq(InGraph)
        BY <1>4, <3>1, <3>6
      <4>2. /\ Len(g) \in Nat /\ DOMAIN g = 1 .. Len(g) /\ DOMAIN h = 1 .. Len(g) + 1
            /\ \A n \in 1 .. Len(g) : h[n] = g[n]
            /\ h[Len(g) + 1] = t
        BY <1>5, <4>1, AppendProperties
      <4>3. Range(h) = Range(g) \cup {t}
        BY <4>2 DEF Range
      <4>4. ASSUME NEW m \in DOMAIN h, NEW n \in DOMAIN h, m < n
            PROVE  \E i, j \in DOMAIN execution_order' :
                     /\ i < j
                     /\ execution_order'[i] = h[m]
                     /\ execution_order'[j] = h[n]
        <5>1. m \in DOMAIN g /\ h[m] = g[m]
          BY <4>2, <4>4
        <5>2. CASE n \in DOMAIN g
          BY <3>2, <3>4, <4>2, <4>4, <5>1, <5>2
        <5>3. CASE n = Len(g) + 1
          <6>1. g[m] \in Range(execution_order)
            BY <3>4, <5>1 DEF Range
          <6>2. PICK i \in DOMAIN execution_order : execution_order[i] = g[m]
            BY <6>1 DEF Range
          <6>3. /\ i < Len(execution_order) + 1
                /\ i \in DOMAIN execution_order'
                /\ Len(execution_order) + 1 \in DOMAIN execution_order'
            BY <3>2
          <6> QED
            BY <3>2, <4>2, <5>1, <5>3, <6>2, <6>3
        <5> QED
          BY <4>2, <5>2, <5>3
      <4> QED
        BY <3>3, <3>4, <3>6, <4>3, <4>4
    <3> QED
      BY <3>5, <3>6
  <2> QED
    BY <2>1, <2>2
<1> QED
  BY <1>7, <1>8 DEF GroupInv

LEMMA GroupInvStep == GroupInv /\ [Next]_vars => GroupInv'
<1> SUFFICES ASSUME GroupInv, [Next]_vars PROVE GroupInv'
  OBVIOUS
<1>1. OrderInv /\ OrderInv' /\ SortInv'
  BY OrderInvStep DEF GroupInv, OrderInv
<1>2. CASE BeginSort
  <2>1. GroupsFollowOrder'
    BY <1>2 DEF BeginSort, GroupsFollowOrder, Range
  <2>2. Retired' = {}
    <3>1. Stored' = {}
      BY <1>2 DEF BeginSort, Stored
    <3> QED
      BY <1>1, <1>2, <3>1 DEF BeginSort, SortInv, RetiredInLevels
  <2> QED
    BY <1>1, <1>2, <2>1, <2>2 DEF BeginSort, GroupInv, MaxLayerIsRetired
<1>3. CASE RetireTensor
  BY <1>1, <1>3, RetireTensorGroups
<1>4. CASE CollectLevel \/ StoreLevel \/ LeaveLoop \/ UNCHANGED vars
  <2>1. /\ UNCHANGED <<inputs, in_degree, execution_order, layer_groups, max_layer>>
        /\ (phase # "entry" /\ phase' # "entry") \/ UNCHANGED phase
    BY <1>4 DEF CollectLevel, StoreLevel, LeaveLoop, vars, locals, results
  <2>2. UNCHANGED layer_id /\ Retired' = Retired
    BY <2>1, GraphStays DEF Retired, inputs
  <2> QED
    BY <1>1, <2>1, <2>2 DEF GroupInv, GroupsFollowOrder, MaxLayerIsRetired
<1> QED
  BY <1>2, <1>3, <1>4 DEF Next, SortStep

(* The groups by layer are the order of operators cut up, and max_layer is *)
(* the largest layer id that the levels hold.                              *)
THEOREM SortGroupsCutUpOrder ==
  ASSUME \A g \in Graphs : IsInjective(g[1])
  PROVE  SafetySpec => []GroupsCutUpOrder
<1>1. Init => GroupInv
  BY GroupInvInit
<1> QED
  BY <1>1, GroupInvStep, GroupInvCutsUp, PTL DEF SafetySpec

=============================================================================
