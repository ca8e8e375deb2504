-------------------------- MODULE ComputeGraphProofs --------------------------
(***************************************************************************)
(* Proofs about one ComputeGraph object and its client (module             *)
(* ComputeGraph), for every number of tensors, source slots, layers and    *)
(* outputs and every sequence of calls.  The sort's own proofs are used    *)
(* through an instance; that no tensor is listed twice, which they assume, *)
(* is here a consequence of the ownership contract.                        *)
(***************************************************************************)
EXTENDS ComputeGraph, FiniteSetTheorems, SequenceTheorems, WellFoundedInduction,
        TLAPS

SortFacts == INSTANCE TopologicalSortProofs
  WITH Kinds  <- TensorKinds,
       Graphs <- Seq(Tensor) \X [Tensor -> [Slot -> Tensor \cup {NULL}]]
                   \X [Tensor -> LayerIds] \X [Tensor -> TensorKinds]

InSort == phase \in {"entry", "collect", "retire", "done", "thrown"}

NoSchedule ==
  /\ execution_levels = <<>> /\ execution_order = <<>>
  /\ layer_groups = [l \in LayerIds |-> <<>>]
  /\ max_layer = -1

(* The pointers of t lead to tensors that may be read. *)
SourcesAlive(t) == Range(src[t]) \subseteq Live \cup {NULL}

(* Only the search meets an undefined step, and it is a null pointer. *)
FaultIsNull == fault # "none" => fault = "null" /\ phase = "search"

OwnedAlive ==
  phase # "destroyed" /\ fault = "none" =>
    /\ Owned \subseteq Live
    /\ IsInjective(all_tensors)
    /\ \A t \in Owned : SourcesAlive(t)

OutputsAlive ==
  phase # "destroyed" => Range(external_outputs) \subseteq Live \cup {NULL}

(* What the search has yet to visit is alive, distinct and not collected;  *)
(* and it has been marked visited.                                         *)
SearchSound ==
  phase = "search" /\ fault = "none" =>
    /\ IsInjective(queue)
    /\ Range(queue) \subseteq (Live \cup {NULL}) \cap visited
    /\ Range(queue) \cap Owned = {}
    /\ Owned \subseteq visited
    /\ \A t \in Range(queue) \ {NULL} : SourcesAlive(t)

LocalsGone ==
  ~InSort => in_degree = <<>> /\ level = <<>> /\ cursor = 1 /\ count = 0

GraphInv ==
  /\ TypeOK
  /\ FaultIsNull
  /\ OwnedAlive
  /\ OutputsAlive
  /\ SearchSound
  /\ LocalsGone
  /\ phase = "search" => NoSchedule
  /\ InSort => SortFacts!GroupInv
  /\ Scheduled \subseteq Owned
  /\ SortedScheduleIsCurrent
  /\ ThrowLeavesTheCycle

-----------------------------------------------------------------------------
(* A set of natural numbers has a least member, and what holds of 0 and is *)
(* passed on from each number to the next holds of all.                    *)
LEMMA LeastMember ==
  ASSUME NEW T \in SUBSET Nat, T # {}
  PROVE  \E m \in T : \A n \in T : m <= n
<1>1. IsWellFoundedOn(OpToRel(<, Nat), Nat)
  BY NatLessThanWellFounded
<1>2. PICK m \in T : \A n \in T : ~(<<n, m>> \in OpToRel(<, Nat))
  BY <1>1, WFMin
<1>3. \A n \in T : ~(n < m)
  BY <1>2 DEF OpToRel
<1>4. \A n \in T : n \in Nat
  OBVIOUS
<1>5. \A n \in T : m <= n
  BY <1>3, <1>4
<1> QED
  BY <1>2, <1>5

LEMMA Induction ==
  ASSUME NEW T, 0 \in T, \A n \in Nat : n \in T => n + 1 \in T
  PROVE  \A n \in Nat : n \in T
<1> SUFFICES ASSUME Nat \ T # {} PROVE FALSE
  OBVIOUS
<1>1. PICK m \in Nat \ T : \A n \in Nat \ T : m <= n
  BY LeastMember
<1>2. m - 1 \in Nat /\ m - 1 \in T
  BY <1>1
<1> QED
  BY <1>1, <1>2

(* The seeds are the outputs that are no null, each once.  The function    *)
(* that Seeds recurses on exists, being built up argument by argument.     *)
LEMMA SeedsAreOutputs ==
  ASSUME NEW outputs \in Seq(Tensor \cup {NULL})
  PROVE  /\ Seeds(outputs) \in Seq(Tensor \cup {NULL})
         /\ IsInjective(Seeds(outputs))
         /\ Range(Seeds(outputs)) = Range(outputs) \ {NULL}
<1> DEFINE Step(q, n) ==
             IF outputs[n] \in {NULL} \cup Range(q) THEN q ELSE Append(q, outputs[n])
           IsSeed(f, N) ==
             f = [n \in 0 .. N |-> IF n = 0 THEN <<>> ELSE Step(f[n - 1], n)]
           Recursed == {N \in Nat : \E f : IsSeed(f, N)}
           seed == CHOOSE f : IsSeed(f, Len(outputs))
           Sound(q, n) ==
             /\ q \in Seq(Tensor \cup {NULL})
             /\ IsInjective(q)
             /\ Range(q) = {outputs[m] : m \in 1 .. n} \ {NULL}
           Good == {n \in Nat : n <= Len(outputs) => Sound(seed[n], n)}
<1>1. Seeds(outputs) = seed[Len(outputs)]
  BY DEF Seeds
<1>2. Len(outputs) \in Nat /\ DOMAIN outputs = 1 .. Len(outputs)
  OBVIOUS
<1>3. \A N \in Nat : N \in Recursed
  <2>1. 0 \in Recursed
    <3>1. IsSeed([n \in 0 .. 0 |-> <<>>], 0)
      OBVIOUS
    <3> QED
      BY <3>1
  <2>2. ASSUME NEW N \in Nat, N \in Recursed PROVE N + 1 \in Recursed
    <3> HIDE DEF Step
    <3>1. PICK f : IsSeed(f, N)
      BY <2>2
    <3> DEFINE g == [n \in 0 .. N + 1 |-> IF n = N + 1 THEN Step(f[N], N + 1) ELSE f[n]]
    <3>2. g = [n \in 0 .. N + 1 |-> IF n = 0 THEN <<>> ELSE Step(g[n - 1], n)]
      <4> SUFFICES ASSUME NEW n \in 0 .. N + 1
                   PROVE  g[n] = IF n = 0 THEN <<>> ELSE Step(g[n - 1], n)
        OBVIOUS
      <4>1. CASE n = N + 1
        BY <4>1
      <4>2. CASE n # N + 1
        <5>1. n \in 0 .. N /\ g[n] = f[n]
          BY <4>2
        <5>2. n # 0 => g[n - 1] = f[n - 1]
          BY <5>1
        <5> QED
          BY <3>1, <5>1, <5>2
      <4> QED
        BY <4>1, <4>2
    <3>3. IsSeed(g, N + 1)
      BY <3>2
    <3> HIDE DEF IsSeed, g
    <3>4. \E h : IsSeed(h, N + 1)
      BY <3>3
    <3> QED
      BY <3>4
  <2> HIDE DEF Recursed
  <2> QED
    BY <2>1, <2>2, Induction
<1>4. IsSeed(seed, Len(outputs))
  <2>1. Len(outputs) \in Recursed
    BY <1>2, <1>3
  <2>2. \E f : IsSeed(f, Len(outputs))
    BY <2>1
  <2> QED
    BY <2>2
<1> HIDE DEF seed
<1>5. seed[0] = <<>>
  BY <1>2, <1>4
<1>6. ASSUME NEW n \in 1 .. Len(outputs) PROVE seed[n] = Step(seed[n - 1], n)
  <2>1. n \in 0 .. Len(outputs) /\ n # 0
    BY <1>2
  <2> HIDE DEF Step
  <2> QED
    BY <1>4, <2>1
<1>7. 0 \in Good
  <2>1. Sound(<<>>, 0)
    BY DEF IsInjective, Range
  <2> QED
    BY <1>5, <2>1
<1>8. ASSUME NEW n \in Nat, n \in Good PROVE n + 1 \in Good
  <2> SUFFICES ASSUME n + 1 <= Len(outputs) PROVE Sound(seed[n + 1], n + 1)
    OBVIOUS
  <2> DEFINE q == seed[n]
             t == outputs[n + 1]
  <2>1. n + 1 \in 1 .. Len(outputs) /\ (n + 1) - 1 = n
    BY <1>2
  <2>2. seed[n + 1] = IF t \in {NULL} \cup Range(q) THEN q ELSE Append(q, t)
    BY <1>6, <2>1
  <2>3. Sound(q, n)
    BY <1>2, <1>8
  <2>4. t \in Tensor \cup {NULL}
    BY <2>1
  <2>5. {outputs[m] : m \in 1 .. n + 1} = {outputs[m] : m \in 1 .. n} \cup {t}
    <3>1. 1 .. n + 1 = (1 .. n) \cup {n + 1}
      OBVIOUS
    <3> QED
      BY <3>1
  <2> HIDE DEF q, t
  <2>6. CASE t \in {NULL} \cup Range(q)
    BY <2>2, <2>3, <2>5, <2>6
  <2>7. CASE t \notin {NULL} \cup Range(q)
    <3> DEFINE r == Append(q, t)
    <3>1. /\ r \in Seq(Tensor \cup {NULL})
          /\ Len(q) \in Nat /\ DOMAIN q = 1 .. Len(q) /\ DOMAIN r = 1 .. Len(q) + 1
          /\ \A i \in 1 .. Len(q) : r[i] = q[i]
          /\ r[Len(q) + 1] = t
      BY <2>3, <2>4, AppendProperties
    <3> HIDE DEF r
    <3>2. IsInjective(r)
      BY <2>3, <2>7, <3>1 DEF IsInjective, Range
    <3>3. Range(r) = Range(q) \cup {t}
      BY <3>1 DEF Range
    <3> QED
      BY <2>2, <2>3, <2>5, <2>7, <3>1, <3>2, <3>3 DEF r
  <2> QED
    BY <2>6, <2>7
<1>9. \A n \in Nat : n \in Good
  <2> HIDE DEF Good
  <2> QED
    BY <1>7, <1>8, Induction
<1>10. Sound(seed[Len(outputs)], Len(outputs))
  <2>1. Len(outputs) <= Len(outputs)
    BY <1>2
  <2> HIDE DEF Sound
  <2>2. Len(outputs) \in Good => Sound(seed[Len(outputs)], Len(outputs))
    BY <2>1
  <2> HIDE DEF Good
  <2> QED
    BY <1>2, <1>9, <2>2
<1> QED
  BY <1>1, <1>2, <1>10 DEF Range

-----------------------------------------------------------------------------
(* The instance the model runs and the one the lemmas are about are one,   *)
(* and so are the operators they take from the libraries.                  *)
LEMMA SameRange == \A f : Sort!Range(f) = Range(f) /\ SortFacts!Range(f) = Range(f)
BY DEF Range, Sort!Range, SortFacts!Range

LEMMA SameInjective ==
  \A f : /\ Sort!IsInjective(f) <=> IsInjective(f)
         /\ SortFacts!IsInjective(f) <=> IsInjective(f)
BY DEF IsInjective, Sort!IsInjective, SortFacts!IsInjective

LEMMA SameCardinality == \A S : Sort!Cardinality(S) = SortFacts!Cardinality(S)
BY DEF Sort!Cardinality, SortFacts!Cardinality

LEMMA SameBijection == \A S, T : Sort!Bijection(S, T) = SortFacts!Bijection(S, T)
BY DEF Sort!Bijection, SortFacts!Bijection, Sort!Injection, SortFacts!Injection,
       Sort!Surjection, SortFacts!Surjection, Sort!IsInjective, SortFacts!IsInjective

LEMMA SameSort ==
  /\ Sort!SortStep => [SortFacts!Next]_SortFacts!vars
  /\ Sort!SortStep => SortFacts!SortStep
  /\ Sort!Stored = SortFacts!Stored
  /\ \A t : Sort!IsOperator(t) = SortFacts!IsOperator(t)
  /\ Sort!SourcesInEarlierLevels <=> SortFacts!SourcesInEarlierLevels
  /\ Sort!OrderRespectsDependencies <=> SortFacts!OrderRespectsDependencies
  /\ Sort!GroupsCutUpOrder <=> SortFacts!GroupsCutUpOrder
  /\ Sort!InGraph = Owned /\ SortFacts!InGraph = Owned
  /\ \A t : Sort!Sources(t) = SortFacts!Sources(t)
<1>1. /\ Sort!InGraph = SortFacts!InGraph
      /\ Sort!InGraph = Owned
      /\ \A t : Sort!Incoming(t) = SortFacts!Incoming(t)
      /\ \A s, t : Sort!Forward(s, t) = SortFacts!Forward(s, t)
      /\ \A t : Sort!IsOperator(t) = SortFacts!IsOperator(t)
      /\ \A t : Sort!Sources(t) = SortFacts!Sources(t)
      /\ Sort!Stored = SortFacts!Stored
      /\ Sort!Ready = SortFacts!Ready
      /\ \A P : Sort!Sorted(P) = SortFacts!Sorted(P)
      /\ \A t : Sort!HighestLayer(t) = SortFacts!HighestLayer(t)
      /\ \A d, k : Sort!Decremented(d, k) = SortFacts!Decremented(d, k)
      /\ Sort!inputs = SortFacts!inputs /\ Sort!results = SortFacts!results
      /\ Sort!InDegrees = SortFacts!InDegrees
  BY SameRange, SameCardinality, SameBijection
     DEF Sort!InGraph, SortFacts!InGraph, Owned, Sort!Incoming, SortFacts!Incoming,
         Sort!Forward, SortFacts!Forward, Sort!IsOperator, SortFacts!IsOperator,
         Sort!Sources, SortFacts!Sources, Sort!Stored, SortFacts!Stored,
         Sort!Ready, SortFacts!Ready, Sort!Sorted, SortFacts!Sorted,
         Sort!HighestLayer, SortFacts!HighestLayer,
         Sort!Decremented, SortFacts!Decremented, Sort!inputs, SortFacts!inputs,
         Sort!results, SortFacts!results, Sort!InDegrees, SortFacts!InDegrees,
         Sort!Slot, SortFacts!Slot
<1>2. Sort!BeginSort => SortFacts!BeginSort
  BY <1>1 DEF Sort!BeginSort, SortFacts!BeginSort, Sort!inputs, SortFacts!inputs
<1>3. Sort!CollectLevel => SortFacts!CollectLevel
  BY <1>1 DEF Sort!CollectLevel, SortFacts!CollectLevel, Sort!inputs, SortFacts!inputs,
              Sort!results, SortFacts!results
<1>4. Sort!RetireTensor => SortFacts!RetireTensor
  BY SameRange, SameCardinality, <1>1 DEF Sort!RetireTensor, SortFacts!RetireTensor, Sort!inputs, SortFacts!inputs
<1>5. Sort!StoreLevel => SortFacts!StoreLevel
  BY <1>1 DEF Sort!StoreLevel, SortFacts!StoreLevel, Sort!inputs, SortFacts!inputs
<1>6. Sort!LeaveLoop => SortFacts!LeaveLoop
  BY <1>1 DEF Sort!LeaveLoop, SortFacts!LeaveLoop, Sort!inputs, SortFacts!inputs,
              Sort!results, SortFacts!results
<1>7. Sort!SortStep => SortFacts!SortStep
  BY <1>2, <1>3, <1>4, <1>5, <1>6 DEF Sort!SortStep, SortFacts!SortStep
<1>8. Sort!SourcesInEarlierLevels <=> SortFacts!SourcesInEarlierLevels
  BY SameRange, SameCardinality, <1>1 DEF Sort!SourcesInEarlierLevels, SortFacts!SourcesInEarlierLevels
<1>9. \A u, t : Sort!DependsOn(u, t) <=> SortFacts!DependsOn(u, t)
  BY <1>1 DEF Sort!DependsOn, SortFacts!DependsOn
<1>10. Sort!OrderRespectsDependencies <=> SortFacts!OrderRespectsDependencies
  BY <1>9 DEF Sort!OrderRespectsDependencies, SortFacts!OrderRespectsDependencies
<1>11. Sort!GroupsCutUpOrder <=> SortFacts!GroupsCutUpOrder
  BY SameRange, SameCardinality, <1>1 DEF Sort!GroupsCutUpOrder, SortFacts!GroupsCutUpOrder
<1> QED
  BY <1>1, <1>7, <1>8, <1>10, <1>11 DEF SortFacts!Next

(* What the lemmas about the sort assume of its constants.                 *)
LEMMA SortConstants ==
  /\ NULL \notin Tensor
  /\ TENSOR_MAX_SRC \in Nat
  /\ LayerIds \subseteq Int
  /\ Seq(Tensor) \X [Tensor -> [Slot -> Tensor \cup {NULL}]]
       \X [Tensor -> LayerIds] \X [Tensor -> TensorKinds]
     \subseteq Seq(Tensor) \X [Tensor -> [SortFacts!Slot -> Tensor \cup {NULL}]]
       \X [Tensor -> LayerIds] \X [Tensor -> TensorKinds]
BY NullIsNoTensor, MaxSrcIsNat, LayerIdsAreInts DEF Slot, SortFacts!Slot

LEMMA SortStepKeeps == SortFacts!GroupInv /\ Sort!SortStep => SortFacts!GroupInv'
BY SameSort, SortFacts!GroupInvStep, SortConstants

-----------------------------------------------------------------------------
(* A sort that begins finds what its own proofs ask for.                   *)
SortMayBegin ==
  /\ all_tensors \in Seq(Tensor) /\ IsInjective(all_tensors)
  /\ src \in [Tensor -> [Slot -> Tensor \cup {NULL}]]
  /\ layer_id \in [Tensor -> LayerIds]
  /\ kind \in [Tensor -> TensorKinds]
  /\ phase = "entry" /\ in_degree = <<>> /\ level = <<>> /\ cursor = 1 /\ count = 0
  /\ NoSchedule

LEMMA EntryIsSound == SortMayBegin => SortFacts!GroupInv
<1> SUFFICES ASSUME all_tensors \in Seq(Tensor), IsInjective(all_tensors),
                    src \in [Tensor -> [Slot -> Tensor \cup {NULL}]],
                    layer_id \in [Tensor -> LayerIds],
                    kind \in [Tensor -> TensorKinds],
                    phase = "entry", in_degree = <<>>, level = <<>>,
                    cursor = 1, count = 0, NoSchedule
             PROVE  SortFacts!GroupInv
  BY DEF SortMayBegin
<1>1. SortFacts!TypeOK
  <2>1. /\ <<>> \in Seq(SortFacts!InGraph)
        /\ <<>> \in Seq(Seq(SortFacts!InGraph))
    OBVIOUS
  <2> QED
    BY <2>1 DEF SortFacts!TypeOK, NoSchedule, Slot, SortFacts!Slot
<1>2. SortFacts!Stored = {}
  BY DEF SortFacts!Stored, NoSchedule
<1>3. SortFacts!SortInv
  <2>1. SortFacts!IsInjective(all_tensors)
    BY SameInjective
  <2> QED
    BY <1>1, <1>2, <2>1
    DEF SortFacts!SortInv, SortFacts!CountersExact, SortFacts!RetiredInLevels,
        SortFacts!LevelIsWave, SortFacts!CountIsRetired, SortFacts!VerdictBacked,
        SortFacts!SourcesInEarlierLevels, NoSchedule
<1>4. SortFacts!OrderInv
  BY <1>2, <1>3
  DEF SortFacts!OrderInv, SortFacts!LevelsAreWaves, SortFacts!OrderIsRetired,
      SortFacts!OrderClimbs, SortFacts!TrapsIntact, SortFacts!IsInjective, NoSchedule
<1>5. SortFacts!GroupsFollowOrder
  BY SortFacts!EmptyGroups, SortConstants DEF NoSchedule
<1> QED
  BY <1>4, <1>5 DEF SortFacts!GroupInv, SortFacts!MaxLayerIsRetired, NoSchedule

(* While the sort runs, what is scheduled is owned.                        *)
LEMMA SortSchedulesOwned ==
  SortFacts!GroupInv =>
    /\ Scheduled \subseteq Owned
    /\ execution_levels \in Seq(Seq(Tensor))
    /\ execution_order \in Seq(Tensor)
    /\ layer_groups \in [LayerIds -> Seq(Tensor)]
    /\ max_layer \in LayerIds
    /\ all_tensors \in Seq(Tensor)
    /\ IsInjective(all_tensors)
<1> SUFFICES ASSUME SortFacts!GroupInv
             PROVE  /\ Scheduled \subseteq Owned
                    /\ execution_levels \in Seq(Seq(Tensor))
                    /\ execution_order \in Seq(Tensor)
                    /\ layer_groups \in [LayerIds -> Seq(Tensor)]
                    /\ max_layer \in LayerIds
                    /\ all_tensors \in Seq(Tensor)
                    /\ IsInjective(all_tensors)
  OBVIOUS
<1>1. SortFacts!TypeOK /\ IsInjective(all_tensors)
  BY SameInjective DEF SortFacts!GroupInv, SortFacts!OrderInv, SortFacts!SortInv
<1>2. /\ execution_levels \in Seq(Seq(Owned))
      /\ execution_order \in Seq(Owned)
      /\ layer_groups \in [LayerIds -> Seq(Owned)]
      /\ max_layer \in LayerIds
      /\ all_tensors \in Seq(Tensor)
  BY <1>1, SameSort, LayerIdsAreInts DEF SortFacts!TypeOK
<1>3. Owned \subseteq Tensor
  BY <1>2 DEF Owned, Range
<1>4. Seq(Owned) \subseteq Seq(Tensor)
  BY <1>3, SeqMonotonic
<1>5. Seq(Seq(Owned)) \subseteq Seq(Seq(Tensor))
  BY <1>4, SeqMonotonic
<1>6. Scheduled \subseteq Owned
  <2>1. \A s \in Seq(Owned) : Range(s) \subseteq Owned
    BY DEF Range
  <2>2. \A k \in DOMAIN execution_levels : execution_levels[k] \in Seq(Owned)
    BY <1>2
  <2>3. Sort!Stored \subseteq Owned
    BY <2>1, <2>2, SameRange DEF Sort!Stored
  <2>4. \A l \in LayerIds : Range(layer_groups[l]) \subseteq Owned
    BY <1>2, <2>1
  <2> QED
    BY <1>2, <2>1, <2>3, <2>4 DEF Scheduled
<1>7. layer_groups \in [LayerIds -> Seq(Tensor)]
  BY <1>2, <1>4
<1> QED
  BY <1>1, <1>2, <1>4, <1>5, <1>6, <1>7

(* The schedule speaks of the graph as it is. *)
CurrentSchedule ==
  /\ Sort!Stored = Owned
  /\ Sort!SourcesInEarlierLevels
  /\ Range(execution_order) = {t \in Owned : Sort!IsOperator(t)}
  /\ IsInjective(execution_order)
  /\ Sort!OrderRespectsDependencies
  /\ Sort!GroupsCutUpOrder

LEMMA DoneIsCurrent == SortFacts!GroupInv /\ phase = "done" => CurrentSchedule
<1> SUFFICES ASSUME SortFacts!GroupInv, phase = "done" PROVE CurrentSchedule
  OBVIOUS
<1>1. SortFacts!OrderInv /\ SortFacts!SortInv
  BY DEF SortFacts!GroupInv, SortFacts!OrderInv
<1>2. SortFacts!Stored = Owned
  BY <1>1, SameSort DEF SortFacts!SortInv, SortFacts!VerdictBacked
<1>3. SortFacts!Retired = Owned
  BY <1>1, <1>2 DEF SortFacts!SortInv, SortFacts!RetiredInLevels
<1>4. /\ Range(execution_order) = {t \in Owned : Sort!IsOperator(t)}
      /\ IsInjective(execution_order)
  BY <1>1, <1>3, SameSort, SameRange, SameInjective
  DEF SortFacts!OrderInv, SortFacts!OrderIsRetired
<1>5. SortFacts!SourcesInEarlierLevels
  BY <1>1 DEF SortFacts!SortInv
<1>6. SortFacts!OrderRespectsDependencies
  BY <1>1, SortFacts!OrderInvRespects, SortConstants
<1>7. SortFacts!GroupsCutUpOrder
  BY SortFacts!GroupInvCutsUp, SortConstants
<1> QED
  BY <1>2, <1>4, <1>5, <1>6, <1>7, SameSort DEF CurrentSchedule

LEMMA ThrownIsCyclic == SortFacts!GroupInv /\ phase = "thrown" => Sort!Schedule!Cyclic
<1> SUFFICES ASSUME SortFacts!GroupInv, phase = "thrown" PROVE Sort!Schedule!Cyclic
  OBVIOUS
<1>1. SortFacts!Stored # SortFacts!InGraph /\ SortFacts!Wave = {}
  BY DEF SortFacts!GroupInv, SortFacts!OrderInv, SortFacts!SortInv, SortFacts!VerdictBacked
<1>2. SortFacts!Stored \subseteq Owned
  BY SortSchedulesOwned, SameSort DEF Scheduled
<1> DEFINE rest == Owned \ SortFacts!Stored
<1>3. rest # {}
  BY <1>1, <1>2, SameSort
<1>4. ASSUME NEW n \in rest PROVE Sort!Sources(n) \cap rest # {}
  <2>1. ~(SortFacts!Sources(n) \subseteq SortFacts!Stored)
    BY <1>1, <1>4, SameSort DEF SortFacts!Wave
  <2>2. SortFacts!Sources(n) \subseteq Owned
    BY SameSort DEF SortFacts!Sources
  <2> QED
    BY <2>1, <2>2, SameSort
<1>5. Sort!Schedule!IsTrap(rest)
  BY <1>3, <1>4, SameSort DEF Sort!Schedule!IsTrap
<1> QED
  BY <1>5, SameSort DEF Sort!Schedule!Cyclic

(* What the schedule is worth is decided by the inputs and the schedule.   *)
LEMMA ScheduleStays ==
  ASSUME UNCHANGED <<inputs, schedule>>, phase # "retire", phase' # "retire"
  PROVE  /\ CurrentSchedule => CurrentSchedule'
         /\ Sort!Schedule!Cyclic => Sort!Schedule!Cyclic'
         /\ Scheduled' = Scheduled
         /\ Owned' = Owned
<1>1. /\ UNCHANGED <<all_tensors, src, layer_id, kind>>
      /\ UNCHANGED <<execution_levels, execution_order, layer_groups, max_layer>>
  BY DEF inputs, schedule
<1>2. /\ Sort!Stored' = Sort!Stored /\ Owned' = Owned
      /\ Sort!InGraph' = Sort!InGraph
      /\ \A t : Sort!IsOperator(t)' = Sort!IsOperator(t)
      /\ \A t : Sort!Sources(t)' = Sort!Sources(t)
  BY <1>1 DEF Sort!Stored, Owned, Sort!InGraph, Sort!IsOperator, Sort!Sources
<1>3. Sort!SourcesInEarlierLevels => Sort!SourcesInEarlierLevels'
  BY <1>1, <1>2 DEF Sort!SourcesInEarlierLevels
<1>4. \A u, t : Sort!DependsOn(u, t)' <=> Sort!DependsOn(u, t)
  BY <1>2 DEF Sort!DependsOn
<1>5. Sort!OrderRespectsDependencies => Sort!OrderRespectsDependencies'
  BY <1>1, <1>4 DEF Sort!OrderRespectsDependencies
<1>6. Sort!GroupsCutUpOrder => Sort!GroupsCutUpOrder'
  BY <1>1, <1>2 DEF Sort!GroupsCutUpOrder
<1>7. \A S : Sort!Schedule!IsTrap(S)' <=> Sort!Schedule!IsTrap(S)
  BY <1>2 DEF Sort!Schedule!IsTrap
<1>8. Sort!Schedule!Cyclic => Sort!Schedule!Cyclic'
  BY <1>2, <1>7 DEF Sort!Schedule!Cyclic
<1>9. Scheduled' = Scheduled
  BY <1>1, <1>2 DEF Scheduled
<1>10. CurrentSchedule => CurrentSchedule'
  BY <1>1, <1>2, <1>3, <1>5, <1>6 DEF CurrentSchedule
<1> QED
  BY <1>2, <1>8, <1>9, <1>10

-----------------------------------------------------------------------------
(* The calls that edit the graph or the tensors and leave no sort to speak *)
(* of: what they have to keep is that what is owned, handed out and        *)
(* scheduled is alive.                                                     *)
LEMMA EditKeeps ==
  ASSUME GraphInv, Idle, TypeOK', phase' = "idle", outcome' = "none",
         fault' = "none", UNCHANGED locals,
         OwnedAlive', OutputsAlive', (Scheduled \subseteq Owned)'
  PROVE  GraphInv'
<1>1. LocalsGone'
  BY DEF GraphInv, LocalsGone, Idle, InSort, locals
<1> QED
  BY <1>1 DEF GraphInv, FaultIsNull, SearchSound, InSort, SortedScheduleIsCurrent,
              ThrowLeavesTheCycle, Idle

LEMMA IdleFacts ==
  ASSUME GraphInv, Idle
  PROVE  /\ TypeOK /\ Owned \subseteq Live /\ IsInjective(all_tensors)
         /\ \A t \in Owned : SourcesAlive(t)
         /\ Range(external_outputs) \subseteq Live \cup {NULL}
         /\ Scheduled \subseteq Owned
         /\ Live \subseteq Tensor /\ NULL \notin Live
         /\ all_tensors \in Seq(Tensor)
<1>1. TypeOK /\ Owned \subseteq Live /\ Live \subseteq Tensor
  BY DEF GraphInv, OwnedAlive, Idle, Live
<1>2. all_tensors \in Seq(Tensor)
  <2>1. \A n \in 1 .. Len(all_tensors) : all_tensors[n] \in Tensor
    BY <1>1 DEF TypeOK, Owned, Range
  <2>2. /\ all_tensors \in [1 .. Len(all_tensors) -> Tensor]
        /\ Len(all_tensors) \in Nat
    BY <1>1, <2>1 DEF TypeOK
  <2> QED
    BY <2>2, SeqDef
<1> QED
  BY <1>1, <1>2, NullIsNoTensor DEF GraphInv, OwnedAlive, OutputsAlive, Idle

LEMMA NewTensorKeeps ==
  ASSUME GraphInv, NEW t \in Tensor, NewTensor(t)
  PROVE  GraphInv'
<1>1. Idle /\ heap[t] = "free" /\ UNCHANGED <<all_tensors, schedule, external_outputs>>
  BY DEF NewTensor
<1>2. TypeOK
  BY DEF GraphInv
<1>3. PICK s \in [Slot -> Live \cup {NULL}] : src' = [src EXCEPT ![t] = s]
  BY DEF NewTensor
<1>4. s \in [Slot -> Tensor \cup {NULL}]
  BY DEF Live
<1>5. /\ heap' = [heap EXCEPT ![t] = "live"]
      /\ Live' = Live \cup {t} /\ t \notin Live
  BY <1>1, <1>2 DEF NewTensor, Live, TypeOK
<1>6. TypeOK'
  <2>1. layer_id' \in [Tensor -> LayerIds] /\ kind' \in [Tensor -> TensorKinds]
    BY <1>2 DEF NewTensor, TypeOK, TensorKinds
  <2>2. src' \in [Tensor -> [Slot -> Tensor \cup {NULL}]]
    BY <1>2, <1>3, <1>4 DEF TypeOK
  <2> QED
    BY <1>2, <1>5, <2>1, <2>2 DEF NewTensor, TypeOK, schedule, search, locals
<1>7. Owned' = Owned /\ Scheduled' = Scheduled
  BY <1>1 DEF Owned, Scheduled, schedule, Sort!Stored
<1>8. OwnedAlive'
  <2>1. \A u \in Owned : src'[u] = src[u]
    BY <1>1, <1>2, <1>3, <1>5, IdleFacts DEF TypeOK
  <2> QED
    BY <1>1, <1>5, <1>7, <2>1, IdleFacts DEF OwnedAlive, SourcesAlive
<1>9. OutputsAlive'
  BY <1>1, <1>5, IdleFacts DEF OutputsAlive
<1> QED
  BY <1>1, <1>6, <1>7, <1>8, <1>9, IdleFacts, EditKeeps DEF NewTensor, Idle

LEMMA SetSourceKeeps ==
  ASSUME GraphInv, NEW t \in Live, NEW i \in Slot, NEW s \in Live \cup {NULL},
         SetSource(t, i, s)
  PROVE  GraphInv'
<1>1. /\ Idle /\ UNCHANGED <<all_tensors, schedule, owner, layer_id, kind>>
      /\ src' = [src EXCEPT ![t][i] = s]
      /\ UNCHANGED <<locals, phase, search, caller, fault>> /\ outcome' = "none"
  BY DEF SetSource
<1>2. TypeOK /\ t \in Tensor /\ s \in Tensor \cup {NULL}
  BY DEF GraphInv, Live
<1>3. /\ src' \in [Tensor -> [Slot -> Tensor \cup {NULL}]]
      /\ \A u \in Tensor : Range(src'[u]) \subseteq Range(src[u]) \cup {s}
  BY <1>1, <1>2 DEF TypeOK, Range
<1>4. TypeOK'
  BY <1>1, <1>2, <1>3 DEF TypeOK, schedule, owner, search, locals
<1>5. Owned' = Owned /\ Scheduled' = Scheduled /\ Live' = Live
  BY <1>1 DEF Owned, Scheduled, schedule, owner, Live, Sort!Stored
<1>6. OwnedAlive'
  BY <1>1, <1>3, <1>5, IdleFacts DEF OwnedAlive, SourcesAlive
<1>7. OutputsAlive'
  BY <1>1, <1>5, IdleFacts DEF OutputsAlive, owner
<1> QED
  BY <1>1, <1>4, <1>5, <1>6, <1>7, IdleFacts, EditKeeps DEF Idle

LEMMA AddTensorKeeps ==
  ASSUME GraphInv, NEW t \in Live, AddTensor(t)
  PROVE  GraphInv'
<1>1. /\ Idle /\ MayAdd(t) /\ all_tensors' = Append(all_tensors, t)
      /\ UNCHANGED <<src, layer_id, kind, locals, phase, schedule, search, owner,
                     caller, fault>>
      /\ outcome' = "none"
  BY DEF AddTensor
<1>2. TypeOK /\ t \in Tensor /\ all_tensors \in Seq(Tensor)
  BY <1>1, IdleFacts DEF Live
<1>3. /\ Len(all_tensors) \in Nat /\ DOMAIN all_tensors = 1 .. Len(all_tensors)
      /\ DOMAIN all_tensors' = 1 .. Len(all_tensors) + 1
      /\ \A n \in 1 .. Len(all_tensors) : all_tensors'[n] = all_tensors[n]
      /\ all_tensors'[Len(all_tensors) + 1] = t
      /\ all_tensors' \in Seq(Tensor \cup {NULL})
  BY <1>1, <1>2, AppendProperties
<1>4. Owned' = Owned \cup {t}
  BY <1>3 DEF Owned, Range
<1>5. IsInjective(all_tensors')
  <2>1. t \notin Range(all_tensors)
    BY <1>1 DEF MayAdd, Owned
  <2> QED
    BY <1>1, <1>3, <2>1, IdleFacts DEF IsInjective, Range
<1>6. TypeOK'
  BY <1>1, <1>2, <1>3 DEF TypeOK, schedule, owner, search, locals
<1>7. Scheduled' = Scheduled /\ Live' = Live
  BY <1>1 DEF Scheduled, schedule, owner, Live, Sort!Stored
<1>8. OwnedAlive'
  BY <1>1, <1>4, <1>5, <1>7, IdleFacts DEF OwnedAlive, SourcesAlive, MayAdd
<1>9. OutputsAlive'
  BY <1>1, <1>7, IdleFacts DEF OutputsAlive, owner
<1> QED
  BY <1>1, <1>4, <1>6, <1>7, <1>8, <1>9, IdleFacts, EditKeeps DEF Idle

LEMMA InsertMemcpyKeeps ==
  ASSUME GraphInv, NEW o \in Live, NEW proxy \in Tensor, InsertMemcpy(o, proxy)
  PROVE  GraphInv'
<1>1. /\ Idle /\ heap[proxy] = "free" /\ heap' = [heap EXCEPT ![proxy] = "live"]
      /\ all_tensors' = Append(all_tensors, proxy)
      /\ src' = [src EXCEPT ![proxy] = [i \in Slot |-> IF i = 0 THEN o ELSE NULL]]
      /\ UNCHANGED <<locals, phase, schedule, search, external_outputs, caller, fault>>
      /\ outcome' = "none"
  BY DEF InsertMemcpy
<1>2. TypeOK /\ all_tensors \in Seq(Tensor) /\ o \in Tensor
  BY <1>1, IdleFacts DEF Live
<1>3. /\ Len(all_tensors) \in Nat /\ DOMAIN all_tensors = 1 .. Len(all_tensors)
      /\ DOMAIN all_tensors' = 1 .. Len(all_tensors) + 1
      /\ \A n \in 1 .. Len(all_tensors) : all_tensors'[n] = all_tensors[n]
      /\ all_tensors'[Len(all_tensors) + 1] = proxy
      /\ all_tensors' \in Seq(Tensor \cup {NULL})
  BY <1>1, <1>2, AppendProperties
<1>4. Live' = Live \cup {proxy} /\ proxy \notin Live
  BY <1>1, <1>2 DEF Live, TypeOK
<1>5. Owned' = Owned \cup {proxy} /\ proxy \notin Owned
  BY <1>1, <1>3, <1>4, IdleFacts DEF Owned, Range
<1>6. IsInjective(all_tensors')
  BY <1>1, <1>3, <1>5, IdleFacts DEF IsInjective, Owned, Range
<1>7. /\ src' \in [Tensor -> [Slot -> Tensor \cup {NULL}]]
      /\ \A u \in Owned : src'[u] = src[u]
      /\ Range(src'[proxy]) \subseteq {o, NULL}
  <2>1. src'[proxy] = [i \in Slot |-> IF i = 0 THEN o ELSE NULL]
    BY <1>1, <1>2 DEF TypeOK
  <2>2. src' \in [Tensor -> [Slot -> Tensor \cup {NULL}]]
    BY <1>1, <1>2 DEF TypeOK
  <2>3. \A u \in Owned : src'[u] = src[u]
    BY <1>1, <1>2, <1>5, IdleFacts DEF TypeOK
  <2> QED
    BY <2>1, <2>2, <2>3 DEF Range
<1>8. /\ kind' \in [Tensor -> TensorKinds]
      /\ layer_id' \in [Tensor -> LayerIds]
      /\ device' \in [Tensor -> {"CPU", "UNKNOWN", Accelerator}]
  <2>1. <<"MEMCPY", kind[o][2]>> \in TensorKinds
    BY <1>2 DEF TypeOK, TensorKinds
  <2> QED
    BY <1>2, <2>1 DEF InsertMemcpy, TypeOK
<1>9. TypeOK'
  BY <1>1, <1>2, <1>3, <1>7, <1>8 DEF TypeOK, schedule, search, locals
<1>10. Scheduled' = Scheduled
  BY <1>1 DEF Scheduled, schedule, Sort!Stored
<1>11. OwnedAlive'
  BY <1>1, <1>4, <1>5, <1>6, <1>7, IdleFacts DEF OwnedAlive, SourcesAlive
<1>12. OutputsAlive'
  BY <1>1, <1>4, IdleFacts DEF OutputsAlive
<1> QED
  BY <1>1, <1>5, <1>9, <1>10, <1>11, <1>12, IdleFacts, EditKeeps DEF Idle

-----------------------------------------------------------------------------
(* Emptying the schedule and deleting the tensors.                         *)
LEMMA ScheduleEmptied ==
  ASSUME EmptySchedule
  PROVE  /\ NoSchedule' /\ Scheduled' = {}
         /\ execution_levels' \in Seq(Seq(Tensor))
         /\ execution_order' \in Seq(Tensor)
         /\ layer_groups' \in [LayerIds -> Seq(Tensor)]
         /\ max_layer' \in LayerIds
<1>1. /\ execution_levels' = <<>> /\ execution_order' = <<>>
      /\ layer_groups' = [l \in LayerIds |-> <<>>] /\ max_layer' = -1
  BY DEF EmptySchedule
<1>2. Scheduled' = {}
  BY <1>1 DEF Scheduled, Sort!Stored, Range
<1> QED
  BY <1>1, <1>2, LayerIdsAreInts DEF NoSchedule

LEMMA TensorsDeleted ==
  ASSUME GraphInv, Idle, DeleteAll
  PROVE  /\ fault' = "none"
         /\ heap' \in [Tensor -> {"free", "live", "deleted"}]
         /\ Live' = Live \ Owned
<1>1. TypeOK /\ IsInjective(all_tensors) /\ Owned \subseteq Live
  BY IdleFacts
<1>2. heap' = [t \in Tensor |-> IF t \in Owned THEN "deleted" ELSE heap[t]]
  BY DEF DeleteAll
<1> QED
  BY <1>1, <1>2 DEF DeleteAll, Idle, TypeOK, Live

LEMMA ClearKeeps ==
  ASSUME GraphInv, Clear
  PROVE  GraphInv'
<1>1. /\ Idle /\ DeleteAll /\ EmptySchedule
      /\ all_tensors' = <<>> /\ external_outputs' = <<>> /\ outcome' = "none"
      /\ UNCHANGED <<src, layer_id, kind, locals, phase, search, device, caller>>
  BY DEF Clear
<1>2. TypeOK
  BY DEF GraphInv
<1>3. Owned' = {} /\ Range(external_outputs') = {}
  BY <1>1 DEF Owned, Range
<1>4. TypeOK'
  BY <1>1, <1>2, ScheduleEmptied, TensorsDeleted DEF TypeOK, locals, search
<1>5. OwnedAlive' /\ OutputsAlive'
  BY <1>1, <1>3 DEF OwnedAlive, OutputsAlive, IsInjective
<1> QED
  BY <1>1, <1>3, <1>4, <1>5, ScheduleEmptied, TensorsDeleted, EditKeeps DEF Idle

LEMMA DestroyKeeps ==
  ASSUME GraphInv, Destroy
  PROVE  GraphInv'
<1>1. /\ Idle /\ DeleteAll /\ phase' = "destroyed"
      /\ UNCHANGED <<inputs, locals, schedule, search, external_outputs, device,
                     caller, outcome>>
  BY DEF Destroy
<1>2. TypeOK
  BY DEF GraphInv
<1>3. TypeOK'
  BY <1>1, <1>2, TensorsDeleted DEF TypeOK, inputs, locals, schedule, search
<1>4. Owned' = Owned /\ Scheduled' = Scheduled
  BY <1>1 DEF Owned, Scheduled, inputs, schedule, Sort!Stored
<1>5. LocalsGone'
  BY <1>1 DEF GraphInv, LocalsGone, Idle, InSort, locals
<1> QED
  BY <1>1, <1>3, <1>4, <1>5, TensorsDeleted
  DEF GraphInv, FaultIsNull, OwnedAlive, OutputsAlive, SearchSound, InSort,
      SortedScheduleIsCurrent, ThrowLeavesTheCycle, Idle

(* The calls that read the graph and its outputs only. *)
LEMMA ReadingKeeps ==
  ASSUME GraphInv, Idle, TypeOK', OutputsAlive',
         UNCHANGED <<inputs, locals, phase, schedule, search, heap, outcome, fault>>
  PROVE  GraphInv'
<1>1. Owned' = Owned /\ Scheduled' = Scheduled /\ Live' = Live
  BY DEF Owned, Scheduled, inputs, schedule, Live, Sort!Stored
<1>2. OwnedAlive'
  BY <1>1, IdleFacts DEF OwnedAlive, SourcesAlive, inputs
<1>3. LocalsGone'
  BY DEF GraphInv, LocalsGone, Idle, InSort, locals
<1>4. SortedScheduleIsCurrent' /\ ThrowLeavesTheCycle'
  <2>1. /\ CurrentSchedule => CurrentSchedule'
        /\ Sort!Schedule!Cyclic => Sort!Schedule!Cyclic'
    BY ScheduleStays DEF Idle
  <2> QED
    BY <2>1 DEF GraphInv, SortedScheduleIsCurrent, ThrowLeavesTheCycle, CurrentSchedule, Idle
<1> QED
  BY <1>1, <1>2, <1>3, <1>4
  DEF GraphInv, FaultIsNull, SearchSound, InSort, Idle

LEMMA ReplaceOutputKeeps ==
  ASSUME GraphInv, NEW o, NEW n \in Live, ReplaceOutput(o, n)
  PROVE  GraphInv'
<1>1. /\ Idle
      /\ external_outputs' = [i \in DOMAIN external_outputs |->
           IF external_outputs[i] = o THEN n ELSE external_outputs[i]]
      /\ UNCHANGED <<inputs, locals, phase, schedule, search, device, heap, control>>
  BY DEF ReplaceOutput
<1>2. TypeOK /\ n \in Tensor
  BY DEF GraphInv, Live
<1>3. /\ Len(external_outputs) \in Nat
      /\ external_outputs \in [1 .. Len(external_outputs) -> Tensor \cup {NULL}]
  BY <1>2 DEF TypeOK
<1>4. external_outputs' \in [1 .. Len(external_outputs) -> Tensor \cup {NULL}]
  BY <1>1, <1>2, <1>3
<1>5. external_outputs' \in Seq(Tensor \cup {NULL})
  BY <1>3, <1>4, SeqDef
<1>6. TypeOK'
  BY <1>1, <1>2, <1>5 DEF TypeOK, inputs, locals, schedule, search, control
<1>7. OutputsAlive'
  <2>1. Live' = Live /\ Range(external_outputs') \subseteq Range(external_outputs) \cup {n}
    BY <1>1 DEF Live, Range
  <2> QED
    BY <1>1, <2>1, IdleFacts DEF OutputsAlive
<1> QED
  BY <1>1, <1>6, <1>7, ReadingKeeps DEF control

LEMMA ExportDotKeeps ==
  ASSUME GraphInv, ExportDot
  PROVE  GraphInv'
<1>1. Idle /\ UNCHANGED <<inputs, locals, phase, schedule, search, owner, caller, outcome>>
  BY DEF ExportDot
<1>2. UNCHANGED fault
  <2>1. UNION {{t} \cup Range(src[t]) : t \in Owned} \subseteq Live \cup {NULL}
    BY <1>1, IdleFacts DEF SourcesAlive
  <2> QED
    BY <2>1 DEF ExportDot
<1>3. TypeOK' /\ OutputsAlive'
  <2>1. TypeOK /\ Live' = Live
    BY <1>1 DEF GraphInv, Live, owner
  <2> QED
    BY <1>1, <1>2, <2>1, IdleFacts
    DEF TypeOK, OutputsAlive, inputs, locals, schedule, search, owner
<1> QED
  BY <1>1, <1>2, <1>3, ReadingKeeps DEF owner

-----------------------------------------------------------------------------
(* The calls that sort. *)
LEMMA RebuildOrderKeeps ==
  ASSUME GraphInv, RebuildOrder
  PROVE  GraphInv'
<1>1. /\ Idle /\ EmptySchedule /\ caller' = "rebuild" /\ phase' = "entry"
      /\ UNCHANGED <<inputs, locals, search, owner, outcome, fault>>
  BY DEF RebuildOrder
<1>2. TypeOK
  BY DEF GraphInv
<1>3. TypeOK'
  BY <1>1, <1>2, ScheduleEmptied DEF TypeOK, inputs, locals, search, owner
<1>4. Owned' = Owned /\ Live' = Live
  BY <1>1 DEF Owned, inputs, Live, owner
<1>5. OwnedAlive' /\ OutputsAlive'
  BY <1>1, <1>4, IdleFacts DEF OwnedAlive, OutputsAlive, SourcesAlive, inputs, owner
<1>6. SortFacts!GroupInv'
  <2>1. /\ all_tensors' \in Seq(Tensor) /\ IsInjective(all_tensors')
        /\ src' \in [Tensor -> [Slot -> Tensor \cup {NULL}]]
        /\ layer_id' \in [Tensor -> LayerIds]
        /\ kind' \in [Tensor -> TensorKinds]
    BY <1>1, <1>3, IdleFacts DEF TypeOK, inputs
  <2>2. in_degree' = <<>> /\ level' = <<>> /\ cursor' = 1 /\ count' = 0
    BY <1>1 DEF GraphInv, LocalsGone, InSort, Idle, locals
  <2>3. NoSchedule'
    BY <1>1, ScheduleEmptied
  <2>4. SortMayBegin'
    BY <1>1, <2>1, <2>2, <2>3 DEF SortMayBegin
  <2> QED
    BY <2>4, EntryIsSound, PTL
<1> QED
  BY <1>1, <1>3, <1>5, <1>6, ScheduleEmptied
  DEF GraphInv, FaultIsNull, SearchSound, LocalsGone, InSort, SortedScheduleIsCurrent,
      ThrowLeavesTheCycle, Idle

LEMMA BuildFromOutputsKeeps ==
  ASSUME GraphInv, NEW outputs \in Outputs, BuildFromOutputs(outputs)
  PROVE  GraphInv'
<1>1. /\ Idle /\ MayBuild(outputs) /\ DeleteAll /\ EmptySchedule
      /\ all_tensors' = <<>> /\ external_outputs' = outputs
      /\ queue' = Seeds(outputs) /\ visited' = Range(outputs) \ {NULL}
      /\ caller' = "build" /\ phase' = "search"
      /\ UNCHANGED <<src, layer_id, kind, locals, device, outcome>>
  BY DEF BuildFromOutputs
<1>2. outputs \in Seq(Tensor \cup {NULL}) /\ Range(outputs) \subseteq Tensor \cup {NULL}
  <2>1. PICK n \in 0 .. MaxOutputs : outputs \in [1 .. n -> Tensor \cup {NULL}]
    BY DEF Outputs
  <2>2. n \in Nat
    OBVIOUS
  <2> QED
    BY <2>1, <2>2, SeqDef DEF Range
<1>3. /\ Seeds(outputs) \in Seq(Tensor \cup {NULL})
      /\ IsInjective(Seeds(outputs))
      /\ Range(Seeds(outputs)) = Range(outputs) \ {NULL}
  BY <1>2, SeedsAreOutputs
<1>4. TypeOK
  BY DEF GraphInv
<1>5. fault' = "none" /\ Live' = Live \ Owned
  BY <1>1, TensorsDeleted
<1>6. TypeOK'
  BY <1>1, <1>2, <1>3, <1>4, ScheduleEmptied, TensorsDeleted DEF TypeOK, locals
<1>7. Owned' = {}
  BY <1>1 DEF Owned, Range
<1>8. ASSUME NEW t \in Range(outputs), t # NULL
      PROVE  t \in Live' /\ SourcesAlive(t)'
  <2>1. t \in Live \ Owned /\ Range(src[t]) \subseteq Live \cup {NULL}
          /\ Range(src[t]) \cap Owned = {}
    BY <1>1, <1>8 DEF MayBuild, MayAdd
  <2> QED
    BY <1>1, <1>5, <2>1 DEF SourcesAlive
<1>9. OwnedAlive' /\ OutputsAlive'
  BY <1>1, <1>7, <1>8 DEF OwnedAlive, OutputsAlive, IsInjective
<1>10. SearchSound'
  BY <1>1, <1>3, <1>7, <1>8 DEF SearchSound
<1>11. LocalsGone'
  BY <1>1 DEF GraphInv, LocalsGone, Idle, InSort, locals
<1> QED
  BY <1>1, <1>5, <1>6, <1>7, <1>9, <1>10, <1>11, ScheduleEmptied
  DEF GraphInv, FaultIsNull, InSort, SortedScheduleIsCurrent, ThrowLeavesTheCycle, Idle

LEMMA VisitTensorKeeps ==
  ASSUME GraphInv, VisitTensor
  PROVE  GraphInv'
<1> DEFINE cur == Head(queue)
<1>1. /\ phase = "search" /\ fault = "none" /\ queue # <<>>
      /\ all_tensors' = Append(all_tensors, cur)
      /\ UNCHANGED <<src, layer_id, kind, locals, phase, schedule, owner, caller, outcome>>
  BY DEF VisitTensor
<1>2. /\ TypeOK /\ SearchSound /\ NoSchedule /\ OutputsAlive /\ LocalsGone
      /\ Owned \subseteq Live /\ IsInjective(all_tensors)
      /\ \A t \in Owned : SourcesAlive(t)
      /\ Live \subseteq Tensor
  BY <1>1 DEF GraphInv, OwnedAlive, Live
<1>3. /\ Len(queue) \in Nat /\ Len(queue) >= 1 /\ DOMAIN queue = 1 .. Len(queue)
      /\ cur = queue[1] /\ cur \in Range(queue) /\ cur \in Live \cup {NULL}
      /\ cur \in Tensor \cup {NULL}
  BY <1>1, <1>2 DEF TypeOK, SearchSound, Range
<1>4. /\ all_tensors' \in Seq(Tensor \cup {NULL})
      /\ Len(all_tensors) \in Nat /\ DOMAIN all_tensors = 1 .. Len(all_tensors)
      /\ DOMAIN all_tensors' = 1 .. Len(all_tensors) + 1
      /\ \A n \in 1 .. Len(all_tensors) : all_tensors'[n] = all_tensors[n]
      /\ all_tensors'[Len(all_tensors) + 1] = cur
  BY <1>1, <1>2, <1>3, AppendProperties DEF TypeOK
<1>5. Owned' = Owned \cup {cur} /\ Live' = Live
  BY <1>1, <1>4 DEF Owned, Range, Live, owner
<1>6. Scheduled' = {} /\ NoSchedule'
  BY <1>1, <1>2 DEF Scheduled, NoSchedule, schedule, Sort!Stored, Range
<1>7. OutputsAlive' /\ LocalsGone'
  BY <1>1, <1>2, <1>5 DEF OutputsAlive, LocalsGone, InSort, owner, locals
<1>8. CASE cur \notin Live
  <2>1. cur = NULL /\ fault' = "null" /\ UNCHANGED search
    BY <1>3, <1>8 DEF VisitTensor
  <2>2. TypeOK'
    BY <1>1, <1>2, <1>4, <2>1 DEF TypeOK, locals, schedule, owner, search
  <2> QED
    BY <1>1, <1>6, <1>7, <2>1, <2>2
    DEF GraphInv, FaultIsNull, OwnedAlive, SearchSound, InSort, SortedScheduleIsCurrent,
        ThrowLeavesTheCycle, Idle
<1>9. CASE cur \in Live
  <2>1. PICK q \in SetToSeqs(Followed(cur)) : queue' = Tail(queue) \o q
    BY <1>9 DEF VisitTensor
  <2>2. visited' = visited \cup Followed(cur) /\ fault' = "none"
    BY <1>1, <1>9 DEF VisitTensor
  <2>3. Followed(cur) \subseteq {NULL} \ visited
    BY DEF Followed
  <2>4. /\ q \in [1 .. Cardinality(Followed(cur)) -> Followed(cur)]
        /\ IsInjective(q)
    BY DEF SetToSeqs, IsInjective
  <2>5. /\ q \in Seq(Tensor \cup {NULL}) /\ Range(q) \subseteq Followed(cur)
        /\ Len(q) \in Nat /\ DOMAIN q = 1 .. Len(q)
    <3>1. IsFiniteSet(Followed(cur))
      <4>1. Followed(cur) \in SUBSET {NULL}
        BY <2>3
      <4> QED
        BY <4>1, FS_Singleton, FS_Subset
    <3>2. Cardinality(Followed(cur)) \in Nat
      BY <3>1, FS_CardinalityType
    <3>3. q \in [1 .. Cardinality(Followed(cur)) -> Tensor \cup {NULL}]
      BY <2>3, <2>4
    <3>4. q \in Seq(Tensor \cup {NULL})
      BY <3>2, <3>3, SeqDef
    <3> QED
      BY <2>4, <3>4 DEF Range
  <2> DEFINE tail == Tail(queue)
  <2>6. /\ tail \in Seq(Tensor \cup {NULL})
        /\ Len(tail) = Len(queue) - 1
        /\ \A i \in 1 .. Len(tail) : tail[i] = queue[i + 1]
    BY <1>1, <1>2, <1>3, HeadTailProperties DEF TypeOK
  <2> HIDE DEF tail
  <2>7. /\ queue' \in Seq(Tensor \cup {NULL})
        /\ DOMAIN queue' = 1 .. Len(tail) + Len(q)
        /\ \A i \in 1 .. Len(tail) + Len(q) :
             queue'[i] = IF i <= Len(tail) THEN queue[i + 1] ELSE q[i - Len(tail)]
    <3>1. queue' = tail \o q
      BY <2>1 DEF tail
    <3>2. /\ tail \o q \in Seq(Tensor \cup {NULL})
          /\ Len(tail \o q) = Len(tail) + Len(q)
          /\ \A i \in 1 .. Len(tail) + Len(q) : (tail \o q)[i] =
               IF i <= Len(tail) THEN tail[i] ELSE q[i - Len(tail)]
      BY <2>5, <2>6, ConcatProperties
    <3>3. DOMAIN queue' = 1 .. Len(tail) + Len(q)
      BY <3>1, <3>2
    <3> QED
      BY <1>3, <2>5, <2>6, <3>1, <3>2, <3>3
  <2>8. \A i \in 1 .. Len(tail) : i + 1 \in DOMAIN queue /\ i + 1 # 1
    BY <1>3, <2>6
  <2>9. /\ \A i \in 1 .. Len(tail) : queue'[i] \in Range(queue) \ {cur}
        /\ \A i \in 1 .. Len(tail) + Len(q) : i > Len(tail) => queue'[i] \in Followed(cur)
    <3>1. \A i \in 1 .. Len(tail) : queue[i + 1] \in Range(queue) \ {cur}
      BY <1>1, <1>2, <1>3, <2>8 DEF SearchSound, IsInjective, Range
    <3>2. \A i \in 1 .. Len(tail) + Len(q) : i > Len(tail) => i - Len(tail) \in DOMAIN q
      BY <1>3, <2>5, <2>6
    <3>3. Len(tail) \in Nat /\ Len(q) \in Nat
      BY <1>3, <2>5, <2>6
    <3>4. \A i \in 1 .. Len(tail) : queue'[i] = queue[i + 1]
      BY <2>7, <3>3
    <3>5. ASSUME NEW i \in 1 .. Len(tail) + Len(q), i > Len(tail)
          PROVE  queue'[i] \in Followed(cur)
      <4>1. queue'[i] = q[i - Len(tail)] /\ i - Len(tail) \in DOMAIN q
        BY <2>7, <3>2, <3>3, <3>5
      <4> QED
        BY <2>5, <4>1 DEF Range
    <3> QED
      BY <3>1, <3>4, <3>5
  <2>10. Range(queue') \subseteq (Range(queue) \ {cur}) \cup Followed(cur)
    <3> SUFFICES ASSUME NEW i \in DOMAIN queue'
                 PROVE  queue'[i] \in (Range(queue) \ {cur}) \cup Followed(cur)
      BY DEF Range
    <3>1. i \in 1 .. Len(tail) + Len(q) /\ Len(tail) \in Nat /\ Len(q) \in Nat
      BY <1>3, <2>5, <2>6, <2>7
    <3>2. i \in 1 .. Len(tail) \/ i > Len(tail)
      BY <3>1
    <3> QED
      BY <2>9, <3>1, <3>2
  <2>11. IsInjective(queue')
    <3> SUFFICES ASSUME NEW i \in DOMAIN queue', NEW j \in DOMAIN queue',
                        queue'[i] = queue'[j]
                 PROVE  i = j
      BY DEF IsInjective
    <3>1. /\ i \in Nat /\ j \in Nat /\ Len(tail) \in Nat
          /\ i \in 1 .. Len(tail) + Len(q) /\ j \in 1 .. Len(tail) + Len(q)
      BY <1>3, <2>5, <2>6, <2>7
    <3>2. Range(queue) \cap Followed(cur) = {}
      BY <1>1, <1>2, <2>3 DEF SearchSound
    <3>3. i <= Len(tail) <=> j <= Len(tail)
      BY <2>9, <3>1, <3>2
    <3>4. CASE i <= Len(tail)
      <4>1. queue[i + 1] = queue[j + 1]
        BY <2>7, <3>1, <3>3, <3>4
      <4>2. i + 1 = j + 1
        BY <1>1, <1>2, <2>8, <3>1, <3>3, <3>4, <4>1 DEF SearchSound, IsInjective
      <4> QED
        BY <3>1, <4>2
    <3>5. CASE ~(i <= Len(tail))
      <4>1. q[i - Len(tail)] = q[j - Len(tail)]
        BY <2>7, <3>1, <3>3, <3>5
      <4>2. i - Len(tail) \in DOMAIN q /\ j - Len(tail) \in DOMAIN q
        BY <2>5, <3>1, <3>3, <3>5
      <4>3. i - Len(tail) = j - Len(tail)
        BY <2>4, <4>1, <4>2 DEF IsInjective
      <4> QED
        BY <3>1, <4>3
    <3> QED
      BY <3>4, <3>5
  <2>12. TypeOK'
    BY <1>1, <1>2, <1>4, <2>2, <2>3, <2>7 DEF TypeOK, locals, schedule, owner
  <2>13. /\ cur \in visited /\ cur \notin Owned /\ SourcesAlive(cur)
    <3>1. cur # NULL
      BY <1>2, <1>9, NullIsNoTensor
    <3> QED
      BY <1>1, <1>2, <1>3, <3>1 DEF SearchSound
  <2>14. IsInjective(all_tensors')
    BY <1>2, <1>4, <2>13 DEF IsInjective, Owned, Range
  <2>15. \A t : SourcesAlive(t)' <=> SourcesAlive(t)
    BY <1>1, <1>5 DEF SourcesAlive
  <2>16. OwnedAlive'
    BY <1>2, <1>5, <1>9, <2>13, <2>14, <2>15 DEF OwnedAlive
  <2>17. SearchSound'
    <3>1. Range(queue') \subseteq (Live' \cup {NULL}) \cap visited'
      BY <1>1, <1>2, <1>5, <2>2, <2>3, <2>10 DEF SearchSound
    <3>2. Range(queue') \cap Owned' = {}
      BY <1>1, <1>2, <1>5, <2>3, <2>10, <2>13 DEF SearchSound
    <3>3. Owned' \subseteq visited'
      BY <1>1, <1>2, <1>5, <2>2, <2>13 DEF SearchSound
    <3>4. \A t \in Range(queue') \ {NULL} : SourcesAlive(t)'
      BY <1>1, <1>2, <2>3, <2>10, <2>15 DEF SearchSound
    <3> QED
      BY <2>11, <3>1, <3>2, <3>3, <3>4 DEF SearchSound
  <2> QED
    BY <1>1, <1>6, <1>7, <2>2, <2>12, <2>16, <2>17
    DEF GraphInv, FaultIsNull, InSort, SortedScheduleIsCurrent, ThrowLeavesTheCycle, Idle
<1> QED
  BY <1>8, <1>9

LEMMA FinishSearchKeeps ==
  ASSUME GraphInv, FinishSearch
  PROVE  GraphInv'
<1>1. /\ phase = "search" /\ fault = "none" /\ queue = <<>>
      /\ phase' = "entry" /\ visited' = {}
      /\ UNCHANGED <<inputs, locals, schedule, queue, owner, control>>
  BY DEF FinishSearch
<1>2. /\ TypeOK /\ NoSchedule /\ OutputsAlive /\ LocalsGone
      /\ Owned \subseteq Live /\ IsInjective(all_tensors)
      /\ \A t \in Owned : SourcesAlive(t)
      /\ Scheduled \subseteq Owned
  BY <1>1 DEF GraphInv, OwnedAlive
<1>3. all_tensors \in Seq(Tensor)
  <2>1. \A n \in 1 .. Len(all_tensors) : all_tensors[n] \in Tensor
    BY <1>2 DEF TypeOK, Owned, Range, Live
  <2>2. /\ all_tensors \in [1 .. Len(all_tensors) -> Tensor]
        /\ Len(all_tensors) \in Nat
    BY <1>2, <2>1 DEF TypeOK
  <2> QED
    BY <2>2, SeqDef
<1>4. TypeOK'
  BY <1>1, <1>2 DEF TypeOK, inputs, locals, schedule, owner, control
<1>5. Owned' = Owned /\ Live' = Live /\ Scheduled' = Scheduled
  BY <1>1 DEF Owned, inputs, Live, owner, Scheduled, schedule, Sort!Stored
<1>6. OwnedAlive' /\ OutputsAlive'
  BY <1>1, <1>2, <1>5 DEF OwnedAlive, OutputsAlive, SourcesAlive, inputs, owner
<1>7. SortFacts!GroupInv'
  <2>1. SortMayBegin'
    BY <1>1, <1>2, <1>3
    DEF SortMayBegin, TypeOK, LocalsGone, InSort, NoSchedule, inputs, locals, schedule
  <2> QED
    BY <2>1, EntryIsSound, PTL
<1> QED
  BY <1>1, <1>2, <1>4, <1>5, <1>6, <1>7
  DEF GraphInv, FaultIsNull, SearchSound, LocalsGone, InSort, SortedScheduleIsCurrent,
      ThrowLeavesTheCycle, Idle, control

(* A step of the sort: what its own proofs say of it, and that it leaves   *)
(* the tensors and who owns them alone.                                    *)
LEMMA SortingKeeps ==
  ASSUME GraphInv, Sorting
  PROVE  GraphInv'
<1>1. Sort!SortStep /\ UNCHANGED <<search, owner, control>>
  BY DEF Sorting
<1>2. /\ phase \in {"entry", "collect", "retire"}
      /\ phase' \in {"entry", "collect", "retire", "done", "thrown"}
      /\ UNCHANGED inputs
  BY <1>1 DEF Sort!SortStep, Sort!BeginSort, Sort!CollectLevel, Sort!RetireTensor,
              Sort!StoreLevel, Sort!LeaveLoop, Sort!inputs, inputs
<1>3. /\ TypeOK /\ OwnedAlive /\ OutputsAlive /\ fault = "none"
      /\ SortFacts!GroupInv
  BY <1>2 DEF GraphInv, FaultIsNull, InSort, TypeOK
<1>4. SortFacts!GroupInv'
  BY <1>1, <1>3, SortStepKeeps
<1>5. /\ (Scheduled \subseteq Owned)'
      /\ execution_levels' \in Seq(Seq(Tensor))
      /\ execution_order' \in Seq(Tensor)
      /\ layer_groups' \in [LayerIds -> Seq(Tensor)]
      /\ max_layer' \in LayerIds
  <2>1. (/\ Scheduled \subseteq Owned
         /\ execution_levels \in Seq(Seq(Tensor))
         /\ execution_order \in Seq(Tensor)
         /\ layer_groups \in [LayerIds -> Seq(Tensor)]
         /\ max_layer \in LayerIds
         /\ all_tensors \in Seq(Tensor)
         /\ IsInjective(all_tensors))'
    BY <1>4, SortSchedulesOwned, PTL
  <2> QED
    BY <2>1
<1>6. TypeOK'
  BY <1>1, <1>2, <1>3, <1>5 DEF TypeOK, inputs, search, owner, control
<1>7. OwnedAlive' /\ OutputsAlive'
  BY <1>1, <1>2, <1>3 DEF OwnedAlive, OutputsAlive, Owned, Live, SourcesAlive, inputs, owner, control
<1> QED
  BY <1>1, <1>2, <1>3, <1>4, <1>5, <1>6, <1>7
  DEF GraphInv, FaultIsNull, SearchSound, LocalsGone, InSort, SortedScheduleIsCurrent,
      ThrowLeavesTheCycle, Idle, control

(* The end of the call that sorted: the verdict of the sort is that of the *)
(* call.                                                                   *)
LEMMA EndCallKeeps ==
  ASSUME GraphInv, phase \in {"done", "thrown"}, EndCall, TypeOK',
         \/ phase = "done" /\ outcome' = "sorted"
         \/ phase = "thrown" /\ outcome' = "threw"
  PROVE  GraphInv'
<1>1. /\ in_degree' = <<>> /\ level' = <<>> /\ cursor' = 1 /\ count' = 0
      /\ phase' = "idle"
      /\ UNCHANGED <<inputs, schedule, search, external_outputs, heap, fault>>
  BY DEF EndCall
<1>2. /\ TypeOK /\ OwnedAlive /\ OutputsAlive /\ fault = "none"
      /\ SortFacts!GroupInv /\ Scheduled \subseteq Owned
  BY DEF GraphInv, FaultIsNull, InSort, TypeOK
<1>3. /\ CurrentSchedule => CurrentSchedule'
      /\ Sort!Schedule!Cyclic => Sort!Schedule!Cyclic'
      /\ Scheduled' = Scheduled
      /\ Owned' = Owned
  <2>1. UNCHANGED <<inputs, schedule>> /\ phase # "retire" /\ phase' # "retire"
    BY <1>1
  <2> QED
    BY <2>1, ScheduleStays
<1>4. OwnedAlive' /\ OutputsAlive'
  BY <1>1, <1>2, <1>3 DEF OwnedAlive, OutputsAlive, Live, SourcesAlive, inputs
<1>5. SortedScheduleIsCurrent'
  BY <1>2, <1>3, DoneIsCurrent DEF SortedScheduleIsCurrent, CurrentSchedule
<1>6. ThrowLeavesTheCycle'
  BY <1>2, <1>3, ThrownIsCyclic DEF ThrowLeavesTheCycle
<1> QED
  BY <1>1, <1>2, <1>3, <1>4, <1>5, <1>6
  DEF GraphInv, FaultIsNull, SearchSound, LocalsGone, InSort

LEMMA ReturnFromSortKeeps ==
  ASSUME GraphInv, ReturnFromSort
  PROVE  GraphInv'
<1>1. /\ phase = "done" /\ EndCall /\ outcome' = "sorted"
      /\ device' \in [Tensor -> {"CPU", "UNKNOWN", Accelerator}]
  BY DEF ReturnFromSort, GraphInv, TypeOK
<1>2. TypeOK'
  BY <1>1 DEF GraphInv, TypeOK, EndCall, inputs, schedule, search
<1> QED
  BY <1>1, <1>2, EndCallKeeps

LEMMA ThrowFromSortKeeps ==
  ASSUME GraphInv, ThrowFromSort
  PROVE  GraphInv'
<1>1. phase = "thrown" /\ EndCall /\ outcome' = "threw" /\ UNCHANGED device
  BY DEF ThrowFromSort
<1>2. TypeOK'
  BY <1>1 DEF GraphInv, TypeOK, EndCall, inputs, schedule, search
<1> QED
  BY <1>1, <1>2, EndCallKeeps

-----------------------------------------------------------------------------
(* The invariant holds at first and is kept by every step. *)
LEMMA GraphInvInit == Init => GraphInv
<1> SUFFICES ASSUME Init PROVE GraphInv
  OBVIOUS
<1>1. Owned = {} /\ Scheduled = {} /\ Range(external_outputs) = {}
  BY DEF Init, Owned, Scheduled, Sort!Stored, Range, Sort!Range
<1>2. TypeOK
  <2>1. <<"NONE", "UNKNOWN">> \in TensorKinds
    BY DEF TensorKinds
  <2>2. NoSources \in [Slot -> Tensor \cup {NULL}]
    BY DEF NoSources
  <2> QED
    BY <2>1, <2>2, LayerIdsAreInts DEF Init, TypeOK
<1> QED
  BY <1>1, <1>2
  DEF Init, GraphInv, FaultIsNull, OwnedAlive, OutputsAlive, SearchSound, LocalsGone,
      InSort, SortedScheduleIsCurrent, ThrowLeavesTheCycle, IsInjective

LEMMA GraphInvStutter == GraphInv /\ UNCHANGED vars => GraphInv'
<1> SUFFICES ASSUME GraphInv, UNCHANGED vars PROVE GraphInv'
  OBVIOUS
<1>1. /\ UNCHANGED <<all_tensors, src, layer_id, kind>>
      /\ UNCHANGED <<in_degree, level, cursor, count, phase>>
      /\ UNCHANGED <<execution_levels, execution_order, layer_groups, max_layer>>
      /\ UNCHANGED <<external_outputs, device, heap, queue, visited>>
      /\ UNCHANGED <<caller, outcome, fault>>
  BY DEF vars, inputs, locals, schedule, search, owner, control
<1>2. SortFacts!GroupInv => SortFacts!GroupInv'
  <2>1. UNCHANGED SortFacts!vars
    BY <1>1 DEF SortFacts!vars, SortFacts!inputs, SortFacts!locals, SortFacts!results
  <2>2. [SortFacts!Next]_SortFacts!vars
    BY <2>1
  <2> QED
    BY <2>2, SortFacts!GroupInvStep, SortConstants
<1>3. /\ TypeOK' /\ FaultIsNull' /\ OwnedAlive' /\ OutputsAlive' /\ SearchSound'
      /\ LocalsGone' /\ (InSort' <=> InSort) /\ (NoSchedule' <=> NoSchedule)
      /\ Scheduled' = Scheduled /\ Owned' = Owned
  BY <1>1 DEF GraphInv, TypeOK, FaultIsNull, OwnedAlive, OutputsAlive, SearchSound,
              LocalsGone, InSort, NoSchedule, Scheduled, Owned, Live, SourcesAlive,
              Sort!Stored
<1>4. SortedScheduleIsCurrent' /\ ThrowLeavesTheCycle'
  <2>1. CASE phase = "idle"
    <3>1. UNCHANGED <<inputs, schedule>> /\ phase # "retire" /\ phase' # "retire"
      BY <1>1, <2>1 DEF inputs, schedule
    <3>2. /\ CurrentSchedule => CurrentSchedule'
          /\ Sort!Schedule!Cyclic => Sort!Schedule!Cyclic'
      BY <3>1, ScheduleStays
    <3> QED
      BY <1>1, <3>2 DEF GraphInv, SortedScheduleIsCurrent, ThrowLeavesTheCycle, Idle,
                        CurrentSchedule
  <2>2. CASE phase # "idle"
    BY <1>1, <2>2 DEF SortedScheduleIsCurrent, ThrowLeavesTheCycle, Idle
  <2> QED
    BY <2>1, <2>2
<1> QED
  BY <1>1, <1>2, <1>3, <1>4 DEF GraphInv

LEMMA GraphInvStep == GraphInv /\ [Next]_vars => GraphInv'
<1> SUFFICES ASSUME GraphInv, [Next]_vars PROVE GraphInv'
  OBVIOUS
<1>1. CASE InCall
  <2>1. CASE VisitTensor
    BY <2>1, VisitTensorKeeps
  <2>2. CASE FinishSearch
    BY <2>2, FinishSearchKeeps
  <2>3. CASE Sorting
    BY <2>3, SortingKeeps
  <2>4. CASE ReturnFromSort
    BY <2>4, ReturnFromSortKeeps
  <2>5. CASE ThrowFromSort
    BY <2>5, ThrowFromSortKeeps
  <2> QED
    BY <1>1, <2>1, <2>2, <2>3, <2>4, <2>5 DEF InCall
<1>2. CASE Client
  <2>1. ASSUME NEW t \in Tensor, NewTensor(t) PROVE GraphInv'
    BY <2>1, NewTensorKeeps
  <2>2. ASSUME NEW t \in Live, NEW i \in Slot, NEW s \in Live \cup {NULL},
               SetSource(t, i, s)
        PROVE  GraphInv'
    BY <2>2, SetSourceKeeps
  <2>3. ASSUME NEW t \in Live, AddTensor(t) PROVE GraphInv'
    BY <2>3, AddTensorKeeps
  <2>4. ASSUME NEW old_t \in Range(external_outputs), NEW new_t \in Live,
               ReplaceOutput(old_t, new_t)
        PROVE  GraphInv'
    BY <2>4, ReplaceOutputKeeps
  <2>5. ASSUME NEW original_t \in Live, NEW proxy \in Tensor,
               InsertMemcpy(original_t, proxy)
        PROVE  GraphInv'
    BY <2>5, InsertMemcpyKeeps
  <2>6. ASSUME NEW outputs \in Outputs, BuildFromOutputs(outputs) PROVE GraphInv'
    BY <2>6, BuildFromOutputsKeeps
  <2>7. CASE RebuildOrder
    BY <2>7, RebuildOrderKeeps
  <2>8. CASE Clear
    BY <2>8, ClearKeeps
  <2>9. CASE ExportDot
    BY <2>9, ExportDotKeeps
  <2>10. CASE Destroy
    BY <2>10, DestroyKeeps
  <2> QED
    BY <1>2, <2>1, <2>2, <2>3, <2>4, <2>5, <2>6, <2>7, <2>8, <2>9, <2>10 DEF Client
<1>3. CASE UNCHANGED vars
  BY <1>3, GraphInvStutter
<1> QED
  BY <1>1, <1>2, <1>3 DEF Next

LEMMA GraphInvAlways == Spec => []GraphInv
BY GraphInvInit, GraphInvStep, PTL DEF Spec

-----------------------------------------------------------------------------
(* The members and the locals of a graph keep their types: no layer of a   *)
(* tensor falls outside the table of groups, no null gets into a schedule. *)
THEOREM GraphType == Spec => []TypeOK
<1>1. GraphInv => TypeOK
  BY DEF GraphInv
<1> QED
  BY <1>1, GraphInvAlways, PTL

(* Whatever a client does with a graph, between calls the getters hand out *)
(* live tensors only.                                                      *)
THEOREM GraphGettersHandOutLive == Spec => []GettersHandOutLiveTensors
<1>1. GraphInv => GettersHandOutLiveTensors
  BY IdleFacts DEF GettersHandOutLiveTensors
<1> QED
  BY <1>1, GraphInvAlways, PTL

(* No call of a graph touches a tensor that was deleted before.            *)
THEOREM GraphNoUseAfterFree == Spec => []NoUseAfterFree
<1>1. GraphInv => NoUseAfterFree
  BY DEF GraphInv, FaultIsNull, NoUseAfterFree
<1> QED
  BY <1>1, GraphInvAlways, PTL

(* After a sort that returned, the whole schedule speaks of the graph as   *)
(* it is.                                                                  *)
THEOREM GraphSortedScheduleCurrent == Spec => []SortedScheduleIsCurrent
<1>1. GraphInv => SortedScheduleIsCurrent
  BY DEF GraphInv
<1> QED
  BY <1>1, GraphInvAlways, PTL

(* A build or a rebuild that throws leaves a graph with a cycle in it, for *)
(* a client that keeps the contract: it adds no tensor twice.              *)
THEOREM GraphThrowLeavesTheCycle == Spec => []ThrowLeavesTheCycle
<1>1. GraphInv => ThrowLeavesTheCycle
  BY DEF GraphInv
<1> QED
  BY <1>1, GraphInvAlways, PTL

(* A device changes when a proxy is made, or when a build has succeeded    *)
(* and then for all of its tensors: no call that throws reaches the reset. *)
THEOREM GraphDevicesReset == Spec => DevicesResetBySuccess
<1>1. GraphInv /\ [Next]_vars =>
        [device' # device =>
           \/ \E t \in Tensor : heap[t] = "free" /\ heap'[t] = "live"
           \/ outcome' = "sorted" /\ \A t \in Owned : device'[t] = "UNKNOWN"]_vars
  <2> SUFFICES ASSUME GraphInv, Next, device' # device
               PROVE  \/ \E t \in Tensor : heap[t] = "free" /\ heap'[t] = "live"
                      \/ outcome' = "sorted" /\ \A t \in Owned : device'[t] = "UNKNOWN"
    OBVIOUS
  <2>1. TypeOK
    BY DEF GraphInv
  <2>2. CASE InCall
    <3>1. ReturnFromSort
      BY <2>2 DEF InCall, VisitTensor, FinishSearch, Sorting, ThrowFromSort, owner
    <3>2. \A t \in Owned \cap Tensor : device'[t] = "UNKNOWN"
      BY <3>1 DEF ReturnFromSort
    <3>3. Owned \subseteq Tensor
      BY <3>1, SortSchedulesOwned DEF GraphInv, InSort, ReturnFromSort, Owned, Range
    <3> QED
      BY <3>1, <3>2, <3>3 DEF ReturnFromSort
  <2>3. CASE Client
    <3>1. PICK o \in Live, proxy \in Tensor : InsertMemcpy(o, proxy)
      BY <2>3 DEF Client, NewTensor, SetSource, AddTensor, ReplaceOutput,
                  BuildFromOutputs, RebuildOrder, Clear, ExportDot, Destroy, owner
    <3>2. heap[proxy] = "free" /\ heap'[proxy] = "live"
      BY <2>1, <3>1 DEF InsertMemcpy, TypeOK
    <3> QED
      BY <3>2
  <2> QED
    BY <2>2, <2>3 DEF Next
<1> QED
  BY <1>1, GraphInvAlways, PTL DEF Spec, DevicesResetBySuccess

=============================================================================
