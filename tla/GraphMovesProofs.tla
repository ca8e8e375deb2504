--------------------------- MODULE GraphMovesProofs ---------------------------
(***************************************************************************)
(* Proofs about GraphMoves for any graphs and tensors: a tensor that was   *)
(* handed over has one owner until it is deleted, the graphs implement     *)
(* module Ownership, and the members of a graph travel together.           *)
(***************************************************************************)
EXTENDS GraphMoves, FiniteSetTheorems, SequenceTheorems, WellFoundedInduction, TLAPS

(* A graph is a record with a member all_tensors that holds tensors. *)
IsGraph(r) ==
  /\ "all_tensors" \in DOMAIN r
  /\ r = [f \in DOMAIN r |-> r[f]]
  /\ r.all_tensors \in Seq(Tensor)

Shape ==
  /\ exists \subseteq Graph
  /\ graph = [g \in Graph |-> graph[g]]
  /\ \A g \in Graph : IsGraph(graph[g])
  /\ heap \in [Tensor -> {"client", "handed", "deleted"}]

(* Handed over is what some graph owns, and no other owns it as well. *)
HandedIsOwned ==
  \A t \in Tensor : heap[t] = "handed" <=> \E g \in exists : t \in Owned(g)

NoTwoOwners ==
  \A g, h \in exists : \A t \in Tensor : t \in Owned(g) /\ t \in Owned(h) => g = h

OwnedOnce == \A g \in exists : IsInjective(graph[g].all_tensors)

OwnerInv == Shape /\ HandedIsOwned /\ NoTwoOwners /\ OwnedOnce

(***************************************************************************)
(* The invariant is the property OneOwnerUntilDeleted, read graph by graph.*)
(***************************************************************************)
LEMMA OwnerInvImpliesOneOwner == OwnerInv => OneOwnerUntilDeleted
<1>1. ASSUME OwnerInv, NEW t \in Tensor, heap[t] = "handed"
      PROVE  \E g \in exists : Holders(t) = {g}
  BY <1>1 DEF OwnerInv, HandedIsOwned, NoTwoOwners, Holders
<1>2. ASSUME OwnerInv, NEW t \in Tensor, heap[t] # "handed"
      PROVE  Holders(t) = {}
  BY <1>2 DEF OwnerInv, HandedIsOwned, Holders
<1> QED
  BY <1>1, <1>2 DEF OwnerInv, OwnedOnce, OneOwnerUntilDeleted

(***************************************************************************)
(* What a graph owns are tensors.                                          *)
(***************************************************************************)
LEMMA OwnedAreTensors == ASSUME Shape, NEW g \in Graph PROVE Owned(g) \subseteq Tensor
  BY DEF Shape, IsGraph, Owned, Range

(***************************************************************************)
(* An enumeration of a finite set by SetToSeqs is a sequence of all its    *)
(* members, each once.                                                     *)
(***************************************************************************)
LEMMA EnumerationsAreComplete ==
  ASSUME NEW S, IsFiniteSet(S), NEW f \in SetToSeqs(S)
  PROVE  f \in Seq(S) /\ IsInjective(f) /\ Range(f) = S
<1> DEFINE n == Cardinality(S)
<1>1. n \in Nat
  BY FS_CardinalityType
<1>2. f \in [1 .. n -> S] /\ \A i, j \in 1 .. n : i # j => f[i] # f[j]
  BY DEF SetToSeqs
<1>3. f \in Injection(1 .. n, S)
  BY <1>2 DEF Injection, IsInjective
<1>4. Cardinality(1 .. n) = n
  BY <1>1, FS_Interval
<1>5. f \in Surjection(1 .. n, S)
  BY <1>3, <1>4, FS_Injection
<1>6. Range(f) = S
  BY <1>2, <1>5 DEF Surjection, Range
<1>7. f \in Seq(S)
  BY <1>1, <1>2
<1> QED
  BY <1>3, <1>6, <1>7 DEF Injection

(***************************************************************************)
(* buildFromOutputs collects its distinct outputs.                         *)
(***************************************************************************)
LEMMA CollectedAreTheOutputs ==
  ASSUME NEW outputs \in Outputs, NEW all \in Collected(outputs)
  PROVE  all \in Seq(Tensor) /\ IsInjective(all) /\ Range(all) = Range(outputs)
                             /\ Range(outputs) \subseteq Tensor
<1>1. PICK n \in 0 .. MaxOutputs : outputs \in [1 .. n -> Tensor]
  BY DEF Outputs
<1>2. Range(outputs) \subseteq Tensor
  BY <1>1 DEF Range
<1>3. IsFiniteSet(Range(outputs))
  <2>1. outputs \in Surjection(1 .. n, Range(outputs))
    BY <1>1 DEF Surjection, Range
  <2>2. IsFiniteSet(1 .. n)
    BY <1>1, FS_Interval, OutputsAreCounted
  <2> QED
    BY <2>1, <2>2, FS_Surjection
<1>4. all \in SetToSeqs(Range(outputs))
  BY DEF Collected
<1>5. all \in Seq(Range(outputs)) /\ IsInjective(all) /\ Range(all) = Range(outputs)
  BY <1>3, <1>4, EnumerationsAreComplete
<1> QED
  BY <1>2, <1>5

-----------------------------------------------------------------------------
(* What a move does to the ownership of the graphs.                        *)
Moved(g, other) ==
  /\ Owned(g)' = Owned(other)
  /\ Owned(other)' = {}
  /\ \A h \in exists \ {g, other} : Owned(h)' = Owned(h)

(* What each step does to the lists of the graphs, and to what they own.   *)

LEMMA EmptyOwnsNothing == IsGraph(Empty) /\ Empty.all_tensors = <<>>
  BY DEF Empty, IsGraph

LEMMA SortKeepsTensors ==
  ASSUME NEW all \in Seq(Tensor), NEW outputs, NEW sorted \in SortsTo(all, outputs)
  PROVE  IsGraph(sorted) /\ sorted.all_tensors = all
<1>1. PICK level : sorted = Sorted(all, outputs, level)
  BY DEF SortsTo
<1> QED
  BY <1>1 DEF Sorted, IsGraph

(* One graph is given new members. *)
LEMMA AssignMembers ==
  ASSUME Shape, NEW g \in Graph, NEW r, graph' = [graph EXCEPT ![g] = r]
  PROVE  /\ graph' = [h \in Graph |-> graph'[h]]
         /\ graph'[g] = r
         /\ \A h \in Graph \ {g} : graph'[h] = graph[h]
  BY DEF Shape

(* One graph is given the members of another, which is left empty. *)
LEMMA MoveMembers ==
  ASSUME Shape, NEW g \in Graph, NEW other \in Graph, g # other,
         graph' = [graph EXCEPT ![g] = graph[other], ![other] = MovedFrom(other)]
  PROVE  /\ graph' = [h \in Graph |-> graph'[h]]
         /\ graph'[g] = graph[other]
         /\ graph'[other] = Empty
         /\ \A h \in Graph \ {g, other} : graph'[h] = graph[h]
  BY DEF Shape, MovedFrom

LEMMA DeleteAllFates ==
  ASSUME Shape, NEW g \in Graph, DeleteAll(g)
  PROVE  /\ heap' \in [Tensor -> {"client", "handed", "deleted"}]
         /\ \A t \in Tensor : heap'[t] = IF t \in Owned(g) THEN "deleted" ELSE heap[t]
  BY DEF Shape, DeleteAll

(* A list that grows by a tensor it does not have yet. *)
LEMMA AppendedList ==
  ASSUME NEW s \in Seq(Tensor), NEW t \in Tensor
  PROVE  /\ Append(s, t) \in Seq(Tensor)
         /\ Range(Append(s, t)) = Range(s) \cup {t}
         /\ IsInjective(s) /\ t \notin Range(s) => IsInjective(Append(s, t))
<1> DEFINE a == Append(s, t)
<1>1. /\ a \in Seq(Tensor)
      /\ DOMAIN a = 1 .. Len(s) + 1
      /\ DOMAIN s = 1 .. Len(s)
      /\ \A i \in 1 .. Len(s) : a[i] = s[i]
      /\ a[Len(s) + 1] = t
  OBVIOUS
<1>2. Len(s) \in Nat
  OBVIOUS
<1> HIDE DEF a
<1>3. Range(a) = Range(s) \cup {t}
  BY <1>1, <1>2 DEF Range
<1>4. ASSUME IsInjective(s), t \notin Range(s) PROVE IsInjective(a)
  BY <1>1, <1>2, <1>4 DEF IsInjective, Range
<1> QED
  BY <1>1, <1>3, <1>4 DEF a

(* The list of one graph grows by one tensor, the others keep theirs. *)
LEMMA AddTensorMembers ==
  ASSUME Shape, NEW g \in Graph, NEW t \in Tensor,
         graph' = [graph EXCEPT ![g].all_tensors = Append(@, t)]
  PROVE  /\ graph' = [h \in Graph |-> graph'[h]]
         /\ graph'[g].all_tensors = Append(graph[g].all_tensors, t)
         /\ IsGraph(graph'[g])
         /\ \A h \in Graph \ {g} : graph'[h] = graph[h]
<1> DEFINE r == [graph[g] EXCEPT !.all_tensors = Append(graph[g].all_tensors, t)]
<1>1. graph' = [graph EXCEPT ![g] = r]
  OBVIOUS
<1>2. /\ r.all_tensors = Append(graph[g].all_tensors, t)
      /\ IsGraph(r)
  BY AppendedList DEF Shape, IsGraph
<1> HIDE DEF r
<1> QED
  BY <1>1, <1>2, AssignMembers

-----------------------------------------------------------------------------
(* The invariant step by step. *)

LEMMA ConstructKeeps ==
  ASSUME OwnerInv, NEW g \in Graph, Construct(g) PROVE OwnerInv'
<1>1. /\ g \notin exists /\ exists' = exists \cup {g} /\ heap' = heap
      /\ exists \subseteq Graph
  BY DEF OwnerInv, Shape, Construct
<1>2. /\ graph' = [h \in Graph |-> graph'[h]]
      /\ graph'[g] = Empty
      /\ \A h \in Graph \ {g} : graph'[h] = graph[h]
  BY AssignMembers DEF OwnerInv, Construct
<1>3. Shape'
  BY <1>1, <1>2, EmptyOwnsNothing DEF OwnerInv, Shape
<1>4. Range(<<>>) = {} /\ IsInjective(<<>>)
  BY DEF Range, IsInjective
<1>5. /\ \A h \in exists : Owned(h)' = Owned(h)
      /\ Owned(g)' = {}
  BY <1>1, <1>2, <1>4, EmptyOwnsNothing DEF Owned
<1>6. HandedIsOwned' /\ NoTwoOwners'
  BY <1>1, <1>5 DEF OwnerInv, HandedIsOwned, NoTwoOwners
<1>7. OwnedOnce'
  BY <1>1, <1>2, <1>4, EmptyOwnsNothing DEF OwnerInv, OwnedOnce
<1> QED
  BY <1>3, <1>6, <1>7 DEF OwnerInv

LEMMA MoveConstructKeeps ==
  ASSUME OwnerInv, NEW g \in Graph, NEW other \in exists, MoveConstruct(g, other)
  PROVE  OwnerInv' /\ Moved(g, other)
<1>1. other \in Graph /\ g # other /\ exists' = exists \cup {g} /\ heap' = heap
        /\ g \notin exists
  BY DEF OwnerInv, Shape, MoveConstruct
<1>2. /\ graph' = [h \in Graph |-> graph'[h]]
      /\ graph'[g] = graph[other]
      /\ graph'[other] = Empty
      /\ \A h \in Graph \ {g, other} : graph'[h] = graph[h]
  BY <1>1, MoveMembers DEF OwnerInv, MoveConstruct
<1>3. Shape'
  BY <1>1, <1>2, EmptyOwnsNothing DEF OwnerInv, Shape
<1>4. Range(<<>>) = {} /\ IsInjective(<<>>)
  BY DEF Range, IsInjective
<1>5. Moved(g, other)
  BY <1>1, <1>2, <1>4, EmptyOwnsNothing DEF Moved, Owned, OwnerInv, Shape
<1>6. HandedIsOwned' /\ NoTwoOwners'
  BY <1>1, <1>5 DEF Moved, OwnerInv, HandedIsOwned, NoTwoOwners
<1>7. OwnedOnce'
  BY <1>1, <1>2, <1>4, EmptyOwnsNothing DEF OwnerInv, Shape, OwnedOnce
<1> QED
  BY <1>3, <1>5, <1>6, <1>7 DEF OwnerInv

LEMMA MoveAssignKeeps ==
  ASSUME OwnerInv, NEW g \in exists, NEW other \in exists, g # other,
         MoveAssign(g, other)
  PROVE  OwnerInv' /\ Moved(g, other)
<1>1. g \in Graph /\ other \in Graph /\ exists' = exists /\ DeleteAll(g)
  BY DEF OwnerInv, Shape, MoveAssign
<1>2. /\ graph' = [h \in Graph |-> graph'[h]]
      /\ graph'[g] = graph[other]
      /\ graph'[other] = Empty
      /\ \A h \in Graph \ {g, other} : graph'[h] = graph[h]
  BY <1>1, MoveMembers DEF OwnerInv, MoveAssign
<1>3. /\ heap' \in [Tensor -> {"client", "handed", "deleted"}]
      /\ \A t \in Tensor : heap'[t] = IF t \in Owned(g) THEN "deleted" ELSE heap[t]
  BY <1>1, DeleteAllFates DEF OwnerInv
<1>4. Shape'
  BY <1>1, <1>2, <1>3, EmptyOwnsNothing DEF OwnerInv, Shape
<1>5. Range(<<>>) = {} /\ IsInjective(<<>>)
  BY DEF Range, IsInjective
<1>6. Moved(g, other)
  BY <1>1, <1>2, <1>5, EmptyOwnsNothing DEF Moved, Owned, OwnerInv, Shape
<1>7. HandedIsOwned'
  BY <1>1, <1>3, <1>6 DEF Moved, OwnerInv, HandedIsOwned, NoTwoOwners
<1>8. NoTwoOwners'
  BY <1>1, <1>6 DEF Moved, OwnerInv, NoTwoOwners
<1>9. OwnedOnce'
  BY <1>1, <1>2, <1>5, EmptyOwnsNothing DEF OwnerInv, Shape, OwnedOnce
<1> QED
  BY <1>4, <1>6, <1>7, <1>8, <1>9 DEF OwnerInv

LEMMA AssignToItself ==
  ASSUME NEW g, MoveAssign(g, g) PROVE UNCHANGED vars
  BY DEF MoveAssign, vars

LEMMA StutterKeeps == ASSUME OwnerInv, UNCHANGED vars PROVE OwnerInv'
  BY DEF vars, OwnerInv, Shape, HandedIsOwned, NoTwoOwners, OwnedOnce, Owned

LEMMA AddTensorKeeps ==
  ASSUME OwnerInv, NEW g \in exists, NEW t \in Tensor, AddTensor(g, t)
  PROVE  /\ OwnerInv'
         /\ Owned(g)' = Owned(g) \cup {t}
         /\ \A h \in exists \ {g} : Owned(h)' = Owned(h)
<1>1. /\ g \in Graph /\ exists' = exists
      /\ heap[t] = "client" /\ heap' = [heap EXCEPT ![t] = "handed"]
      /\ heap' \in [Tensor -> {"client", "handed", "deleted"}]
      /\ \A u \in Tensor : heap'[u] = IF u = t THEN "handed" ELSE heap[u]
  BY DEF OwnerInv, Shape, AddTensor
<1>2. /\ graph' = [h \in Graph |-> graph'[h]]
      /\ graph'[g].all_tensors = Append(graph[g].all_tensors, t)
      /\ IsGraph(graph'[g])
      /\ \A h \in Graph \ {g} : graph'[h] = graph[h]
  BY <1>1, AddTensorMembers DEF OwnerInv, AddTensor
<1>3. Shape'
  BY <1>1, <1>2 DEF OwnerInv, Shape
<1>4. graph[g].all_tensors \in Seq(Tensor)
  BY <1>1 DEF OwnerInv, Shape, IsGraph
<1>5. /\ Owned(g)' = Owned(g) \cup {t}
      /\ \A h \in exists \ {g} : Owned(h)' = Owned(h)
  BY <1>1, <1>2, <1>4, AppendedList DEF Owned, OwnerInv, Shape
<1>6. \A h \in exists : t \notin Owned(h)
  BY <1>1 DEF OwnerInv, HandedIsOwned
<1>7. HandedIsOwned' /\ NoTwoOwners'
  BY <1>1, <1>5, <1>6 DEF OwnerInv, HandedIsOwned, NoTwoOwners
<1>8. IsInjective(graph'[g].all_tensors)
  BY <1>2, <1>4, <1>6, AppendedList DEF OwnerInv, OwnedOnce, Owned
<1>9. OwnedOnce'
  BY <1>1, <1>2, <1>8 DEF OwnerInv, Shape, OwnedOnce
<1> QED
  BY <1>3, <1>5, <1>7, <1>9 DEF OwnerInv

LEMMA RebuildOrderKeeps ==
  ASSUME OwnerInv, NEW g \in exists, RebuildOrder(g)
  PROVE  OwnerInv' /\ \A h \in exists : Owned(h)' = Owned(h)
<1>1. g \in Graph /\ exists' = exists /\ heap' = heap
        /\ graph[g].all_tensors \in Seq(Tensor)
  BY DEF OwnerInv, Shape, IsGraph, RebuildOrder
<1>2. PICK sorted \in SortsTo(graph[g].all_tensors, graph[g].external_outputs) :
        graph' = [graph EXCEPT ![g] = sorted]
  BY DEF RebuildOrder
<1>3. IsGraph(sorted) /\ sorted.all_tensors = graph[g].all_tensors
  BY <1>1, SortKeepsTensors
<1>4. /\ graph' = [h \in Graph |-> graph'[h]]
      /\ graph'[g] = sorted
      /\ \A h \in Graph \ {g} : graph'[h] = graph[h]
  BY <1>1, <1>2, AssignMembers DEF OwnerInv
<1>5. Shape'
  BY <1>1, <1>3, <1>4 DEF OwnerInv, Shape
<1>6. \A h \in exists : graph'[h].all_tensors = graph[h].all_tensors
  BY <1>3, <1>4 DEF OwnerInv, Shape
<1>7. \A h \in exists : Owned(h)' = Owned(h)
  BY <1>6 DEF Owned
<1>8. HandedIsOwned' /\ NoTwoOwners' /\ OwnedOnce'
  BY <1>1, <1>6, <1>7 DEF OwnerInv, HandedIsOwned, NoTwoOwners, OwnedOnce
<1> QED
  BY <1>5, <1>7, <1>8 DEF OwnerInv

(* g gives up what it owned for the tensors of S, of the client.           *)
Restarts(g, S) ==
  /\ \A t \in S : heap[t] = "client"
  /\ heap' = [t \in Tensor |-> IF t \in S THEN "handed"
                               ELSE IF t \in Owned(g) THEN "deleted" ELSE heap[t]]
  /\ \E r : /\ IsGraph(r) /\ IsInjective(r.all_tensors) /\ Range(r.all_tensors) = S
            /\ graph' = [graph EXCEPT ![g] = r]
  /\ exists' = exists \/ (exists' = exists \ {g} /\ S = {})

LEMMA RestartsKeeps ==
  ASSUME OwnerInv, NEW g \in exists, NEW S \in SUBSET Tensor, Restarts(g, S)
  PROVE  /\ OwnerInv'
         /\ Owned(g)' = S
         /\ \A h \in exists \ {g} : Owned(h)' = Owned(h)
<1>1. /\ g \in Graph /\ exists' \subseteq exists /\ exists \subseteq Graph
      /\ \A t \in S : heap[t] = "client"
      /\ heap' \in [Tensor -> {"client", "handed", "deleted"}]
      /\ \A t \in Tensor : heap'[t] = IF t \in S THEN "handed"
                           ELSE IF t \in Owned(g) THEN "deleted" ELSE heap[t]
      /\ exists' = exists \/ (exists' = exists \ {g} /\ S = {})
  BY DEF OwnerInv, Shape, Restarts
<1>2. PICK r : /\ IsGraph(r) /\ IsInjective(r.all_tensors) /\ Range(r.all_tensors) = S
               /\ graph' = [graph EXCEPT ![g] = r]
  BY DEF Restarts
<1>3. /\ graph' = [h \in Graph |-> graph'[h]]
      /\ graph'[g] = r
      /\ \A h \in Graph \ {g} : graph'[h] = graph[h]
  BY <1>1, <1>2, AssignMembers DEF OwnerInv
<1>4. Shape'
  BY <1>1, <1>2, <1>3 DEF OwnerInv, Shape
<1>5. /\ Owned(g)' = S
      /\ \A h \in exists \ {g} : Owned(h)' = Owned(h)
  BY <1>1, <1>2, <1>3 DEF Owned
<1>6. \A h \in exists : \A t \in S : t \notin Owned(h)
  BY <1>1 DEF OwnerInv, HandedIsOwned
<1>7. HandedIsOwned'
  BY <1>1, <1>5, <1>6 DEF OwnerInv, HandedIsOwned, NoTwoOwners
<1>8. NoTwoOwners'
  BY <1>1, <1>5, <1>6 DEF OwnerInv, NoTwoOwners
<1>9. OwnedOnce'
  BY <1>1, <1>2, <1>3 DEF OwnerInv, OwnedOnce
<1> QED
  BY <1>4, <1>5, <1>7, <1>8, <1>9 DEF OwnerInv

LEMMA ClearRestarts ==
  ASSUME OwnerInv, NEW g \in exists, Clear(g) \/ Destroy(g)
  PROVE  Restarts(g, {})
<1>1. heap' = [t \in Tensor |-> IF t \in {} THEN "handed"
                                ELSE IF t \in Owned(g) THEN "deleted" ELSE heap[t]]
  BY DEF Clear, Destroy, DeleteAll
<1>2. IsGraph(Empty) /\ IsInjective(Empty.all_tensors) /\ Range(Empty.all_tensors) = {}
  BY EmptyOwnsNothing DEF IsInjective, Range
<1>3. graph' = [graph EXCEPT ![g] = Empty] /\ (exists' = exists \/ exists' = exists \ {g})
  BY DEF Clear, Destroy
<1> QED
  BY <1>1, <1>2, <1>3 DEF Restarts

LEMMA BuildRestarts ==
  ASSUME OwnerInv, NEW g \in exists, NEW outputs \in Outputs, BuildFromOutputs(g, outputs)
  PROVE  Range(outputs) \subseteq Tensor /\ Restarts(g, Range(outputs))
<1>1. PICK all \in Collected(outputs) : \E sorted \in SortsTo(all, outputs) :
        graph' = [graph EXCEPT ![g] = sorted]
  BY DEF BuildFromOutputs
<1>2. PICK sorted \in SortsTo(all, outputs) : graph' = [graph EXCEPT ![g] = sorted]
  BY <1>1
<1>3. /\ all \in Seq(Tensor) /\ IsInjective(all) /\ Range(all) = Range(outputs)
      /\ Range(outputs) \subseteq Tensor
  BY CollectedAreTheOutputs
<1>4. IsGraph(sorted) /\ sorted.all_tensors = all
  BY <1>3, SortKeepsTensors
<1>5. /\ \A t \in Range(outputs) : heap[t] = "client"
      /\ heap' = [t \in Tensor |-> IF t \in Range(outputs) THEN "handed"
                                   ELSE IF t \in Owned(g) THEN "deleted" ELSE heap[t]]
      /\ exists' = exists
  BY DEF BuildFromOutputs
<1>6. /\ IsGraph(sorted) /\ IsInjective(sorted.all_tensors)
      /\ Range(sorted.all_tensors) = Range(outputs)
  BY <1>3, <1>4
<1>7. \E r : /\ IsGraph(r) /\ IsInjective(r.all_tensors) /\ Range(r.all_tensors) = Range(outputs)
             /\ graph' = [graph EXCEPT ![g] = r]
  BY <1>2, <1>6
<1>8. Restarts(g, Range(outputs))
  BY <1>5, <1>7 DEF Restarts
<1> QED
  BY <1>3, <1>8

-----------------------------------------------------------------------------
LEMMA InitOwner == Init => OwnerInv
<1> SUFFICES ASSUME Init PROVE OwnerInv
  OBVIOUS
<1>1. exists = {} /\ heap = [t \in Tensor |-> "client"]
        /\ graph = [g \in Graph |-> Empty]
  BY DEF Init
<1>2. Shape
  BY <1>1, EmptyOwnsNothing DEF Shape
<1> QED
  BY <1>1, <1>2 DEF OwnerInv, HandedIsOwned, NoTwoOwners, OwnedOnce

LEMMA NextKeepsOwner == OwnerInv /\ [Next]_vars => OwnerInv'
<1> SUFFICES ASSUME OwnerInv, [Next]_vars PROVE OwnerInv'
  OBVIOUS
<1>1. ASSUME NEW g \in Graph, Construct(g) PROVE OwnerInv'
  BY <1>1, ConstructKeeps
<1>2. ASSUME NEW g \in Graph, NEW other \in exists, MoveConstruct(g, other) PROVE OwnerInv'
  BY <1>2, MoveConstructKeeps
<1>3. ASSUME NEW g \in exists, NEW other \in exists, MoveAssign(g, other) PROVE OwnerInv'
  BY <1>3, MoveAssignKeeps, AssignToItself, StutterKeeps
<1>4. ASSUME NEW g \in exists, NEW t \in Tensor, AddTensor(g, t) PROVE OwnerInv'
  BY <1>4, AddTensorKeeps
<1>5. ASSUME NEW g \in exists, NEW outputs \in Outputs, BuildFromOutputs(g, outputs)
      PROVE  OwnerInv'
  BY <1>5, BuildRestarts, RestartsKeeps
<1>6. ASSUME NEW g \in exists, RebuildOrder(g) PROVE OwnerInv'
  BY <1>6, RebuildOrderKeeps
<1>7. ASSUME NEW g \in exists, Clear(g) \/ Destroy(g) PROVE OwnerInv'
  BY <1>7, ClearRestarts, RestartsKeeps
<1>8. CASE UNCHANGED vars
  BY <1>8, StutterKeeps
<1> QED
  BY <1>1, <1>2, <1>3, <1>4, <1>5, <1>6, <1>7, <1>8 DEF Next

(***************************************************************************)
(* For any number of graphs and tensors and any sequence of moves, builds, *)
(* clears and destructions, a tensor that was handed over has one owner    *)
(* until it is deleted.                                                    *)
(***************************************************************************)
THEOREM MovesKeepOneOwner == Spec => []OneOwnerUntilDeleted
<1>1. Init => OwnerInv
  BY InitOwner
<1> QED
  BY <1>1, NextKeepsOwner, OwnerInvImpliesOneOwner, PTL DEF Spec

-----------------------------------------------------------------------------
(* The owner that module Ownership speaks of.                              *)
OwnerFacts ==
  \A t \in Tensor :
    /\ heap[t] # "handed" => OwnerOf(t) = heap[t] /\ \A g \in exists : t \notin Owned(g)
    /\ heap[t] = "handed" => \E g \in exists : t \in Owned(g)
    /\ \A g \in exists : t \in Owned(g) => heap[t] = "handed" /\ OwnerOf(t) = g

LEMMA OwnerInvGivesOwners == OwnerInv => OwnerFacts
<1> SUFFICES ASSUME OwnerInv, NEW t \in Tensor
             PROVE  /\ heap[t] # "handed" => OwnerOf(t) = heap[t]
                                              /\ \A g \in exists : t \notin Owned(g)
                    /\ heap[t] = "handed" => \E g \in exists : t \in Owned(g)
                    /\ \A g \in exists : t \in Owned(g) =>
                          heap[t] = "handed" /\ OwnerOf(t) = g
  BY DEF OwnerFacts
<1>1. heap[t] = "handed" <=> \E g \in exists : t \in Owned(g)
  BY DEF OwnerInv, HandedIsOwned
<1>2. ASSUME NEW g \in exists, t \in Owned(g) PROVE OwnerOf(t) = g
  <2>1. Holders(t) = {g}
    BY <1>2 DEF OwnerInv, NoTwoOwners, Holders
  <2>2. \A h \in exists : Holders(t) = {h} => h = g
    BY <2>1
  <2> QED
    BY <1>1, <1>2, <2>1, <2>2 DEF OwnerOf
<1> QED
  BY <1>1, <1>2 DEF OwnerOf

LEMMA OwnersAfter == (OwnerInv => OwnerFacts)'
  BY OwnerInvGivesOwners, PTL

(* Each step does to the owners what module Ownership allows.              *)
LEMMA MoveImplements ==
  ASSUME OwnerInv, OwnerInv', NEW g \in Graph, NEW other \in exists, g # other,
         MoveConstruct(g, other) \/ (g \in exists /\ MoveAssign(g, other))
  PROVE  Promised!TakeOver(g, other)
<1>1. /\ other \in Graph /\ exists' = exists \cup {g} /\ exists \subseteq Graph
      /\ heap \in [Tensor -> {"client", "handed", "deleted"}]
      /\ Moved(g, other)
  BY MoveConstructKeeps, MoveAssignKeeps DEF OwnerInv, Shape, MoveConstruct, MoveAssign
<1>2. \A t \in Tensor :
        heap'[t] = IF g \in exists /\ t \in Owned(g) THEN "deleted" ELSE heap[t]
  BY <1>1 DEF MoveConstruct, MoveAssign, DeleteAll
<1>3. OwnerFacts /\ OwnerFacts'
  BY OwnerInvGivesOwners, OwnersAfter
<1>4. ASSUME NEW t \in Tensor
      PROVE  OwnerOf(t)' = IF OwnerOf(t) = other THEN g
                           ELSE IF OwnerOf(t) = g THEN "deleted" ELSE OwnerOf(t)
  <2>1. CASE heap[t] # "handed"
    BY <1>1, <1>2, <1>3, <2>1, GraphsAreObjects DEF OwnerFacts
  <2>2. ASSUME NEW h \in exists, t \in Owned(h)
        PROVE  OwnerOf(t)' = IF OwnerOf(t) = other THEN g
                             ELSE IF OwnerOf(t) = g THEN "deleted" ELSE OwnerOf(t)
    <3>1. OwnerOf(t) = h /\ heap[t] = "handed"
      BY <1>3, <2>2 DEF OwnerFacts
    <3>2. CASE h = other
      <4>1. t \in Owned(g)'
        BY <1>1, <2>2, <3>2 DEF Moved
      <4> QED
        BY <1>1, <1>3, <3>1, <3>2, <4>1 DEF OwnerFacts
    <3>3. CASE h = g
      <4>1. heap'[t] = "deleted"
        BY <1>2, <2>2, <3>3
      <4> QED
        BY <1>3, <3>1, <3>3, <4>1 DEF OwnerFacts
    <3>4. CASE h # g /\ h # other
      <4>1. t \in Owned(h)' /\ h \in exists'
        BY <1>1, <2>2, <3>4 DEF Moved
      <4> QED
        BY <1>3, <3>1, <3>4, <4>1 DEF OwnerFacts
    <3> QED
      BY <3>2, <3>3, <3>4
  <2> QED
    BY <1>3, <2>1, <2>2 DEF OwnerFacts
<1> QED
  BY <1>4 DEF Promised!TakeOver, Promised!GiveUpFor

LEMMA AddTensorImplements ==
  ASSUME OwnerInv, OwnerInv', NEW g \in exists, NEW t \in Tensor, AddTensor(g, t)
  PROVE  Promised!HandOver(g, t)
<1>1. /\ heap[t] = "client" /\ exists' = exists
      /\ \A u \in Tensor \ {t} : heap'[u] = heap[u]
      /\ Owned(g)' = Owned(g) \cup {t}
      /\ \A h \in exists \ {g} : Owned(h)' = Owned(h)
  BY AddTensorKeeps DEF AddTensor, OwnerInv, Shape
<1>2. OwnerFacts /\ OwnerFacts'
  BY OwnerInvGivesOwners, OwnersAfter
<1>3. OwnerOf(t) = "client" /\ OwnerOf(t)' = g
  BY <1>1, <1>2 DEF OwnerFacts
<1>4. ASSUME NEW u \in Tensor \ {t} PROVE OwnerOf(u)' = OwnerOf(u)
  <2>1. CASE heap[u] # "handed"
    BY <1>1, <1>2, <2>1 DEF OwnerFacts
  <2>2. ASSUME NEW h \in exists, u \in Owned(h) PROVE OwnerOf(u)' = OwnerOf(u)
    <3>1. u \in Owned(h)' /\ h \in exists'
      BY <1>1, <2>2
    <3> QED
      BY <1>2, <2>2, <3>1 DEF OwnerFacts
  <2> QED
    BY <1>2, <2>1, <2>2 DEF OwnerFacts
<1> QED
  BY <1>3, <1>4 DEF Promised!HandOver

LEMMA RestartsImplements ==
  ASSUME OwnerInv, OwnerInv', NEW g \in exists, NEW S \in SUBSET Tensor, Restarts(g, S)
  PROVE  Promised!Restart(g, S)
<1>1. /\ \A t \in S : heap[t] = "client"
      /\ \A t \in Tensor : heap'[t] = IF t \in S THEN "handed"
                           ELSE IF t \in Owned(g) THEN "deleted" ELSE heap[t]
      /\ exists \ {g} \subseteq exists' /\ (S # {} => g \in exists') /\ g \in Graph
      /\ exists \subseteq Graph /\ heap \in [Tensor -> {"client", "handed", "deleted"}]
  BY DEF Restarts, OwnerInv, Shape
<1>2. Owned(g)' = S /\ \A h \in exists \ {g} : Owned(h)' = Owned(h)
  BY RestartsKeeps
<1>3. OwnerFacts /\ OwnerFacts'
  BY OwnerInvGivesOwners, OwnersAfter
<1>4. \A t \in S : OwnerOf(t) = "client"
  BY <1>1, <1>3 DEF OwnerFacts
<1>5. ASSUME NEW t \in Tensor
      PROVE  OwnerOf(t)' = IF t \in S THEN g
                           ELSE IF OwnerOf(t) = g THEN "deleted" ELSE OwnerOf(t)
  <2>1. CASE t \in S
    BY <1>1, <1>2, <1>3, <2>1 DEF OwnerFacts
  <2>2. CASE t \notin S /\ heap[t] # "handed"
    <3>1. t \notin Owned(g)
      BY <1>3, <2>2 DEF OwnerFacts
    <3> QED
      BY <1>1, <1>3, <2>2, <3>1, GraphsAreObjects DEF OwnerFacts
  <2>3. CASE t \notin S /\ t \in Owned(g)
    BY <1>1, <1>3, <2>3 DEF OwnerFacts
  <2>4. ASSUME t \notin S, NEW h \in exists, h # g, t \in Owned(h)
        PROVE  OwnerOf(t)' = OwnerOf(t) /\ OwnerOf(t) # g
    <3>1. t \in Owned(h)' /\ h \in exists'
      BY <1>1, <1>2, <2>4
    <3> QED
      BY <1>3, <2>4, <3>1 DEF OwnerFacts
  <2> QED
    BY <1>3, <2>1, <2>2, <2>3, <2>4 DEF OwnerFacts
<1> QED
  BY <1>4, <1>5 DEF Promised!Restart, Promised!GiveUpFor

(* Where ownership does not change the owners do not either.               *)
LEMMA SameOwners ==
  ASSUME OwnerInv, OwnerInv', heap' = heap, exists \subseteq exists',
         \A h \in exists : Owned(h)' = Owned(h)
  PROVE  \A t \in Tensor : OwnerOf(t)' = OwnerOf(t)
<1>1. OwnerFacts /\ OwnerFacts'
  BY OwnerInvGivesOwners, OwnersAfter
<1>2. ASSUME NEW t \in Tensor PROVE OwnerOf(t)' = OwnerOf(t)
  <2>1. CASE heap[t] # "handed"
    BY <1>1, <2>1 DEF OwnerFacts
  <2>2. ASSUME NEW h \in exists, t \in Owned(h) PROVE OwnerOf(t)' = OwnerOf(t)
    <3>1. t \in Owned(h)' /\ h \in exists'
      BY <2>2
    <3> QED
      BY <1>1, <2>2, <3>1 DEF OwnerFacts
  <2> QED
    BY <1>1, <2>1, <2>2 DEF OwnerFacts
<1> QED
  BY <1>2

LEMMA ConstructOwners ==
  ASSUME OwnerInv, NEW g \in Graph, Construct(g)
  PROVE  /\ heap' = heap /\ exists \subseteq exists'
         /\ \A h \in exists : Owned(h)' = Owned(h)
<1>1. /\ g \notin exists /\ exists' = exists \cup {g} /\ heap' = heap
      /\ exists \subseteq Graph /\ graph' = [graph EXCEPT ![g] = Empty]
  BY DEF OwnerInv, Shape, Construct
<1>2. \A h \in exists : graph'[h] = graph[h]
  BY <1>1, AssignMembers DEF OwnerInv
<1> QED
  BY <1>1, <1>2 DEF Owned

LEMMA OwnersStutter ==
  ASSUME \A t \in Tensor : OwnerOf(t)' = OwnerOf(t)
  PROVE  [t \in Tensor |-> OwnerOf(t)]' = [t \in Tensor |-> OwnerOf(t)]
  OBVIOUS

LEMMA NextImplements ==
  OwnerInv /\ OwnerInv' /\ [Next]_vars =>
    [Promised!Next]_([t \in Tensor |-> OwnerOf(t)])
<1> SUFFICES ASSUME OwnerInv, OwnerInv', [Next]_vars
             PROVE  Promised!Next \/ \A t \in Tensor : OwnerOf(t)' = OwnerOf(t)
  BY OwnersStutter
<1> USE DEF Promised!Next
<1>1. exists \subseteq Graph
  BY DEF OwnerInv, Shape
<1>2. ASSUME NEW g \in Graph, Construct(g)
      PROVE  \A t \in Tensor : OwnerOf(t)' = OwnerOf(t)
  BY <1>2, ConstructOwners, SameOwners
<1>3. ASSUME NEW g \in Graph, NEW other \in exists, MoveConstruct(g, other)
      PROVE  Promised!Next
  <2>1. g # other
    BY <1>3 DEF MoveConstruct
  <2>2. Promised!TakeOver(g, other)
    BY <1>3, <2>1, MoveImplements
  <2> QED
    BY <1>1, <2>2
<1>4. ASSUME NEW g \in exists, NEW other \in exists, g # other, MoveAssign(g, other)
      PROVE  Promised!Next
  <2>1. Promised!TakeOver(g, other)
    BY <1>1, <1>4, MoveImplements
  <2> QED
    BY <1>1, <2>1
<1>5. ASSUME UNCHANGED vars PROVE \A t \in Tensor : OwnerOf(t)' = OwnerOf(t)
  BY <1>5 DEF vars, OwnerOf, Holders, Owned
<1>6. ASSUME NEW g \in exists, MoveAssign(g, g)
      PROVE  \A t \in Tensor : OwnerOf(t)' = OwnerOf(t)
  BY <1>5, <1>6, AssignToItself
<1>7. ASSUME NEW g \in exists, NEW t \in Tensor, AddTensor(g, t) PROVE Promised!Next
  <2>1. Promised!HandOver(g, t)
    BY <1>7, AddTensorImplements
  <2> QED
    BY <1>1, <2>1
<1>8. ASSUME NEW g \in exists, NEW S \in SUBSET Tensor, Restarts(g, S) PROVE Promised!Next
  <2>1. Promised!Restart(g, S)
    BY <1>8, RestartsImplements
  <2> QED
    BY <1>1, <2>1
<1>9. ASSUME NEW g \in exists, NEW outputs \in Outputs, BuildFromOutputs(g, outputs)
      PROVE  Promised!Next
  BY <1>8, <1>9, BuildRestarts
<1>10. ASSUME NEW g \in exists, Clear(g) \/ Destroy(g) PROVE Promised!Next
  BY <1>8, <1>10, ClearRestarts
<1>11. ASSUME NEW g \in exists, RebuildOrder(g)
       PROVE  \A t \in Tensor : OwnerOf(t)' = OwnerOf(t)
  <2>1. heap' = heap /\ exists' = exists /\ \A h \in exists : Owned(h)' = Owned(h)
    BY <1>11, RebuildOrderKeeps DEF RebuildOrder
  <2> QED
    BY <2>1, SameOwners
<1> HIDE DEF Promised!Next
<1> QED
  BY <1>2, <1>3, <1>4, <1>5, <1>6, <1>7, <1>9, <1>10, <1>11 DEF Next

LEMMA InitImplements == Init => Promised!Init
  BY DEF Init, Promised!Init, OwnerOf

(***************************************************************************)
(* The graphs, however many and however they are moved, implement module   *)
(* Ownership.                                                              *)
(***************************************************************************)
THEOREM MovesImplementOwnership == Spec => ImplementsOwnership
<1>1. Init => OwnerInv
  BY InitOwner
<1> QED
  BY <1>1, NextKeepsOwner, InitImplements, NextImplements, PTL
     DEF Spec, ImplementsOwnership, Promised!Spec

-----------------------------------------------------------------------------
(* The members of a graph.  A sequence of natural numbers is reached by    *)
(* induction; the function that Selected recurses on exists, being built   *)
(* up argument by argument.                                                *)
LEMMA Induction ==
  ASSUME NEW T, 0 \in T, \A n \in Nat : n \in T => n + 1 \in T
  PROVE  \A n \in Nat : n \in T
<1> SUFFICES ASSUME Nat \ T # {} PROVE FALSE
  OBVIOUS
<1>1. IsWellFoundedOn(OpToRel(<, Nat), Nat)
  BY NatLessThanWellFounded
<1>2. PICK m \in Nat \ T : \A n \in Nat \ T : ~(<<n, m>> \in OpToRel(<, Nat))
  BY <1>1, WFMin
<1>3. \A n \in Nat \ T : ~(n < m)
  BY <1>2 DEF OpToRel
<1>4. m - 1 \in Nat /\ m - 1 \in T
  BY <1>3
<1> QED
  BY <1>4

LEMMA SelectedAreMembers ==
  ASSUME NEW s \in Seq(Tensor), NEW S
  PROVE  Selected(s, S) \in Seq(Tensor) /\ Range(Selected(s, S)) \subseteq Range(s)
<1> DEFINE Step(q, n) == IF s[n] \in S THEN Append(q, s[n]) ELSE q
           IsSelected(f, N) ==
             f = [n \in 0 .. N |-> IF n = 0 THEN <<>> ELSE Step(f[n - 1], n)]
           Recursed == {N \in Nat : \E f : IsSelected(f, N)}
           selected == CHOOSE f : IsSelected(f, Len(s))
           Sound(q) == q \in Seq(Tensor) /\ Range(q) \subseteq Range(s)
           Good == {n \in Nat : n <= Len(s) => Sound(selected[n])}
<1>1. Selected(s, S) = selected[Len(s)]
  BY DEF Selected
<1>2. Len(s) \in Nat /\ DOMAIN s = 1 .. Len(s)
  OBVIOUS
<1>3. \A N \in Nat : N \in Recursed
  <2>1. 0 \in Recursed
    <3>1. IsSelected([n \in 0 .. 0 |-> <<>>], 0)
      OBVIOUS
    <3> QED
      BY <3>1
  <2>2. ASSUME NEW N \in Nat, N \in Recursed PROVE N + 1 \in Recursed
    <3> HIDE DEF Step
    <3>1. PICK f : IsSelected(f, N)
      BY <2>2
    <3> DEFINE g == [n \in 0 .. N + 1 |-> IF n = N + 1 THEN Step(f[N], N + 1) ELSE f[n]]
    <3>2. g = [n \in 0 .. N + 1 |-> IF n = 0 THEN <<>> ELSE Step(g[n - 1], n)]
      <4> SUFFICES ASSUME NEW n \in 0 .. N + 1
                   PROVE  g[n] = IF n = 0 THEN <<>> ELSE Step(g[n - 1], n)
        OBVIOUS
      <4>1. CASE n = N + 1
        BY <4>1
      <4>2. CASE n # N + 1
        <5>1. n \in 0 .. N /\ g[n] = f[n]
          BY <4>2
        <5>2. n # 0 => g[n - 1] = f[n - 1]
          BY <5>1
        <5> QED
          BY <3>1, <5>1, <5>2
      <4> QED
        BY <4>1, <4>2
    <3>3. IsSelected(g, N + 1)
      BY <3>2
    <3> HIDE DEF IsSelected, g
    <3>4. \E h : IsSelected(h, N + 1)
      BY <3>3
    <3> QED
      BY <3>4
  <2> HIDE DEF Recursed
  <2> QED
    BY <2>1, <2>2, Induction
<1>4. IsSelected(selected, Len(s))
  <2>1. Len(s) \in Recursed
    BY <1>2, <1>3
  <2>2. \E f : IsSelected(f, Len(s))
    BY <2>1
  <2> QED
    BY <2>2
<1> HIDE DEF selected
<1>5. selected[0] = <<>>
  BY <1>2, <1>4
<1>6. ASSUME NEW n \in 1 .. Len(s) PROVE selected[n] = Step(selected[n - 1], n)
  <2>1. n \in 0 .. Len(s) /\ n # 0
    BY <1>2
  <2> HIDE DEF Step
  <2> QED
    BY <1>4, <2>1
<1>7. 0 \in Good
  <2>1. Sound(<<>>)
    BY DEF Range
  <2> QED
    BY <1>5, <2>1
<1>8. ASSUME NEW n \in Nat, n \in Good PROVE n + 1 \in Good
  <2> SUFFICES ASSUME n + 1 <= Len(s) PROVE Sound(selected[n + 1])
    OBVIOUS
  <2> DEFINE q == selected[n]
  <2>1. n + 1 \in 1 .. Len(s) /\ (n + 1) - 1 = n
    BY <1>2
  <2>2. selected[n + 1] = IF s[n + 1] \in S THEN Append(q, s[n + 1]) ELSE q
    BY <1>6, <2>1
  <2>3. Sound(q)
    BY <1>2, <1>8
  <2>4. s[n + 1] \in Tensor /\ s[n + 1] \in Range(s)
    BY <1>2, <2>1 DEF Range
  <2> HIDE DEF q
  <2>5. /\ Append(q, s[n + 1]) \in Seq(Tensor)
        /\ Range(Append(q, s[n + 1])) = Range(q) \cup {s[n + 1]}
    BY <2>3, <2>4, AppendedList
  <2> QED
    BY <2>2, <2>3, <2>4, <2>5
<1>9. Len(s) \in Good
  <2> HIDE DEF Good
  <2> QED
    BY <1>2, <1>7, <1>8, Induction
<1> QED
  BY <1>1, <1>2, <1>9

(* There is a largest layer among the tensors of a list and -1.            *)
LEMMA MaxLayerExists ==
  ASSUME NEW s \in Seq(Tensor)
  PROVE  MaxLayer(Range(s)) \in LayerIds \cup {-1}
<1> DEFINE Layers(n) == {-1} \cup {LayerOf[s[i]] : i \in 1 .. n}
           Good == {n \in Nat : n <= Len(s) => \E x \in Layers(n) : \A y \in Layers(n) : x >= y}
<1>1. Len(s) \in Nat /\ DOMAIN s = 1 .. Len(s)
  OBVIOUS
<1>2. \A i \in 1 .. Len(s) : LayerOf[s[i]] \in Int /\ LayerOf[s[i]] \in LayerIds
  BY LayersAreSigned DEF LayerIds
<1>3. 0 \in Good
  OBVIOUS
<1>4. ASSUME NEW n \in Nat, n \in Good PROVE n + 1 \in Good
  <2> SUFFICES ASSUME n + 1 <= Len(s)
               PROVE  \E x \in Layers(n + 1) : \A y \in Layers(n + 1) : x >= y
    OBVIOUS
  <2>1. PICK x \in Layers(n) : \A y \in Layers(n) : x >= y
    <3>1. n <= Len(s)
      BY <1>1
    <3> HIDE DEF Layers
    <3> QED
      BY <1>4, <3>1
  <2>2. n + 1 \in 1 .. Len(s) /\ 1 .. n \subseteq 1 .. Len(s) /\ 1 .. n + 1 = (1 .. n) \cup {n + 1}
    BY <1>1
  <2>3. Layers(n + 1) = Layers(n) \cup {LayerOf[s[n + 1]]}
    BY <2>2
  <2>4. x \in Int /\ LayerOf[s[n + 1]] \in Int /\ \A y \in Layers(n) : y \in Int
    BY <1>2, <2>2
  <2> HIDE DEF Layers
  <2>5. CASE x >= LayerOf[s[n + 1]]
    BY <2>1, <2>3, <2>5
  <2>6. CASE x < LayerOf[s[n + 1]]
    BY <2>1, <2>3, <2>4, <2>6
  <2> QED
    BY <2>4, <2>5, <2>6
<1>5. Len(s) \in Good
  <2> HIDE DEF Good
  <2> QED
    BY <1>1, <1>3, <1>4, Induction
<1>6. Layers(Len(s)) = {-1} \cup {LayerOf[t] : t \in Range(s)}
  BY <1>1 DEF Range
<1>7. \E x \in Layers(Len(s)) : \A y \in Layers(Len(s)) : x >= y
  BY <1>1, <1>5
<1>8. MaxLayer(Range(s)) \in Layers(Len(s))
  BY <1>6, <1>7 DEF MaxLayer, Max
<1> QED
  BY <1>2, <1>8

LEMMA MaxLayerOfNone == MaxLayer({}) = -1
<1>1. {-1} \cup {LayerOf[t] : t \in {}} = {-1}
  OBVIOUS
<1>2. (CHOOSE x \in {-1} : \A y \in {-1} : x >= y) = -1
  OBVIOUS
<1> QED
  BY <1>1, <1>2 DEF MaxLayer, Max

-----------------------------------------------------------------------------
(* What a graph schedules and answers for it owns itself, read member by   *)
(* member.                                                                 *)
Consistent(r) ==
  /\ r \in Members
  /\ \A l \in Range(r.execution_levels) : Range(l) \subseteq Range(r.all_tensors)
  /\ Range(r.execution_order) \subseteq Range(r.all_tensors)
  /\ \A l \in LayerIds : Range(r.layer_groups[l]) \subseteq Range(r.all_tensors)
  /\ Range(r.external_outputs) \subseteq Range(r.all_tensors)
  /\ r.max_layer = MaxLayer(UNION {Range(l) : l \in Range(r.execution_levels)})

MembersInv ==
  /\ exists \subseteq Graph
  /\ heap \in [Tensor -> {"client", "handed", "deleted"}]
  /\ graph \in [Graph -> Members]
  /\ \A g \in Graph : Consistent(graph[g])

LEMMA MembersInvKeepsTogether == MembersInv => TypeOK /\ MembersTravelTogether
<1> SUFFICES ASSUME MembersInv PROVE TypeOK /\ MembersTravelTogether
  OBVIOUS
<1>1. TypeOK
  BY DEF MembersInv, TypeOK
<1>2. ASSUME NEW g \in exists
      PROVE  /\ Scheduled(g) \cup Range(graph[g].external_outputs) \subseteq Owned(g)
             /\ graph[g].max_layer =
                  MaxLayer(UNION {Range(l) : l \in Range(graph[g].execution_levels)})
  <2>1. Consistent(graph[g])
    BY <1>2 DEF MembersInv
  <2>2. \A l \in Range(graph[g].execution_levels) : Range(l) \subseteq Owned(g)
    BY <2>1 DEF Consistent, Owned
  <2>3. UNION {Range(l) : l \in Range(graph[g].execution_levels)} \subseteq Owned(g)
    BY <2>2
  <2>4. UNION {Range(graph[g].layer_groups[l]) : l \in LayerIds} \subseteq Owned(g)
    BY <2>1 DEF Consistent, Owned
  <2>5. /\ Range(graph[g].execution_order) \cup Range(graph[g].external_outputs) \subseteq Owned(g)
        /\ graph[g].max_layer =
             MaxLayer(UNION {Range(l) : l \in Range(graph[g].execution_levels)})
    BY <2>1 DEF Consistent, Owned
  <2>6. Scheduled(g) \subseteq Owned(g)
    BY <2>3, <2>4, <2>5 DEF Scheduled
  <2> QED
    BY <2>5, <2>6
<1> QED
  BY <1>1, <1>2 DEF MembersTravelTogether

LEMMA EmptyIsConsistent == Consistent(Empty)
<1>1. Empty \in Members
  BY DEF Empty, Members
<1>2. Range(<<>>) = {}
  BY DEF Range
<1>3. UNION {Range(l) : l \in Range(<<>>)} = {}
  BY <1>2
<1> QED
  BY <1>1, <1>2, <1>3, MaxLayerOfNone DEF Empty, Consistent

(* A sort schedules what the graph lists, which its outputs are among.     *)
LEMMA SortedIsConsistent ==
  ASSUME NEW all \in Seq(Tensor), NEW outputs \in Seq(Tensor),
         Range(outputs) \subseteq Range(all), NEW sorted \in SortsTo(all, outputs)
  PROVE  Consistent(sorted)
<1>1. PICK level \in SetToSeqs(Range(all)) : sorted = Sorted(all, outputs, level)
  BY DEF SortsTo
<1>2. IsFiniteSet(Range(all)) /\ Range(all) \subseteq Tensor
  <2>1. all \in Surjection(1 .. Len(all), Range(all))
    BY DEF Surjection, Range
  <2>2. IsFiniteSet(1 .. Len(all))
    BY FS_Interval
  <2>3. Range(all) \subseteq Tensor
    BY DEF Range
  <2> QED
    BY <2>1, <2>2, <2>3, FS_Surjection
<1>3. level \in Seq(Range(all)) /\ Range(level) = Range(all)
  BY <1>1, <1>2, EnumerationsAreComplete
<1>4. level \in Seq(Tensor)
  BY <1>2, <1>3
<1> DEFINE levels == IF all = <<>> THEN <<>> ELSE <<level>>
<1>5. levels \in Seq(Seq(Tensor))
  BY <1>4
<1>6. Range(<<>>) = {} /\ Range(<<level>>) = {level}
  BY DEF Range
<1>7. UNION {Range(l) : l \in Range(levels)} = Range(all)
  BY <1>3, <1>6
<1>8. MaxLayer(Range(all)) \in LayerIds \cup {-1}
  BY MaxLayerExists
<1>9. /\ ExecutionOrder(level) \in Seq(Tensor)
      /\ Range(ExecutionOrder(level)) \subseteq Range(all)
  BY <1>3, <1>4, SelectedAreMembers DEF ExecutionOrder
<1>10. /\ LayerGroups(level) \in [LayerIds -> Seq(Tensor)]
       /\ \A l \in LayerIds : Range(LayerGroups(level)[l]) \subseteq Range(all)
  BY <1>3, <1>4, SelectedAreMembers DEF LayerGroups
<1>11. /\ sorted.all_tensors = all /\ sorted.execution_levels = levels
       /\ sorted.execution_order = ExecutionOrder(level)
       /\ sorted.layer_groups = LayerGroups(level)
       /\ sorted.external_outputs = outputs /\ sorted.max_layer = MaxLayer(Range(all))
  BY <1>1 DEF Sorted
<1>12. sorted \in Members
  BY <1>1, <1>5, <1>8, <1>9, <1>10 DEF Sorted, Members
<1>13. \A l \in Range(levels) : Range(l) \subseteq Range(all)
  BY <1>3, <1>6
<1> HIDE DEF levels
<1> QED
  BY <1>7, <1>9, <1>10, <1>11, <1>12, <1>13 DEF Consistent

(* A tensor more is owned, and nothing else is changed.                    *)
LEMMA AddedIsConsistent ==
  ASSUME NEW r, Consistent(r), NEW t \in Tensor
  PROVE  Consistent([r EXCEPT !.all_tensors = Append(@, t)])
<1> DEFINE added == [r EXCEPT !.all_tensors = Append(@, t)]
<1>1. r \in Members /\ r.all_tensors \in Seq(Tensor)
  BY DEF Consistent, Members
<1>2. /\ Append(r.all_tensors, t) \in Seq(Tensor)
      /\ Range(r.all_tensors) \subseteq Range(Append(r.all_tensors, t))
  BY <1>1, AppendedList
<1>3. /\ added.all_tensors = Append(r.all_tensors, t)
      /\ added.execution_levels = r.execution_levels
      /\ added.execution_order = r.execution_order
      /\ added.layer_groups = r.layer_groups
      /\ added.external_outputs = r.external_outputs
      /\ added.max_layer = r.max_layer
      /\ added \in Members
  BY <1>1, <1>2 DEF Members
<1> HIDE DEF added
<1>4. Consistent(added)
  BY <1>2, <1>3 DEF Consistent
<1> QED
  BY <1>4 DEF added

-----------------------------------------------------------------------------
LEMMA MembersInvInit == Init => MembersInv
<1>1. Empty \in Members
  BY EmptyIsConsistent DEF Consistent
<1> QED
  BY <1>1, EmptyIsConsistent DEF Init, MembersInv

(* One graph is given members that are consistent.                         *)
LEMMA NewMembersKeep ==
  ASSUME MembersInv, NEW g \in Graph, NEW r, Consistent(r),
         graph' = [graph EXCEPT ![g] = r], exists' \subseteq Graph,
         heap' \in [Tensor -> {"client", "handed", "deleted"}]
  PROVE  MembersInv'
<1>1. r \in Members
  BY DEF Consistent
<1>2. graph' \in [Graph -> Members] /\ \A h \in Graph : graph'[h] = IF h = g THEN r ELSE graph[h]
  BY <1>1 DEF MembersInv
<1>3. \A h \in Graph : Consistent(graph'[h])
  BY <1>2 DEF MembersInv
<1> QED
  BY <1>2, <1>3 DEF MembersInv

(* One graph is given the members of another, which is left empty.         *)
LEMMA MovedMembersKeep ==
  ASSUME MembersInv, NEW g \in Graph, NEW other \in Graph,
         graph' = [graph EXCEPT ![g] = graph[other], ![other] = MovedFrom(other)],
         exists' \subseteq Graph,
         heap' \in [Tensor -> {"client", "handed", "deleted"}]
  PROVE  MembersInv'
<1>1. Empty \in Members
  BY EmptyIsConsistent DEF Consistent
<1>2. /\ graph' \in [Graph -> Members]
      /\ \A h \in Graph : graph'[h] = IF h = other THEN Empty
                                      ELSE IF h = g THEN graph[other] ELSE graph[h]
  BY <1>1 DEF MembersInv, MovedFrom
<1>3. \A h \in Graph : Consistent(graph'[h])
  BY <1>2, EmptyIsConsistent DEF MembersInv
<1> QED
  BY <1>2, <1>3 DEF MembersInv

LEMMA DeletedFates ==
  ASSUME MembersInv, NEW g, DeleteAll(g)
  PROVE  heap' \in [Tensor -> {"client", "handed", "deleted"}]
BY DEF MembersInv, DeleteAll

LEMMA BuildKeepsMembers ==
  ASSUME MembersInv, NEW g \in exists, NEW outputs \in Outputs, BuildFromOutputs(g, outputs)
  PROVE  MembersInv'
<1>1. PICK all \in Collected(outputs) : \E sorted \in SortsTo(all, outputs) :
        graph' = [graph EXCEPT ![g] = sorted]
  BY DEF BuildFromOutputs
<1>2. PICK sorted \in SortsTo(all, outputs) : graph' = [graph EXCEPT ![g] = sorted]
  BY <1>1
<1>3. all \in Seq(Tensor) /\ Range(all) = Range(outputs)
  BY CollectedAreTheOutputs
<1>4. outputs \in Seq(Tensor)
  BY OutputsAreCounted DEF Outputs
<1>5. Consistent(sorted)
  BY <1>3, <1>4, SortedIsConsistent
<1>6. /\ g \in Graph /\ exists' \subseteq Graph
      /\ heap' \in [Tensor -> {"client", "handed", "deleted"}]
  BY DEF MembersInv, BuildFromOutputs
<1> QED
  BY <1>2, <1>5, <1>6, NewMembersKeep

LEMMA RebuildKeepsMembers ==
  ASSUME MembersInv, NEW g \in exists, RebuildOrder(g)
  PROVE  MembersInv'
<1>1. PICK sorted \in SortsTo(graph[g].all_tensors, graph[g].external_outputs) :
        graph' = [graph EXCEPT ![g] = sorted]
  BY DEF RebuildOrder
<1>2. /\ g \in Graph /\ exists' \subseteq Graph /\ Consistent(graph[g])
      /\ heap' \in [Tensor -> {"client", "handed", "deleted"}]
  BY DEF MembersInv, RebuildOrder
<1>3. /\ graph[g].all_tensors \in Seq(Tensor) /\ graph[g].external_outputs \in Seq(Tensor)
      /\ Range(graph[g].external_outputs) \subseteq Range(graph[g].all_tensors)
  BY <1>2 DEF Consistent, Members
<1>4. Consistent(sorted)
  BY <1>3, SortedIsConsistent
<1> QED
  BY <1>1, <1>2, <1>4, NewMembersKeep

LEMMA NextKeepsMembers == MembersInv /\ [Next]_vars => MembersInv'
<1> SUFFICES ASSUME MembersInv, [Next]_vars PROVE MembersInv'
  OBVIOUS
<1>1. exists \subseteq Graph /\ heap \in [Tensor -> {"client", "handed", "deleted"}]
  BY DEF MembersInv
<1>2. ASSUME NEW g \in Graph, Construct(g) PROVE MembersInv'
  <2>1. exists' \subseteq Graph /\ heap' = heap /\ graph' = [graph EXCEPT ![g] = Empty]
    BY <1>1, <1>2 DEF Construct
  <2> QED
    BY <1>1, <2>1, EmptyIsConsistent, NewMembersKeep
<1>3. ASSUME NEW g \in Graph, NEW other \in exists, MoveConstruct(g, other) PROVE MembersInv'
  <2>1. /\ other \in Graph /\ exists' \subseteq Graph /\ heap' = heap
        /\ graph' = [graph EXCEPT ![g] = graph[other], ![other] = MovedFrom(other)]
    BY <1>1, <1>3 DEF MoveConstruct
  <2> QED
    BY <1>1, <2>1, MovedMembersKeep
<1>4. CASE UNCHANGED vars
  BY <1>4 DEF vars, MembersInv
<1>5. ASSUME NEW g \in exists, NEW other \in exists, MoveAssign(g, other) PROVE MembersInv'
  <2>1. CASE g = other
    BY <1>4, <1>5, <2>1, AssignToItself
  <2>2. CASE g # other
    <3>1. /\ g \in Graph /\ other \in Graph /\ exists' \subseteq Graph /\ DeleteAll(g)
          /\ graph' = [graph EXCEPT ![g] = graph[other], ![other] = MovedFrom(other)]
      BY <1>1, <1>5, <2>2 DEF MoveAssign
    <3> QED
      BY <3>1, DeletedFates, MovedMembersKeep
  <2> QED
    BY <2>1, <2>2
<1>6. ASSUME NEW g \in exists, NEW t \in Tensor, AddTensor(g, t) PROVE MembersInv'
  <2> DEFINE r == [graph[g] EXCEPT !.all_tensors = Append(@, t)]
  <2>1. g \in Graph /\ exists' \subseteq Graph /\ Consistent(graph[g])
    BY <1>1, <1>6 DEF AddTensor, MembersInv
  <2>2. graph' = [graph EXCEPT ![g] = r]
    BY <1>6 DEF AddTensor
  <2>3. heap' \in [Tensor -> {"client", "handed", "deleted"}]
    BY <1>1, <1>6 DEF AddTensor
  <2>4. Consistent(r)
    BY <2>1, AddedIsConsistent
  <2> HIDE DEF r
  <2> QED
    BY <2>1, <2>2, <2>3, <2>4, NewMembersKeep
<1>7. ASSUME NEW g \in exists, Clear(g) \/ Destroy(g) PROVE MembersInv'
  <2>1. /\ g \in Graph /\ exists' \subseteq Graph /\ DeleteAll(g)
        /\ graph' = [graph EXCEPT ![g] = Empty]
    BY <1>1, <1>7 DEF Clear, Destroy
  <2> QED
    BY <2>1, DeletedFates, EmptyIsConsistent, NewMembersKeep
<1> QED
  BY <1>2, <1>3, <1>4, <1>5, <1>6, <1>7, BuildKeepsMembers, RebuildKeepsMembers DEF Next

(***************************************************************************)
(* For any graphs and tensors, the members of every graph are of their     *)
(* types; max_layer in particular is the layer of some tensor, or -1.      *)
(***************************************************************************)
THEOREM MovesKeepTypes == Spec => []TypeOK
<1>1. MembersInv => TypeOK
  BY MembersInvKeepsTogether
<1> QED
  BY MembersInvInit, NextKeepsMembers, <1>1, PTL DEF Spec

(***************************************************************************)
(* However graphs are moved into one another, what a graph schedules and   *)
(* what it was built for it owns itself, and max_layer is the largest of   *)
(* the layers it scheduled.                                                *)
(***************************************************************************)
THEOREM MovesKeepMembersTogether == Spec => []MembersTravelTogether
<1>1. MembersInv => MembersTravelTogether
  BY MembersInvKeepsTogether
<1> QED
  BY MembersInvInit, NextKeepsMembers, <1>1, PTL DEF Spec

=============================================================================
