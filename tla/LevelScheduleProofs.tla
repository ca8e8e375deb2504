------------------------- MODULE LevelScheduleProofs -------------------------
(* Proofs about the abstract level walk of module LevelSchedule. *)
EXTENDS LevelSchedule, TLAPS

(* Every reachable state of the walk is well typed. *)
THEOREM LevelScheduleType == SafetySpec => []TypeOK
<1>1. Init => TypeOK
  BY DEF Init, TypeOK
<1>2. TypeOK /\ [Next]_vars => TypeOK'
  <2> SUFFICES ASSUME TypeOK, [Next]_vars PROVE TypeOK'
    OBVIOUS
  <2>1. CASE EmitWave
    BY <2>1 DEF TypeOK, EmitWave, Wave
  <2>2. CASE Complete
    BY <2>2 DEF TypeOK, Complete
  <2>3. CASE Reject
    BY <2>3 DEF TypeOK, Reject
  <2>4. CASE UNCHANGED vars
    BY <2>4 DEF TypeOK, vars
  <2> QED
    BY <2>1, <2>2, <2>3, <2>4 DEF Next
<1> QED
  BY <1>1, <1>2, PTL DEF SafetySpec

-----------------------------------------------------------------------------
(* No node of a wave belongs to a trap that has lost no node so far: it    *)
(* would depend on a node of the trap, and all its dependencies are out.   *)
LEMMA WaveAvoidsTraps ==
  ASSUME NEW S \in SUBSET nodes, IsTrap(S), S \cap emitted = {}
  PROVE  S \cap Wave = {}
<1> SUFFICES ASSUME NEW n \in S, n \in Wave PROVE FALSE
  OBVIOUS
<1>1. PICK m \in S : m \in deps[n]
  BY DEF IsTrap
<1>2. m \in emitted
  BY <1>1 DEF Wave
<1> QED
  BY <1>2

(* A walk with nodes left and no wave has walked into a trap: the nodes    *)
(* that are left.                                                          *)
LEMMA StuckIsTrap ==
  ASSUME TypeOK, emitted # nodes, Wave = {}
  PROVE  IsTrap(nodes \ emitted)
<1>1. nodes \ emitted # {}
  BY DEF TypeOK
<1>2. ASSUME NEW n \in nodes \ emitted
      PROVE  deps[n] \cap (nodes \ emitted) # {}
  <2>1. ~(deps[n] \cap nodes \subseteq emitted)
    BY DEF Wave
  <2> QED
    BY <2>1
<1> QED
  BY <1>1, <1>2 DEF IsTrap

(* The inductive invariant: traps are untouched and a verdict, once given, *)
(* is backed by the nodes left (rejection) or by none being left.          *)
WalkInv ==
  /\ TypeOK
  /\ TrapsStayOut
  /\ VerdictCorrect

LEMMA WalkInvInit == Init => WalkInv
BY DEF Init, WalkInv, TypeOK, TrapsStayOut, VerdictCorrect

LEMMA WalkInvStep == WalkInv /\ [Next]_vars => WalkInv'
<1> SUFFICES ASSUME WalkInv, [Next]_vars PROVE WalkInv'
  OBVIOUS
<1>1. TypeOK'
  <2>1. CASE EmitWave
    BY <2>1 DEF WalkInv, TypeOK, EmitWave, Wave
  <2>2. CASE Complete
    BY <2>2 DEF WalkInv, TypeOK, Complete
  <2>3. CASE Reject
    BY <2>3 DEF WalkInv, TypeOK, Reject
  <2>4. CASE UNCHANGED vars
    BY <2>4 DEF WalkInv, TypeOK, vars
  <2> QED
    BY <2>1, <2>2, <2>3, <2>4 DEF Next
<1>2. nodes' = nodes /\ deps' = deps
  BY DEF Next, EmitWave, Complete, Reject, vars
<1>3. \A S : IsTrap(S)' <=> IsTrap(S)
  BY <1>2 DEF IsTrap
<1>4. TrapsStayOut'
  <2> SUFFICES ASSUME NEW S \in SUBSET nodes, IsTrap(S)
               PROVE  S \cap emitted' = {}
    BY <1>2, <1>3 DEF TrapsStayOut
  <2>1. S \cap emitted = {}
    BY DEF WalkInv, TrapsStayOut
  <2>2. CASE EmitWave
    BY <2>1, <2>2, WaveAvoidsTraps DEF EmitWave
  <2>3. CASE ~EmitWave
    BY <2>1, <2>3 DEF Next, Complete, Reject, vars
  <2> QED
    BY <2>2, <2>3
<1>5. Cyclic' <=> Cyclic
  BY <1>2, <1>3 DEF Cyclic
<1>6. VerdictCorrect'
  <2>1. CASE EmitWave
    BY <2>1 DEF EmitWave, VerdictCorrect
  <2>2. CASE Complete
    <3>1. ~Cyclic
      <4> SUFFICES ASSUME NEW S \in SUBSET nodes, IsTrap(S) PROVE FALSE
        BY DEF Cyclic
      <4>1. S \cap nodes = {}
        BY <2>2 DEF WalkInv, TrapsStayOut, Complete
      <4> QED
        BY <4>1 DEF IsTrap
    <3> QED
      BY <1>2, <1>5, <2>2, <3>1 DEF Complete, VerdictCorrect
  <2>3. CASE Reject
    <3>1. Cyclic
      <4>1. IsTrap(nodes \ emitted)
        BY <2>3, StuckIsTrap DEF Reject, WalkInv
      <4> QED
        BY <4>1 DEF Cyclic
    <3> QED
      BY <1>5, <2>3, <3>1 DEF Reject, VerdictCorrect
  <2>4. CASE UNCHANGED vars
    BY <1>2, <1>5, <2>4 DEF WalkInv, VerdictCorrect, vars
  <2> QED
    BY <2>1, <2>2, <2>3, <2>4 DEF Next
<1> QED
  BY <1>1, <1>4, <1>6 DEF WalkInv

(* The verdict of the walk is right both ways, for every graph. *)
THEOREM LevelScheduleVerdict == SafetySpec => []VerdictCorrect
<1>1. WalkInv => VerdictCorrect
  BY DEF WalkInv
<1> QED
  BY <1>1, WalkInvInit, WalkInvStep, PTL DEF SafetySpec

=============================================================================
